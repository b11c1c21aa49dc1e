------------------------------- MODULE AttLink -------------------------------
(***************************************************************************)
(* The raw ATT link of the Linux backend (ble/linux/att_link.rs): request  *)
(* and reply transactions without tags over one packet socket, the reader  *)
(* task that hands replies and notifications over, and close.              *)
(*                                                                         *)
(* A call is one use of transact.  First open makes one after the other,   *)
(* until the discovery has what the bridge needs; then subscribe makes     *)
(* them, possibly concurrently.  Any future may be dropped at an await.    *)
(* The peer and the socket are external: the peer answers each request it  *)
(* received at most once and in order, as late as it likes, and packets    *)
(* are neither lost nor reordered.                                         *)
(*                                                                         *)
(* Abstracted: handles and values, unacknowledged writes, and the requests *)
(* of the peer, which the reader answers as it confirms an indication.     *)
(***************************************************************************)
EXTENDS Discovery

CONSTANTS Calls,       \* uses of subscribe, each with one transaction
          Opener,      \* AttLink::open, which makes many
          NoCall,
          MaxNotices   \* bound on the notifications the peer sends

ASSUME AttLinkAssumption ==
  /\ Opener \notin Calls /\ NoCall \notin Calls \cup {Opener} /\ MaxNotices \in Nat

VARIABLES
  opening,  \* AttLink::open: "running", "open" or "failed"
  state,    \* of each call, see CallStates
  queue,    \* the fair lock `transaction': its head holds it, the rest wait
  pending,  \* the call whose oneshot sender is in `pending'
  reply,    \* per call: the call whose reply its oneshot channel holds
  sinks,    \* calls whose notification sink is registered
  closed,   \* the closed token; the socket is shut down with it
  reader,   \* reader task: "recv", "confirm" (sends a confirmation), "ended"
  closer,   \* AttLink::close: "open", "joining" the reader, "done"
  wire,     \* requests on their way to the peer
  air,      \* packets on their way from the peer
  notices,  \* notifications sent so far
  enabled,  \* calls whose notifications the peer has enabled
  missed    \* calls of which a notification was read without a sink

open == <<opening, discovery>>
local == <<state, queue, pending, reply, sinks, closed>>
peer == <<wire, air, notices, enabled, missed>>
vars == <<open, local, reader, closer, peer>>

Users == Calls \cup {Opener}
CallStates == {"new", "queued", "sending", "waiting", "ok", "failed"}
Packet == [kind : {"reply"}, of : Users]
            \cup [kind : {"notification", "indication"}, of : Calls]
InFlight(c) == state[c] \in {"sending", "waiting"}
Ended(c) == state[c] \in {"ok", "failed"}
Holds(c) == queue # <<>> /\ queue[1] = c

Init ==
  /\ DiscoveryInit /\ opening = "running"
  /\ state = [c \in Users |-> "new"] /\ queue = <<>>
  /\ pending = NoCall /\ reply = [c \in Users |-> NoCall]
  /\ sinks = {} /\ closed = FALSE
  /\ reader = "recv" /\ closer = "open"
  /\ wire = <<>> /\ air = <<>> /\ notices = 0 /\ enabled = {} /\ missed = {}

-----------------------------------------------------------------------------
(* A call of transact. *)

Become(c, s) == state' = [state EXCEPT ![c] = s]

\* Fault: the pending reply is forgotten, but the link stays open.
CloseKeepsOpen == pending' = NoCall /\ UNCHANGED closed

\* Shared::close: its last step drops the sender a call waits for.
Close == closed' = TRUE /\ pending' = NoCall

\* When open fails it drops the link, which also aborts the reader.
Gone(c) ==
  IF c = Opener THEN opening' = "failed" /\ reader' = "ended" /\ Forget
  ELSE UNCHANGED <<open, reader>>

\* Fault: the sink is not in place when the peer is told to notify.
BeginWithoutSink(c) ==
  /\ opening = "open" /\ state[c] = "new" /\ closer = "open"
  /\ queue' = Append(queue, c)
  /\ Become(c, "queued")
  /\ UNCHANGED <<pending, reply, sinks, closed, reader, closer, peer, open>>

\* subscribe registers the sink, then transact queues for the lock.
Begin(c) ==
  /\ opening = "open" /\ state[c] = "new" /\ closer = "open"
  /\ sinks' = sinks \cup {c}
  /\ queue' = Append(queue, c)
  /\ Become(c, "queued")
  /\ UNCHANGED <<pending, reply, closed, reader, closer, peer, open>>

\* open sends the next request of the discovery.
BeginRequest ==
  /\ opening = "running" /\ state[Opener] = "new" /\ stage.at # "done"
  /\ queue' = Append(queue, Opener)
  /\ Become(Opener, "queued")
  /\ UNCHANGED <<pending, reply, sinks, closed, reader, closer, peer, open>>

\* Fault: transactions are not serialized.
LockFreely(c) ==
  /\ state[c] = "queued"
  /\ pending' = c
  /\ Become(c, "sending")
  /\ UNCHANGED <<queue, reply, sinks, closed, reader, closer, peer, open>>

Lock(c) ==
  /\ state[c] = "queued" /\ Holds(c)
  /\ pending' = c
  /\ Become(c, "sending")
  /\ UNCHANGED <<queue, reply, sinks, closed, reader, closer, peer, open>>

Send(c) ==
  /\ state[c] = "sending" /\ ~closed
  /\ wire' = Append(wire, c)
  /\ Become(c, "waiting")
  /\ UNCHANGED <<queue, pending, reply, sinks, closed, reader, closer, air, notices,
                 enabled, missed, open>>

Replied(c) == state[c] = "waiting" /\ ~closed /\ reply[c] # NoCall

Receive(c) ==
  /\ c # Opener /\ Replied(c)
  /\ queue' = Tail(queue)
  /\ Become(c, "ok")
  /\ UNCHANGED <<pending, reply, sinks, closed, reader, closer, peer, open>>

\* The discovery accepts the response; open goes on with the next request.
ReceiveResponse ==
  /\ Replied(Opener)
  /\ queue' = Tail(queue)
  /\ Become(Opener, "new")
  /\ reply' = [reply EXCEPT ![Opener] = NoCall]
  /\ OnResponse
  /\ UNCHANGED <<pending, sinks, closed, reader, closer, peer, opening>>

\* The discovery is done and found everything: open keeps its handles.
Opened ==
  /\ opening = "running" /\ state[Opener] = "new" /\ stage.at = "done" /\ Finished
  /\ opening' = "open" /\ Forget
  /\ Become(Opener, "ok")
  /\ UNCHANGED <<queue, pending, reply, sinks, closed, reader, closer, peer>>

\* A characteristic or CCCD is missing, or the future of open is dropped between
\* two requests.
OpenFails ==
  /\ opening = "running" /\ state[Opener] = "new"
  /\ Close /\ Gone(Opener)
  /\ Become(Opener, "failed")
  /\ UNCHANGED <<queue, reply, sinks, closer, peer>>

\* An ATT error or an unexpected reply: subscribe closes the link, open drops it.
Reject(c) ==
  /\ Replied(c)
  /\ queue' = Tail(queue)
  /\ Close /\ Gone(c)
  /\ Become(c, "failed")
  /\ UNCHANGED <<reply, sinks, closer, peer>>

\* The guard closes the link when a call that holds the lock fails: the send
\* fails, the link is closed, no reply came in time, or the call is dropped.
Fail(c) ==
  /\ InFlight(c)
  /\ queue' = Tail(queue)
  /\ Close /\ Gone(c)
  /\ Become(c, "failed")
  /\ UNCHANGED <<reply, sinks, closer, peer>>

FailClosed(c) == closed /\ Fail(c)

\* Fault: waiting for a reply has no timeout.
TimeOutLost(c) == state[c] = "waiting" /\ closed /\ Fail(c)

TimeOut(c) == state[c] = "waiting" /\ reply[c] = NoCall /\ Fail(c)

\* Dropped while it waits for the lock, a call leaves no trace but its sink.
DropQueued(c) ==
  /\ c # Opener /\ state[c] = "queued"
  /\ \E i \in 1..Len(queue) : queue[i] = c /\ queue' = RemoveAt(queue, i)
  /\ Become(c, "failed")
  /\ UNCHANGED <<pending, reply, sinks, closed, reader, closer, peer, open>>

-----------------------------------------------------------------------------
(* The reader task, and close. *)

Reads(kind) == reader = "recv" /\ ~closed /\ air # <<>> /\ air[1].kind = kind

ReadReply ==
  /\ Reads("reply")
  /\ reply' = IF pending = NoCall THEN reply      \* unsolicited
              ELSE [reply EXCEPT ![pending] = air[1].of]
  /\ pending' = NoCall
  /\ air' = Tail(air)
  /\ UNCHANGED <<state, queue, sinks, closed, reader, closer, wire, notices, enabled,
                 missed, open>>

ReadNotification(kind) ==
  /\ Reads(kind)
  /\ missed' = missed \cup ({air[1].of} \ sinks)
  /\ reader' = IF kind = "indication" THEN "confirm" ELSE "recv"
  /\ air' = Tail(air)
  /\ UNCHANGED <<local, closer, wire, notices, enabled, open>>

Confirm ==
  /\ reader = "confirm" /\ ~closed
  /\ reader' = "recv"
  /\ UNCHANGED <<local, closer, peer, open>>

\* The token, the end of the socket, an I/O error or a malformed packet.
ReaderEnds ==
  /\ reader # "ended"
  /\ reader' = "ended"
  /\ Close
  /\ UNCHANGED <<state, queue, reply, sinks, closer, peer, open>>

CloseLink ==
  /\ opening = "open" /\ closer = "open"
  /\ closer' = "joining"
  /\ Close
  /\ UNCHANGED <<state, queue, reply, sinks, reader, peer, open>>

Joined ==
  /\ closer = "joining" /\ reader = "ended"
  /\ closer' = "done"
  /\ UNCHANGED <<local, reader, peer, open>>

-----------------------------------------------------------------------------
(* The peer. *)

\* The write of a CCCD enables its notifications, then it is answered.
Answer ==
  /\ wire # <<>>
  /\ wire' = Tail(wire)
  /\ enabled' = enabled \cup ({wire[1]} \cap Calls)
  /\ air' = Append(air, [kind |-> "reply", of |-> wire[1]])
  /\ UNCHANGED <<local, reader, closer, notices, missed, open>>

\* A notification of a characteristic the peer was told to notify.
Notify(c, kind) ==
  /\ c \in enabled /\ notices < MaxNotices
  /\ notices' = notices + 1
  /\ air' = Append(air, [kind |-> kind, of |-> c])
  /\ UNCHANGED <<local, reader, closer, wire, enabled, missed, open>>

Next ==
  \/ BeginRequest \/ ReceiveResponse \/ Opened \/ OpenFails
  \/ \E c \in Calls : Begin(c)
  \/ \E c \in Users : \/ Lock(c) \/ Send(c) \/ Receive(c) \/ Reject(c)
                      \/ Fail(c) \/ DropQueued(c)
  \/ ReadReply \/ \E kind \in {"notification", "indication"} : ReadNotification(kind)
  \/ Confirm \/ ReaderEnds \/ CloseLink \/ Joined
  \/ Answer
  \/ \E c \in Calls, kind \in {"notification", "indication"} : Notify(c, kind)

Spec == Init /\ [][Next]_vars

\* The executor runs open, each call and the reader, the two-second timer of a
\* waiting call fires, and the socket takes a request that is sent (transact
\* sends before it starts its timer).  Nothing is assumed of the peer.
FairSpec ==
  /\ Spec
  /\ \A c \in Users : /\ WF_vars(Lock(c)) /\ WF_vars(FailClosed(c) \/ TimeOut(c))
                      /\ WF_vars(Send(c) \/ FailClosed(c))
                      /\ WF_vars(Receive(c) \/ Reject(c))
  /\ WF_vars(OpenFails \/ BeginRequest \/ Opened)
  /\ WF_vars(Reject(Opener) \/ ReceiveResponse)
  /\ WF_vars(closed /\ ReaderEnds)
  /\ WF_vars(Joined)

-----------------------------------------------------------------------------
TypeOK ==
  /\ opening \in {"running", "open", "failed"}
  /\ state \in [Users -> CallStates]
  /\ queue \in Seq(Users)
  /\ pending \in Users \cup {NoCall}
  /\ reply \in [Users -> Users \cup {NoCall}]
  /\ sinks \subseteq Calls /\ closed \in BOOLEAN
  /\ reader \in {"recv", "confirm", "ended"}
  /\ closer \in {"open", "joining", "done"}
  /\ wire \in Seq(Users) /\ air \in Seq(Packet)
  /\ notices \in Nat /\ enabled \subseteq Calls /\ missed \subseteq Calls

\* Replies carry no tag, yet no call ever gets the reply of another: also not
\* the late reply of one that timed out or whose future was dropped.
NoCrossedReply == \A c \in Users : reply[c] \in {c, NoCall}

\* At most one request or reply is on its way.
OneUnread ==
  /\ Len(wire) <= 1
  /\ \A i \in 1..Len(air) : air[i].kind = "reply" =>
       wire = <<>> /\ \A j \in 1..Len(air) : air[j].kind = "reply" => j = i

\* ATT is sequential: one call at a time holds the lock, it is the one a reply
\* would go to, and while the link is open a request is only sent when the reply
\* of every earlier one was read.
OneOutstanding ==
  /\ TypeOK
  /\ \A c \in Users : InFlight(c) => Holds(c)
  /\ \A c \in Users : pending = c => InFlight(c)
  /\ ~closed => OneUnread

\* The sink of a characteristic is in place before the peer can notify it.
NoNotificationMissed == missed = {}

\* No call waits for ever, whether or not the peer answers and whatever becomes
\* of the calls before it in the queue; and open ends whatever the peer answers,
\* for the discovery cannot go round in circles.  And close returns: the reader it
\* joins ends, also while it is confirming an indication to a peer that does not
\* read.
CallsEnd ==
  /\ \A c \in Calls : state[c] = "queued" ~> Ended(c)
  /\ <>(opening # "running")
  /\ closer = "joining" ~> closer = "done"

==============================================================================
