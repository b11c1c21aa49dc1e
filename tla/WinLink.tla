------------------------------- MODULE WinLink -------------------------------
(***************************************************************************)
(* The WinRT link (ble/windows.rs) from the scan to its release: scan,     *)
(* connect, subscribe, write, close, and the callbacks of Windows.         *)
(*                                                                         *)
(* scan, connect and the calls of the link run on one runtime thread, and  *)
(* any of their futures may be dropped at an await.  Callbacks run on      *)
(* threads of Windows and may still be running after their handler was     *)
(* removed.  Whoever drops a Subscription waits for the lock of its sink,  *)
(* which a callback holds while it calls the sink, and the runtime thread  *)
(* does nothing else meanwhile.                                            *)
(*                                                                         *)
(* Windows is external: an operation ends when it likes.                   *)
(* Abstracted: addresses, values and statuses, the number of services, and *)
(* the connection parameters, which only the report shows.                 *)
(***************************************************************************)
EXTENDS Naturals

CONSTANTS Subs,        \* subscribe calls, each with a sink and a handler of its own
          Writes,      \* write calls
          Threads,     \* threads that run notification callbacks
          NoSub,
          MaxChanges   \* bound on the changes of the radio link

Watcher == {"watcher", "received", "stopped"}
Resources == {"status", "preference", "services", "device"}
Native == Watcher \cup Resources
Calls == Subs \cup Writes
Phases == {"scan", "device", "services", "characteristics", "open", "closing", "ended"}
Steps == {"idle", "check", "lock", "sink"}

ASSUME WinLinkAssumption ==
  /\ Subs \cap Writes = {} /\ NoSub \notin Subs
  /\ Subs \cap Native = {} /\ Calls \cap Phases = {}
  /\ MaxChanges \in Nat

VARIABLES
  phase,     \* see Phases; the first four are the awaits of scan and connect
  scanned,   \* channel of the scan: "empty", "found" or "stopped"
  call,      \* of each call: "new", "running", "ok", "failed"
  running,   \* operations of Windows: those of phase, or of a call
  answered,  \* those that succeeded, but their future was not polled yet
  held,      \* handles and handlers that are not released, of Native and Subs
  recorded,  \* resources.subscriptions
  dropping,  \* subscriptions the runtime thread is dropping
  sinks,     \* subscriptions whose slot holds the sink
  closed,    \* the closed token
  thread,    \* of each callback thread: the step it is at, and its subscription
  radio,     \* the radio link is up
  event,     \* a change of it is not yet reported to the status handler
  changes

handles == <<held, recorded, dropping, sinks>>
link == <<phase, scanned, call, running, answered, handles>>
world == <<radio, event, changes>>
vars == <<link, closed, thread, world>>

Idle == [at |-> "idle", of |-> NoSub]

Init ==
  /\ phase = "scan" /\ scanned = "empty" /\ held = Watcher
  /\ call = [c \in Calls |-> "new"] /\ running = {} /\ answered = {}
  /\ recorded = {} /\ dropping = {} /\ sinks = {} /\ closed = FALSE
  /\ thread = [t \in Threads |-> Idle]
  /\ radio = FALSE /\ event = FALSE /\ changes = 0

-----------------------------------------------------------------------------
(* scan: the callbacks of the watcher fill a channel of one. *)

Report(what) ==
  /\ phase = "scan"
  /\ scanned' = IF scanned = "empty" THEN what ELSE scanned
  /\ UNCHANGED <<phase, call, running, answered, handles, closed, thread, world>>

\* Polling a future that is done takes its answer; connect goes on to the next.
StartOperation(op) == running' = {op} /\ answered' = {}

\* Dropping the Watcher removes its handlers and stops it; connect begins.
Found ==
  /\ phase = "scan" /\ scanned = "found"
  /\ held' = held \ Watcher
  /\ StartOperation("device") /\ phase' = "device"
  /\ UNCHANGED <<scanned, call, recorded, dropping, sinks, closed, thread, world>>

\* The watcher stopped, or SCAN_TIMEOUT.
ScanFails ==
  /\ phase = "scan" /\ scanned \in {"stopped", "empty"}
  /\ held' = held \ Watcher
  /\ phase' = "ended"
  /\ UNCHANGED <<scanned, call, running, answered, recorded, dropping, sinks, closed, thread, world>>

-----------------------------------------------------------------------------
(* connect *)

\* Fault: losses are watched for once the services are known.
DeviceUnwatched ==
  /\ phase = "device" /\ phase \in answered
  /\ held' = held \cup {"device"}
  /\ StartOperation("services") /\ phase' = "services"
  /\ UNCHANGED <<scanned, call, recorded, dropping, sinks, closed, thread, world>>

\* The device is there, connected or not, and from now on it is watched.
Device ==
  /\ phase = "device" /\ phase \in answered
  /\ held' = held \cup {"device", "status"}
  /\ StartOperation("services") /\ phase' = "services"
  /\ UNCHANGED <<scanned, call, recorded, dropping, sinks, closed, thread, world>>

Services ==
  /\ phase = "services" /\ phase \in answered
  /\ held' = held \cup {"services"}
  /\ StartOperation("characteristics") /\ phase' = "characteristics"
  /\ UNCHANGED <<scanned, call, recorded, dropping, sinks, closed, thread, world>>

\* Every required characteristic was found.  The preference is asked for, which
\* Windows may not support.
Open ==
  /\ phase = "characteristics" /\ phase \in answered /\ ~closed
  /\ held' \in {held \cup {"status"}, held \cup {"status", "preference"}}
  /\ running' = {} /\ answered' = {} /\ phase' = "open"
  /\ UNCHANGED <<scanned, call, recorded, dropping, sinks, closed, thread, world>>

\* Fault: the operation of a dropped future is left running.
LeaveRunning(ops) == UNCHANGED <<running, answered>>

\* OnDrop cancels the operation a future was waiting for.
StopOperations(ops) == running' = running \ ops /\ answered' = answered \ ops

\* An operation fails, CONNECT_TIMEOUT (not while the device is looked up), a
\* required characteristic is missing, the link was lost meanwhile, or the
\* future is dropped.  Whatever connect holds goes with it.
ConnectFails ==
  /\ phase \in {"device", "services", "characteristics"}
  /\ StopOperations({phase})
  /\ held' = held \ Resources
  /\ phase' = "ended"
  /\ UNCHANGED <<scanned, call, recorded, dropping, sinks, closed, thread, world>>

-----------------------------------------------------------------------------
(* subscribe and write *)

\* The runtime thread is not waiting for the lock of a sink.
Free == dropping = {} /\ phase # "closing"

\* The link is closed, or the handler cannot be registered.
Refused(c) ==
  /\ Free /\ call[c] = "new" /\ (phase = "open" \/ closed)
  /\ call' = [call EXCEPT ![c] = "failed"]
  /\ UNCHANGED <<phase, scanned, running, answered, handles, closed, thread, world>>

Begin(c) ==
  /\ Free /\ call[c] = "new" /\ phase = "open" /\ ~closed
  /\ held' = held \cup ({c} \cap Subs)
  /\ sinks' = sinks \cup ({c} \cap Subs)
  /\ running' = running \cup {c}
  /\ call' = [call EXCEPT ![c] = "running"]
  /\ UNCHANGED <<phase, scanned, answered, recorded, dropping, closed, thread, world>>

Succeed(c) ==
  /\ Free /\ call[c] = "running" /\ c \in answered /\ ~closed
  /\ recorded' = recorded \cup ({c} \cap Subs)
  /\ StopOperations({c})
  /\ call' = [call EXCEPT ![c] = "ok"]
  /\ UNCHANGED <<phase, scanned, held, dropping, sinks, closed, thread, world>>

\* The operation fails, the link is closed, or the future is dropped.
Fail(c) ==
  /\ Free /\ call[c] = "running"
  /\ StopOperations({c})
  /\ dropping' = {c} \cap Subs
  /\ call' = [call EXCEPT ![c] = "failed"]
  /\ UNCHANGED <<phase, scanned, held, recorded, sinks, closed, thread, world>>

\* Fault: a call is not raced with the token and ends only with its operation.
FailAnswered(c) == closed /\ c \in answered /\ Fail(c)

FailClosed(c) == closed /\ Fail(c)

-----------------------------------------------------------------------------
(* close, or the link is dropped *)

Close ==
  /\ Free /\ phase = "open"
  /\ closed' = TRUE
  /\ dropping' = recorded
  /\ phase' = "closing"
  /\ UNCHANGED <<scanned, call, running, answered, held, recorded, sinks, thread, world>>

Locked(s) == \E t \in Threads : thread[t] = [at |-> "sink", of |-> s]

\* Subscription::drop takes the sink away under the lock, then the handler.
DropSubscription(s) ==
  /\ s \in dropping /\ ~Locked(s)
  /\ sinks' = sinks \ {s} /\ held' = held \ {s}
  /\ recorded' = recorded \ {s} /\ dropping' = dropping \ {s}
  /\ UNCHANGED <<phase, scanned, call, running, answered, closed, thread, world>>

\* The rest of Resources::drop.
Released ==
  /\ phase = "closing" /\ dropping = {}
  /\ held' = held \ Resources
  /\ phase' = "ended"
  /\ UNCHANGED <<scanned, call, running, answered, recorded, dropping, sinks, closed, thread, world>>

-----------------------------------------------------------------------------
(* Callbacks of notifications: one step per point where another thread may   *)
(* come between.                                                             *)

Step(t, at) == thread' = [thread EXCEPT ![t].at = at]
Return(t) == thread' = [thread EXCEPT ![t] = Idle]

Deliver(t, s) ==
  /\ thread[t].at = "idle" /\ s \in held /\ radio
  /\ thread' = [thread EXCEPT ![t] = [at |-> "check", of |-> s]]
  /\ UNCHANGED <<link, closed, world>>

CheckClosed(t) ==
  /\ thread[t].at = "check"
  /\ IF closed THEN Return(t) ELSE Step(t, "lock")
  /\ UNCHANGED <<link, closed, world>>

\* A value that cannot be read closes the link.
ReadFails(t) ==
  /\ thread[t].at = "lock"
  /\ closed' = TRUE
  /\ Return(t)
  /\ UNCHANGED <<link, world>>

\* Fault: the slot is not looked at under the lock, as a link that is not
\* closed has its sink.
LockTrusting(t) ==
  /\ thread[t].at = "lock" /\ ~Locked(thread[t].of)
  /\ IF ~closed THEN Step(t, "sink") ELSE Return(t)
  /\ UNCHANGED <<link, closed, world>>

\* Under the lock both the token and the slot are looked at.
Lock(t) ==
  /\ thread[t].at = "lock" /\ ~Locked(thread[t].of)
  /\ IF ~closed /\ thread[t].of \in sinks THEN Step(t, "sink") ELSE Return(t)
  /\ UNCHANGED <<link, closed, world>>

Unlock(t) ==
  /\ thread[t].at = "sink"
  /\ Return(t)
  /\ UNCHANGED <<link, closed, world>>

Callback(t) == CheckClosed(t) \/ ReadFails(t) \/ Lock(t) \/ Unlock(t)

-----------------------------------------------------------------------------
(* The radio link, its status handler, and the operations of Windows *)

\* An operation succeeds, which needs the link except to look the device up.
Answer(op) ==
  /\ op \in running \ answered /\ (radio \/ op = "device")
  /\ answered' = answered \cup {op}
  /\ UNCHANGED <<phase, scanned, call, running, handles, closed, thread, world>>

\* The controller goes out of reach, or Windows connects it, which it does by
\* itself while it is asked for something.
RadioChanges ==
  /\ changes < MaxChanges
  /\ radio \/ running # {}
  /\ radio' = ~radio /\ changes' = changes + 1
  /\ event' = (event \/ "status" \in held)
  /\ UNCHANGED <<link, closed, thread>>

\* The handler looks at the state of the link when it runs, not at its change.
StatusChanged ==
  /\ event /\ event' = FALSE
  /\ closed' = (closed \/ ~radio)
  /\ UNCHANGED <<link, thread, radio, changes>>

-----------------------------------------------------------------------------
Connect == Device \/ Services \/ Open \/ ConnectFails

Next ==
  \/ Report("found") \/ Report("stopped") \/ Found \/ ScanFails
  \/ Connect
  \/ \E c \in Calls : Refused(c) \/ Begin(c) \/ Succeed(c) \/ Fail(c)
  \/ Close \/ (\E s \in Subs : DropSubscription(s)) \/ Released
  \/ \E t \in Threads : Callback(t) \/ \E s \in Subs : Deliver(t, s)
  \/ (\E op \in running : Answer(op)) \/ RadioChanges \/ StatusChanged

Spec == Init /\ [][Next]_vars

\* Callbacks end, Windows reports a change, the runtime thread polls a call
\* whose link is closed and finishes a release, and timers fire.  Nothing is
\* assumed of the operations of Windows, nor that anybody closes the link.
FairSpec ==
  /\ Spec
  /\ \A t \in Threads : WF_vars(Callback(t))
  /\ \A c \in Calls : WF_vars(FailClosed(c))
  /\ \A s \in Subs : WF_vars(DropSubscription(s))
  /\ WF_vars(Released) /\ WF_vars(StatusChanged)
  /\ WF_vars(Found \/ ScanFails)
  /\ WF_vars(phase \in {"services", "characteristics"} /\ Connect)

-----------------------------------------------------------------------------
TypeOK ==
  /\ phase \in Phases /\ scanned \in {"empty", "found", "stopped"}
  /\ call \in [Calls -> {"new", "running", "ok", "failed"}]
  /\ running \subseteq Calls \cup Phases /\ answered \subseteq running
  /\ held \subseteq Native \cup Subs
  /\ recorded \subseteq Subs /\ dropping \subseteq Subs /\ sinks \subseteq Subs
  /\ closed \in BOOLEAN
  /\ thread \in [Threads -> [at : Steps, of : Subs \cup {NoSub}]]
  /\ radio \in BOOLEAN /\ event \in BOOLEAN /\ changes \in Nat

Pending(c) == call[c] = "running" \/ c \in dropping

\* "Wait for an in-flight callback before releasing the session sink": a
\* callback only runs the sink of a subscription that is being made or that the
\* open link holds; once close has returned, or a failed subscribe has, no
\* thread is in the sink, and as NothingLeft says none can come.
NoSinkAfterRelease ==
  \A t \in Threads : thread[t].at = "sink" =>
    LET s == thread[t].of IN
      /\ s \in sinks /\ s \in held
      /\ Pending(s) \/ (s \in recorded /\ phase \in {"open", "closing"})

\* Wherever a future is dropped, an operation fails or the link is closed,
\* Windows is left with nothing: no handle, no handler, no operation that works
\* for somebody who is gone.
NothingLeft ==
  /\ TypeOK
  /\ phase = "ended" => held \cap Native = {}
  /\ held \cap Subs \subseteq recorded \cup {c \in Subs : Pending(c)}
  /\ phase = "ended" => recorded = {}
  /\ running \cap Calls \subseteq {c \in Calls : Pending(c)}
  /\ running \ Calls \subseteq {phase}

\* A link lost for good is closed, whenever it is lost: before, during or after
\* the discovery, which takes several round trips.
LossNoticed == (phase = "open" /\ ~radio) ~> (closed \/ radio)

\* A closed link makes every call return, and close itself returns, although it
\* waits for callbacks that wait for nothing but the lock.
CallsEnd ==
  /\ \A c \in Calls : (closed /\ Pending(c)) ~> ~Pending(c)
  /\ phase = "closing" ~> phase = "ended"
==============================================================================
