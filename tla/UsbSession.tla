------------------------------ MODULE UsbSession ------------------------------
(***************************************************************************)
(* serve_urbs (usb/session.rs): the loop that drives the URB engine for    *)
(* one USB/IP connection.  Each round waits for one event, in the order    *)
(* of a biased select: cancellation, a new input sample, a frame from the  *)
(* host, the keepalive timer.  It lets the engine handle the event, writes *)
(* the replies, and only then takes the statistics and hands the           *)
(* controller outputs (rumble, player LEDs) to the controller task.        *)
(*                                                                         *)
(* A session starts from the sample the input channel holds, numbered 1.   *)
(* Abstracted: the identity branch of the select, which changes only the   *)
(* bytes of one flash block; partial reads of a frame, which the read      *)
(* future keeps across rounds.                                             *)
(***************************************************************************)
EXTENDS UrbEngine

ASSUME SessionAssumption == MaxSample > 0

VARIABLES
  phase,      \* "select", "handle", "write", "settle" or "ended"
  published,  \* seq of the sample in the input watch channel
  cancelled,  \* the cancellation token of the session
  written,    \* URBs whose RET_SUBMIT is written to the host
  acked,      \* unlinked URBs whose RET_UNLINK is written to the host
  actuated    \* URBs whose output was handed to the controller task

sessionVars == <<vars, phase, published, cancelled, written, acked, actuated>>
wire == <<written, acked>>
environment == <<published, cancelled>>

Answered == {s \in 1..MaxUrbs : answers[s] > 0}

\* Fault: only answers to submitted URBs are looked for.
AnswersPending == Answered # written

RepliesPending == Answered # written \/ asked # acked

SessionInit ==
  /\ Init
  /\ phase = "select"
  /\ published = sample
  /\ cancelled = FALSE
  /\ written = {} /\ acked = {} /\ actuated = {}

-----------------------------------------------------------------------------
(* One round of the loop. *)

SelectCancel ==
  /\ phase = "select" /\ cancelled
  /\ phase' = "ended"
  /\ UNCHANGED <<vars, environment, wire, actuated>>

SelectInput ==
  /\ phase = "select" /\ ~cancelled
  /\ published # sample /\ OnSample(published)
  /\ phase' = "handle"
  /\ UNCHANGED <<environment, wire, actuated>>

SelectFrame ==
  /\ phase = "select" /\ ~cancelled /\ published = sample
  /\ HandleUrb
  /\ phase' = "handle"
  /\ UNCHANGED <<environment, wire, actuated>>

\* The host closed the connection or sent an invalid frame.
SelectReadError ==
  /\ phase = "select" /\ ~cancelled /\ published = sample
  /\ phase' = "ended"
  /\ UNCHANGED <<vars, environment, wire, actuated>>

SelectTimer ==
  /\ phase = "select" /\ ~cancelled /\ published = sample
  /\ OnKeepaliveDue
  /\ phase' = "handle"
  /\ UNCHANGED <<environment, wire, actuated>>

Handle ==
  /\ phase = "handle"
  /\ \/ Drain /\ UNCHANGED phase
     \/ /\ Idle
        /\ phase' = IF RepliesPending THEN "write" ELSE "settle"
        /\ UNCHANGED vars
  /\ UNCHANGED <<environment, wire, actuated>>

WriteReplies ==
  /\ phase = "write"
  /\ written' = Answered /\ acked' = asked
  /\ phase' = "settle"
  /\ UNCHANGED <<vars, environment, actuated>>

\* Fault: an error of the write is ignored.
WriteAbortedContinues ==
  /\ phase = "write"
  /\ phase' = "settle"
  /\ UNCHANGED <<vars, environment, wire, actuated>>

\* Cancellation while the host does not read, or a write error: the replies
\* and the outputs of this round are dropped with the session.
WriteAborted ==
  /\ phase = "write"
  /\ phase' = "ended"
  /\ UNCHANGED <<vars, environment, wire, actuated>>

\* Fault: the write is not raced with cancellation.
WriteNotCancelled == cancelled /\ phase = "select" /\ WriteAborted

WriteCancelled == cancelled /\ WriteAborted

Settle ==
  /\ phase = "settle"
  /\ actuated' = actuated \cup ToSet(outputs)
  /\ TakeEffects
  /\ phase' = "select"
  /\ UNCHANGED <<environment, wire>>

-----------------------------------------------------------------------------
(* The tasks around the session. *)

\* The controller task stores a sample; the watch channel keeps the last one.
Publish ==
  /\ published < MaxSample
  /\ published' = published + 1
  /\ UNCHANGED <<vars, phase, cancelled, wire, actuated>>

Cancel ==
  /\ ~cancelled /\ cancelled' = TRUE
  /\ UNCHANGED <<vars, phase, published, wire, actuated>>

TimePasses == Tick /\ UNCHANGED <<phase, environment, wire, actuated>>

Loop == \/ SelectCancel \/ SelectInput \/ SelectTimer \/ Handle \/ Settle
        \/ WriteCancelled

SessionNext ==
  \/ Loop
  \/ SelectFrame \/ SelectReadError
  \/ WriteReplies \/ WriteAborted
  \/ Publish \/ Cancel \/ TimePasses

SessionSpec == SessionInit /\ [][SessionNext]_sessionVars

\* The executor polls a session that has something to do, time passes, and the
\* host reads what is written to it as long as the session is not cancelled.
\* Nothing makes the host send a frame.
Fairness == /\ WF_sessionVars(Loop)
            /\ WF_sessionVars(~cancelled /\ WriteReplies)
            /\ WF_sessionVars(TimePasses)

FairSessionSpec == SessionSpec /\ Fairness

-----------------------------------------------------------------------------
SessionTypeOK ==
  /\ phase \in {"select", "handle", "write", "settle", "ended"}
  /\ published \in 1..MaxSample /\ cancelled \in BOOLEAN
  /\ written \subseteq 1..MaxUrbs /\ acked \subseteq 1..MaxUrbs
  /\ actuated \subseteq 1..lastSeq
  /\ Len(outputs) <= 1        \* one event per round

\* The comment in serve_urbs: an accepted OUT is acknowledged before it wakes
\* the controller task, so no output acts on the controller unless the host got
\* the reply of its URB - also when the session ends in the middle of a round.
AckBeforeOutput == actuated \subseteq written

\* What the host may conclude from the answer to an unlink: when RET_UNLINK
\* arrives, the URB is either confirmed unlinked and its RET_SUBMIT never
\* arrives, or its RET_SUBMIT is already there.
UnlinkVerdict ==
  /\ SessionTypeOK
  /\ \A s \in acked : s \in unlinked \/ s \in written
  /\ unlinked \cap written = {}

\* A session only waits when it owes the host nothing: no report or response is
\* kept from an URB that waits for it, and every answer the engine gave, also
\* those of the drain and of unlinks, has been written.  The host may be waiting
\* for just that reply, so no later event need ever come to send it.
WaitsOwingNothing ==
  phase = "select" =>
    /\ Idle /\ NothingLeftWaiting
    /\ written = Answered /\ acked = asked

\* Every interrupt IN URB is answered although no input arrives, by the
\* keepalive timer, unless the host unlinks it; and a sample is taken over, or a
\* newer one is, also when it arrives while the session writes.  Unless the
\* session ends.
InterruptInServed ==
  /\ \A s \in 1..MaxUrbs :
       (\E i \in Waiting(1) : pending[i].seq = s)
         ~> (s \in written \/ s \in unlinked \/ phase = "ended")
  /\ \A v \in 1..MaxSample : published = v ~> (sample >= v \/ phase = "ended")

\* A cancelled session ends, also when the host stopped reading its replies.
CancelEnds == cancelled ~> phase = "ended"

==============================================================================
