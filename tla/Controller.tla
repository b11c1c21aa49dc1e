----------------------------- MODULE Controller ------------------------------
(***************************************************************************)
(* A connected controller (ns2pro-bridge controller.rs): the commands of   *)
(* its setup and of the LED task, each answered by a notification without  *)
(* a request number, and the two output tasks of run, which bring the last *)
(* value of a watch channel to the controller.                             *)
(*                                                                         *)
(* The commands of one link are numbered.  The controller is external: it  *)
(* answers each command at most once, as late as it likes, in any order.   *)
(* Outputs are numbered in the order the host makes them, 0 is the value   *)
(* before the first (None, and the default LEDs).  Time is counted in      *)
(* ticks up to the pace of the rumble.                                     *)
(*                                                                         *)
(* The link is external too.  A write without response completes when the  *)
(* link has taken it (on Linux: when the socket has buffered it, see       *)
(* AttLink::write); the controller may receive it long after, or, as far   *)
(* as the task can tell, before.  Nothing is lost while the link is open.  *)
(*                                                                         *)
(* Abstracted: payloads, the calibration, the keys of the pairing.  What   *)
(* happens around the setup (the link, cancellation, the cache) is module  *)
(* Session; here it only shows as End.                                     *)
(***************************************************************************)
EXTENDS Naturals, Sequences

CONSTANTS Capacity,    \* of the channel of responses (8 in the code)
          Pace,        \* between two rumble writes (20 ms in the code)
          MaxLeds, MaxRumble   \* bounds for TLC on the outputs of the host

ASSUME ControllerAssumption ==
  /\ Capacity \in Nat \ {0} /\ Pace \in Nat \ {0}
  /\ MaxLeds \in Nat /\ MaxRumble \in Nat

VARIABLES
  phase,       \* "setup", "run" or "ended"
  pairs,       \* this setup ends with a pairing
  step,        \* of the setup: index of the command it is at
  command,     \* of the caller: "idle", "write", "wait", "changed" (LED task)
  sent,        \* the commands sent, in order
  responses,   \* channel of responses: which command each one answers
  identity,    \* watch channel: "pending", "fallback" or "real"
  leds, ledsSeen,       \* watch channel and the version mark of the LED task
  rumble, rumbleSeen,   \* the same for rumble
  rumbleTask,  \* "ready", "sleep", "write", "changed"
  value,       \* the rumble being written
  untilNext,   \* time until `next'
  \* what the controller knows; the code keeps none of these
  unanswered,  \* commands it has not answered
  accepted,    \* <<command, command whose response was taken as its answer>>
  ledsShown,   \* LEDs of the last command it carried out and answered
  sinceWrite,  \* time since a rumble write was under way, counted up to Pace
  air,         \* rumble handed to the link and not received yet, oldest first
  felt         \* last rumble it received

setup == <<pairs, step, identity>>
commands == <<command, sent, responses, unanswered, accepted, ledsShown, ledsSeen>>
rumbling == <<rumbleSeen, rumbleTask, value, untilNext, sinceWrite, air, felt>>
vars == <<phase, setup, commands, leds, rumble, rumbling>>

Blocks == <<"primary", "secondary", "user">>
PairingStages == <<"address", "key", "challenge", "confirm">>
Script == <<"leds">> \o Blocks \o <<"identity", "mask", "features">>
            \o (IF pairs THEN PairingStages ELSE <<>>)

Reads == {"primary", "secondary", "user", "identity"}
Kind == IF phase = "run" THEN "leds" ELSE Script[step]
IdentityStep == 5

Init ==
  /\ phase = "setup" /\ pairs \in BOOLEAN /\ step = 1
  /\ command = "idle" /\ sent = <<>> /\ responses = <<>>
  /\ identity = "pending"
  /\ leds = 0 /\ ledsSeen = TRUE
  /\ rumble = 0 /\ rumbleSeen = TRUE
  /\ rumbleTask = "ready" /\ value = 0 /\ untilNext = 0
  /\ unanswered = {} /\ accepted = {}
  /\ ledsShown = 0 /\ sinceWrite = Pace /\ air = <<>> /\ felt = 0

-----------------------------------------------------------------------------
(* Controller::command, called by the setup and by the LED task of run. *)

\* A caller is ready: the setup has a command left, the LED task has begun or
\* its receiver has a version it has not seen.
Ready == \/ command = "idle" /\ (phase = "setup" => step <= Len(Script))
         \/ command = "changed" /\ ~ledsSeen

\* The value is read, and late responses are thrown away.
Begin ==
  /\ phase # "ended" /\ Ready
  /\ sent' = Append(sent, [kind |-> Kind, leds |-> leds])
  /\ ledsSeen' = (ledsSeen \/ phase = "run")
  /\ responses' = <<>>
  /\ command' = "write"
  /\ UNCHANGED <<phase, setup, unanswered, accepted, ledsShown, leds, rumble,
                 rumbling>>

Write ==
  /\ phase # "ended" /\ command = "write"
  /\ unanswered' = unanswered \cup {Len(sent)}
  /\ command' = "wait"
  /\ UNCHANGED <<phase, setup, sent, responses, accepted, ledsShown, ledsSeen, leds,
                 rumble, rumbling>>

Header(kind) == IF kind \in Reads THEN "read" ELSE kind

\* Fault: the address of the block in the response is not compared.
AnswersHeader(r) == Header(sent[r].kind) = Header(Kind)

\* response_payload compares the header, spi_read_data the address of the block.
Answers(r) == /\ Header(sent[r].kind) = Header(Kind)
              /\ Kind \in Reads => sent[r].kind = Kind

Succeed ==
  /\ phase # "ended" /\ command = "wait" /\ responses # <<>>
  /\ Answers(responses[1])
  /\ responses' = Tail(responses)
  /\ accepted' = accepted \cup {<<Len(sent), responses[1]>>}
  /\ identity' = IF Kind = "identity" THEN "real" ELSE identity
  /\ step' = IF phase = "setup" THEN step + 1 ELSE step
  /\ command' = IF phase = "setup" THEN "idle" ELSE "changed"
  /\ UNCHANGED <<phase, pairs, sent, unanswered, ledsShown, ledsSeen, leds, rumble,
                 rumbling>>

\* Failing to read a block gives the calibration up, failing to read the
\* identity falls back to a neutral one, any other failure ends the session.
Fails ==
  \/ /\ Kind \in {"primary", "secondary", "user"}
     /\ step' = IdentityStep /\ command' = "idle"
     /\ UNCHANGED <<phase, identity>>
  \/ /\ Kind = "identity"
     /\ identity' = "fallback" /\ step' = step + 1 /\ command' = "idle"
     /\ UNCHANGED phase
  \/ /\ Kind \notin Reads
     /\ phase' = "ended"
     /\ UNCHANGED <<identity, step, command>>

\* The response is short, of another command, or a rejection.
Reject ==
  /\ phase # "ended" /\ command = "wait" /\ responses # <<>>
  /\ responses' = Tail(responses)
  /\ Fails
  /\ UNCHANGED <<pairs, sent, unanswered, accepted, ledsShown, ledsSeen, leds,
                 rumble, rumbling>>

\* Two seconds have passed, or the write failed.
TimeOut ==
  /\ phase # "ended"
  /\ command = "write" \/ (command = "wait" /\ responses = <<>>)
  /\ Fails
  /\ UNCHANGED <<pairs, sent, responses, unanswered, accepted, ledsShown, ledsSeen,
                 leds, rumble, rumbling>>

Command == Begin \/ Write \/ Succeed \/ Reject \/ TimeOut

-----------------------------------------------------------------------------
(* Controller::run. *)

\* Fault: the LED task begins by waiting for a change.
StartRunWaiting ==
  /\ phase = "setup" /\ step > Len(Script)
  /\ phase' = "run" /\ command' = "changed"
  /\ ledsSeen' = TRUE /\ rumbleSeen' = TRUE
  /\ UNCHANGED <<setup, sent, responses, unanswered, accepted, ledsShown, leds,
                 rumble, rumbleTask, value, untilNext, sinceWrite, air, felt>>

\* The receivers are subscribed: what the channels hold counts as seen.
StartRun ==
  /\ phase = "setup" /\ step > Len(Script)
  /\ phase' = "run" /\ ledsSeen' = TRUE /\ rumbleSeen' = TRUE
  /\ UNCHANGED <<setup, command, sent, responses, unanswered, accepted, ledsShown,
                 leds, rumble, rumbleTask, value, untilNext, sinceWrite, air, felt>>

\* The task takes the value of the channel and, unless it is None, begins to
\* write it: the link has it from now on.
Take ==
  /\ value' = rumble /\ rumbleSeen' = TRUE
  /\ \/ /\ rumble = 0
        /\ rumbleTask' = "changed"
        /\ UNCHANGED <<sinceWrite, air>>
     \/ /\ rumble # 0
        /\ rumbleTask' = "write"
        /\ sinceWrite' = 0 /\ air' = Append(air, rumble)

ReadRumble ==
  /\ phase = "run"
  /\ rumbleTask = "ready" \/ (rumbleTask = "changed" /\ ~rumbleSeen)
  /\ \/ untilNext = 0 /\ Take
     \/ /\ untilNext > 0
        /\ rumbleTask' = "sleep" /\ value' = rumble /\ rumbleSeen' = TRUE
        /\ UNCHANGED <<sinceWrite, air>>
  /\ UNCHANGED <<phase, setup, commands, leds, rumble, untilNext, felt>>

\* After the pause the channel is read again.
Wake ==
  /\ phase = "run" /\ rumbleTask = "sleep" /\ untilNext = 0
  /\ Take
  /\ UNCHANGED <<phase, setup, commands, leds, rumble, untilNext, felt>>

\* Fault: a write does not move the deadline of the next one.
RumbleWrittenUnpaced ==
  /\ phase = "run" /\ rumbleTask = "write"
  /\ rumbleTask' = "changed"
  /\ UNCHANGED <<phase, setup, commands, leds, rumble, rumbleSeen, value, untilNext,
                 sinceWrite, air, felt>>

\* The write completes: the link has taken it.  The next may begin Pace later.
RumbleWritten ==
  /\ phase = "run" /\ rumbleTask = "write"
  /\ untilNext' = Pace
  /\ rumbleTask' = "changed"
  /\ UNCHANGED <<phase, setup, commands, leds, rumble, rumbleSeen, value, sinceWrite,
                 air, felt>>

Vibrate == ReadRumble \/ Wake \/ RumbleWritten

-----------------------------------------------------------------------------
(* The controller, the host, the link and time. *)

\* The link delivers the oldest vibration it holds, whatever the task is doing.
Arrive ==
  /\ phase # "ended" /\ air # <<>>
  /\ felt' = Head(air) /\ air' = Tail(air)
  /\ UNCHANGED <<phase, setup, commands, leds, rumble, rumbleSeen, rumbleTask, value,
                 untilNext, sinceWrite>>

\* The controller carries a command out and answers; the response is put into its
\* channel, or dropped when that is full.
Answer(r) ==
  /\ phase # "ended" /\ r \in unanswered
  /\ unanswered' = unanswered \ {r}
  /\ ledsShown' = IF sent[r].kind = "leds" THEN sent[r].leds ELSE ledsShown
  /\ responses' = IF Len(responses) < Capacity THEN Append(responses, r)
                  ELSE responses
  /\ UNCHANGED <<phase, setup, command, sent, accepted, ledsSeen, leds, rumble,
                 rumbling>>

HostLeds ==
  /\ phase # "ended" /\ leds < MaxLeds
  /\ leds' = leds + 1 /\ ledsSeen' = FALSE
  /\ UNCHANGED <<phase, setup, command, sent, responses, unanswered, accepted,
                 ledsShown, rumble, rumbling>>

HostRumble ==
  /\ phase # "ended" /\ rumble < MaxRumble
  /\ rumble' = rumble + 1 /\ rumbleSeen' = FALSE
  /\ UNCHANGED <<phase, setup, commands, leds, rumbleTask, value, untilNext,
                 sinceWrite, air, felt>>

\* The link closes, the session is cancelled, or the rumble cannot be written.
End ==
  /\ phase # "ended" /\ phase' = "ended"
  /\ UNCHANGED <<setup, commands, leds, rumble, rumbling>>

Tick ==
  /\ phase = "run"
  /\ untilNext > 0 \/ (rumbleTask # "write" /\ sinceWrite < Pace)
  /\ untilNext' = IF untilNext > 0 THEN untilNext - 1 ELSE 0
  /\ sinceWrite' = IF rumbleTask # "write" /\ sinceWrite < Pace THEN sinceWrite + 1
                   ELSE sinceWrite
  /\ UNCHANGED <<phase, setup, commands, leds, rumble, rumbleSeen, rumbleTask, value,
                 air, felt>>

Next ==
  \/ Command \/ StartRun \/ Vibrate
  \/ \E r \in 1..Len(sent) : Answer(r)
  \/ Arrive \/ HostLeds \/ HostRumble \/ End \/ Tick

Spec == Init /\ [][Next]_vars

\* The executor polls both tasks, commands time out, a link that stays open takes
\* a vibration and delivers it, and time passes.  The controller need not answer.
FairSpec ==
  /\ Spec
  /\ WF_vars(Command) /\ WF_vars(StartRun) /\ WF_vars(Vibrate)
  /\ WF_vars(Arrive) /\ WF_vars(Tick)

-----------------------------------------------------------------------------
TypeOK ==
  /\ phase \in {"setup", "run", "ended"}
  /\ pairs \in BOOLEAN /\ step \in 1..Len(Script) + 1
  /\ command \in {"idle", "write", "wait", "changed"}
  /\ sent \in Seq([kind : {Script[i] : i \in 1..Len(Script)}, leds : Nat])
  /\ responses \in Seq(1..Len(sent)) /\ Len(responses) <= Capacity
  /\ unanswered \subseteq 1..Len(sent)
  /\ accepted \subseteq (1..Len(sent)) \X (1..Len(sent))
  /\ identity \in {"pending", "fallback", "real"}
  /\ leds \in Nat /\ ledsSeen \in BOOLEAN /\ ledsShown \in 0..leds
  /\ rumble \in Nat /\ rumbleSeen \in BOOLEAN
  /\ rumbleTask \in {"ready", "sleep", "write", "changed"}
  /\ value \in 0..rumble /\ air \in Seq(Nat) /\ felt \in Nat
  /\ untilNext \in 0..Pace /\ sinceWrite \in 0..Pace

\* Responses carry no request number, and the setup goes on after a command that
\* timed out.  Still no response is taken as the answer of another command: its
\* late response is thrown away, or does not fit and counts as a failure.
OwnAnswer == TypeOK /\ \A pair \in accepted : pair[1] = pair[2]

\* The task hands a vibration to the link only when no other is being written and
\* a pace has passed since the last write completed, however long that took and
\* however many outputs were made meanwhile; and it hands over the newest output,
\* not the one that was new when the pause began.  (A link that buffers may still
\* deliver two vibrations closer together than that.)
RumblePaced ==
  [][Len(air') > Len(air) => sinceWrite = Pace /\ air'[Len(air')] = rumble]_vars

\* The last output of each kind reaches the controller, whenever it is made: in
\* the setup, during a write, a command or the pause between two writes; unless
\* a newer one takes its place or the session ends.  For LEDs the controller has
\* even confirmed it.
OutputsReach ==
  /\ \A v \in 1..MaxLeds : leds = v ~> (ledsShown = v \/ leds # v \/ phase = "ended")
  /\ \A v \in 1..MaxRumble : rumble = v ~> (felt = v \/ rumble # v \/ phase = "ended")
==============================================================================
