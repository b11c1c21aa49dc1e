-------------------------------- MODULE Scan --------------------------------
(***************************************************************************)
(* Discovery on Linux: LinuxBluetooth::discover and close                  *)
(* (ble/linux/mod.rs), and the worker that runs Management::scan_with on a *)
(* management socket of its own (ble/linux/mgmt.rs).                       *)
(*                                                                         *)
(* The adapter has one discovery, which other programs use too.  A worker  *)
(* that started it owns it and stops it, whatever became of its caller; a  *)
(* caller that is dropped cancels the worker's token.  As in supervise, a  *)
(* caller is only dropped by the shutdown, and close comes last.           *)
(*                                                                         *)
(* The kernel is external: it carries out commands in order, each when it  *)
(* likes, also after the worker stopped waiting.  A discovery may end by   *)
(* itself, or because another program stopped it, at any time, and another *)
(* program may then start one: the worker skips these events.              *)
(* Abstracted: advertisements that do not match, and the bounded queue of  *)
(* events received while a command is outstanding.                         *)
(***************************************************************************)
EXTENDS Naturals, Sequences

CONSTANT MaxScans   \* bound on the scans of a run
ASSUME ScanAssumption == MaxScans \in Nat

VARIABLES
  caller,     \* "idle", "scanning", "dropped", "closing", "closed"
  scans,      \* scans begun
  token,      \* the scan's child token is cancelled
  worker,     \* "none", "starting", "looking", "stopping", "done"
  owned,      \* the worker's `owned'
  outcome,    \* result it sends: "none", "found", "timeout", "cancelled", "error"
  received,   \* outcome the caller of discover got
  commands,   \* commands sent that the kernel has not carried out
  status,     \* completion the worker has not read: "none", "ok", "busy", "error"
  discovery,  \* of the adapter: "off", "ours", "theirs"
  lost,       \* history: the discovery of this scan ended without its STOP
  unanswered  \* history: a START or STOP timed out, or an owned STOP was refused

mine == <<caller, scans, token, received>>
task == <<worker, owned, outcome>>
kernel == <<commands, status, discovery>>
history == <<lost, unanswered>>
vars == <<mine, task, kernel, history>>

Init ==
  /\ caller = "idle" /\ scans = 0 /\ token = FALSE /\ received = "none"
  /\ worker = "none" /\ owned = FALSE /\ outcome = "none"
  /\ commands = <<>> /\ status = "none"
  /\ discovery \in {"off", "theirs"}
  /\ lost = FALSE /\ unanswered = FALSE

-----------------------------------------------------------------------------
(* The caller. *)

\* discover: a fresh token, and a worker that sends START on a fresh socket.
Discover ==
  /\ caller = "idle" /\ scans < MaxScans
  /\ caller' = "scanning" /\ scans' = scans + 1 /\ token' = FALSE
  /\ received' = "none"
  /\ worker' = "starting" /\ owned' = FALSE /\ outcome' = "none"
  /\ commands' = Append(commands, "start") /\ status' = "none"
  /\ lost' = FALSE
  /\ UNCHANGED <<discovery, unanswered>>

Return ==
  /\ caller = "scanning" /\ worker = "done"
  /\ caller' = "idle" /\ received' = outcome /\ token' = TRUE
  /\ UNCHANGED <<scans, task, kernel, history>>

\* Fault: the discovery runs in the caller's future and ends with it.
DropAborts ==
  /\ caller = "scanning"
  /\ caller' = "dropped" /\ token' = TRUE /\ worker' = "done"
  /\ UNCHANGED <<scans, received, owned, outcome, kernel, history>>

\* The future of discover is dropped: its drop guard cancels the token.
Drop ==
  /\ caller = "scanning"
  /\ caller' = "dropped" /\ token' = TRUE
  /\ UNCHANGED <<scans, received, task, kernel, history>>

\* close cancels every token and waits for the workers.
Close ==
  /\ caller \in {"idle", "dropped"}
  /\ caller' = "closing" /\ token' = TRUE
  /\ UNCHANGED <<scans, received, task, kernel, history>>

Closed ==
  /\ caller = "closing" /\ worker \in {"none", "done"}
  /\ caller' = "closed"
  /\ UNCHANGED <<scans, token, received, task, kernel, history>>

-----------------------------------------------------------------------------
(* The worker.  It does not look at its token before START is completed. *)

\* Fault: a discovery that was running already counts as owned.
StartedOwnsAll ==
  /\ worker = "starting" /\ status \in {"ok", "busy"}
  /\ owned' = TRUE /\ status' = "none"
  /\ worker' = "looking"
  /\ UNCHANGED <<mine, outcome, commands, discovery, history>>

Started ==
  /\ worker = "starting" /\ status \in {"ok", "busy"}
  /\ owned' = (status = "ok") /\ status' = "none"
  /\ worker' = "looking"
  /\ UNCHANGED <<mine, outcome, commands, discovery, history>>

\* Fault: START is awaited without a timeout.
StartWaits ==
  /\ worker = "starting" /\ status = "error"
  /\ worker' = "done" /\ outcome' = "error" /\ status' = "none"
  /\ UNCHANGED <<mine, owned, commands, discovery, history>>

\* A status other than busy, no completion in five seconds, or an I/O error.
StartFails ==
  /\ worker = "starting" /\ status \in {"none", "error"}
  /\ worker' = "done" /\ outcome' = "error" /\ status' = "none"
  /\ unanswered' = (unanswered \/ status = "none")
  /\ UNCHANGED <<mine, owned, commands, discovery, lost>>

\* The select is biased: cancellation, then a matching advertisement, an error
\* or the timeout.  An owned discovery is stopped, also after an error.
Look ==
  /\ worker = "looking"
  /\ \/ token /\ outcome' = "cancelled"
     \/ ~token /\ outcome' \in {"found", "timeout", "error"}
  /\ worker' = IF owned THEN "stopping" ELSE "done"
  /\ commands' = IF owned THEN Append(commands, "stop") ELSE commands
  /\ UNCHANGED <<mine, owned, status, discovery, history>>

Stopped ==
  /\ worker = "stopping" /\ status # "none"
  /\ worker' = "done" /\ status' = "none"
  /\ UNCHANGED <<mine, owned, outcome, commands, discovery, history>>

\* A failed STOP is only logged.
StopFails ==
  /\ worker = "stopping" /\ status = "none"
  /\ worker' = "done" /\ unanswered' = TRUE
  /\ UNCHANGED <<mine, owned, outcome, kernel, lost>>

-----------------------------------------------------------------------------
(* The kernel, and other programs. *)

\* The completion is for the socket the command was sent on: it is lost when the
\* worker has stopped waiting.
Complete(command, s) ==
  /\ commands # <<>> /\ commands[1] = command
  /\ commands' = Tail(commands)
  /\ status' = IF Len(commands) = 1 /\ worker \in {"starting", "stopping"}
               THEN s ELSE status
  /\ UNCHANGED <<mine, task, lost>>

KernelStart ==
  /\ \/ Complete("start", "ok") /\ discovery = "off" /\ discovery' = "ours"
     \/ Complete("start", "busy") /\ discovery # "off" /\ UNCHANGED discovery
     \/ Complete("start", "error") /\ UNCHANGED discovery
  /\ UNCHANGED unanswered

\* STOP ends whatever discovery runs; it is refused when there is none, or fails.
KernelStop ==
  \/ /\ Complete("stop", "ok")
     /\ discovery # "off" /\ discovery' = "off"
     /\ UNCHANGED unanswered
  \/ /\ Complete("stop", "error")
     /\ unanswered' = (unanswered \/ discovery = "ours")
     /\ UNCHANGED discovery

\* The discovery of the bridge ends by itself, after the kernel's own period of
\* about ten seconds (SCAN_TIMEOUT is thirty), or another program stops it.
DiscoveryEnds ==
  /\ discovery = "ours"
  /\ discovery' = "off" /\ lost' = TRUE
  /\ UNCHANGED <<mine, task, commands, status, unanswered>>

OtherProgram ==
  /\ discovery # "ours"
  /\ discovery' = IF discovery = "off" THEN "theirs" ELSE "off"
  /\ UNCHANGED <<mine, task, commands, status, history>>

Worker == Started \/ StartFails \/ Look \/ Stopped \/ StopFails

Next ==
  \/ Discover \/ Return \/ Drop \/ Close \/ Closed
  \/ Worker
  \/ KernelStart \/ KernelStop \/ DiscoveryEnds \/ OtherProgram

Spec == Init /\ [][Next]_vars

\* The runtime runs the worker, whose every wait has a timeout; close is reached.
FairSpec == Spec /\ WF_vars(Worker) /\ WF_vars(Return) /\ WF_vars(Closed)

-----------------------------------------------------------------------------
TypeOK ==
  /\ caller \in {"idle", "scanning", "dropped", "closing", "closed"}
  /\ scans \in Nat /\ token \in BOOLEAN
  /\ worker \in {"none", "starting", "looking", "stopping", "done"}
  /\ owned \in BOOLEAN
  /\ outcome \in {"none", "found", "timeout", "cancelled", "error"}
  /\ received \in {"none", "found", "timeout", "cancelled", "error"}
  /\ commands \in Seq({"start", "stop"})
  /\ status \in {"none", "ok", "busy", "error"}
  /\ discovery \in {"off", "ours", "theirs"}
  /\ lost \in BOOLEAN /\ unanswered \in BOOLEAN

\* When the bridge has closed Bluetooth, or begins another scan, the discovery
\* it started is stopped, also when the scan was dropped while START or STOP was
\* under way, and whatever else ended it - unless the kernel did not answer one
\* of these, or refused to stop it.
NoDiscoveryLeft ==
  /\ TypeOK
  /\ caller \in {"idle", "closed"} => discovery # "ours" \/ unanswered

\* The bridge stops the discovery of another program only when the discovery of
\* the scan itself had ended before its STOP: a scan that found the adapter busy
\* never does, nor one whose START failed, however START, STOP, cancellation and
\* the other programs interleave.  `owned' is all scan_with keeps, so after a
\* discovery that ended by itself its STOP may meet another's: `lost' names that
\* case, and `unanswered' a STOP of an earlier scan that is carried out late.
OthersUntouched ==
  [][discovery = "theirs" /\ commands' # commands
       => discovery' = "theirs" \/ lost \/ unanswered]_vars

\* Bluetooth can always be closed.
CloseReturns == caller = "closing" ~> caller = "closed"
==============================================================================
