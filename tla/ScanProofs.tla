----------------------------- MODULE ScanProofs -----------------------------
(***************************************************************************)
(* Proofs about Scan, for any number of scans: the discovery the bridge    *)
(* started is stopped when it is closed, and another program's only if the *)
(* scan's own had ended before its STOP.                                   *)
(*                                                                         *)
(* As long as the kernel has answered every START and STOP, the phase of   *)
(* the worker tells what the kernel is doing and whose the discovery is,   *)
(* unless the scan's discovery is lost; that is what Ownership says.       *)
(* `unanswered' never becomes false again.                                 *)
(***************************************************************************)
EXTENDS Scan, Integers, SequenceTheorems, TLAPS

\* What each phase of the worker knows of the adapter.
Ownership ==
  /\ worker \in {"none", "done"} =>
       commands = <<>> /\ status = "none" /\ discovery # "ours"
  /\ worker = "starting" =>
       \/ commands = <<"start">> /\ status = "none" /\ discovery # "ours"
       \/ commands = <<>> /\ status = "ok" /\ (discovery = "ours" \/ lost)
       \/ commands = <<>> /\ status \in {"busy", "error"} /\ discovery # "ours"
  /\ worker = "looking" =>
       /\ commands = <<>> /\ status = "none"
       /\ ~owned => discovery # "ours"
       /\ owned => discovery = "ours" \/ lost
  /\ worker = "stopping" =>
       \/ /\ commands = <<"stop">> /\ status = "none"
          /\ discovery = "ours" \/ lost
       \/ commands = <<>> /\ status \in {"ok", "error"} /\ discovery # "ours"

\* Only the caller of a scan may find its worker at work, or close.
Callers == caller \in {"idle", "closed"} => worker \in {"none", "done"}

ScanInv == TypeOK /\ Callers /\ (unanswered \/ Ownership)

LEMMA ScanInitially ==
  Init => ScanInv
<1> SUFFICES ASSUME Init PROVE ScanInv
  OBVIOUS
<1>1. <<>> \in Seq({"start", "stop"})
  BY EmptySeq
<1>2. TypeOK
  BY <1>1 DEF Init, TypeOK
<1>3. Callers /\ Ownership
  BY DEF Init, Callers, Ownership
<1>4. QED BY <1>2, <1>3 DEF ScanInv

\* A queue of commands that was empty holds the one that is sent, and is empty
\* again when the kernel has carried it out.
LEMMA OneCommand ==
  ASSUME NEW c \in {"start", "stop"}
  PROVE  /\ Append(<<>>, c) = <<c>> /\ Tail(<<c>>) = <<>> /\ Len(<<c>>) = 1
         /\ <<c>> # <<>>
  OBVIOUS

LEMMA CompleteType ==
  ASSUME TypeOK, NEW c, NEW s \in {"ok", "busy", "error"}, Complete(c, s),
         discovery' \in {"off", "ours", "theirs"}, unanswered' \in BOOLEAN
  PROVE  TypeOK'
<1>1. commands' \in Seq({"start", "stop"})
  BY HeadTailProperties DEF Complete, TypeOK
<1>2. QED BY <1>1 DEF Complete, TypeOK, mine, task

LEMMA CompleteOwnership ==
  ASSUME TypeOK, Ownership, NEW c \in {"start", "stop"},
         NEW s \in {"ok", "busy", "error"}, Complete(c, s)
  PROVE  /\ worker' = worker /\ owned' = owned /\ lost' = lost
         /\ commands' = <<>> /\ status = "none" /\ status' = s
         /\ \/ c = "start" /\ worker = "starting" /\ discovery # "ours"
            \/ c = "stop" /\ worker = "stopping" /\ (discovery = "ours" \/ lost)
<1>1. commands # <<>> /\ commands[1] = c /\ commands' = Tail(commands)
      /\ worker' = worker /\ owned' = owned /\ lost' = lost
  BY DEF Complete, task
<1>2. \/ commands = <<"start">> /\ status = "none" /\ worker = "starting"
         /\ discovery # "ours"
      \/ commands = <<"stop">> /\ status = "none" /\ worker = "stopping"
         /\ (discovery = "ours" \/ lost)
  BY <1>1 DEF Ownership, TypeOK
<1>3. commands = <<c>> /\ worker \in {"starting", "stopping"}
  BY <1>1, <1>2
<1>4. commands' = <<>> /\ Len(commands) = 1
  BY <1>1, <1>3, OneCommand
<1>5. status' = s
  BY <1>3, <1>4 DEF Complete
<1>6. QED BY <1>1, <1>2, <1>4, <1>5

LEMMA ScanStep ==
  ScanInv /\ [Next]_vars => ScanInv'
<1> SUFFICES ASSUME ScanInv, [Next]_vars PROVE ScanInv'
  OBVIOUS
<1>1. TypeOK /\ Callers /\ (unanswered \/ Ownership)
  BY DEF ScanInv
<1>2. CASE Discover
  <2>1. commands' \in Seq({"start", "stop"})
    BY <1>1, <1>2, AppendProperties DEF Discover, TypeOK
  <2>2. TypeOK'
    <3>1. scans' \in Nat /\ discovery' \in {"off", "ours", "theirs"}
          /\ lost' = FALSE /\ unanswered' \in BOOLEAN
      BY <1>1, <1>2 DEF Discover, TypeOK
    <3>2. /\ caller' = "scanning" /\ token' = FALSE /\ received' = "none"
          /\ worker' = "starting" /\ owned' = FALSE /\ outcome' = "none"
          /\ status' = "none"
      BY <1>2 DEF Discover
    <3>3. QED BY <3>1, <3>2, <2>1 DEF TypeOK
  <2>3. Callers'
    BY <1>2 DEF Discover, Callers
  <2>4. Ownership => Ownership'
    BY <1>1, <1>2, OneCommand DEF Discover, Callers, Ownership
  <2>5. QED BY <1>1, <1>2, <2>2, <2>3, <2>4 DEF ScanInv, Discover
<1>3. CASE Return \/ Drop \/ Close \/ Closed
  <2>1. UNCHANGED <<scans, task, kernel, history>>
    BY <1>3 DEF Return, Drop, Close, Closed
  <2>2. TypeOK'
    <3>1. caller' \in {"idle", "scanning", "dropped", "closing", "closed"}
          /\ token' \in BOOLEAN
      BY <1>1, <1>3 DEF Return, Drop, Close, Closed, TypeOK
    <3>2. received' \in {"none", "found", "timeout", "cancelled", "error"}
      BY <1>1, <1>3 DEF Return, Drop, Close, Closed, TypeOK
    <3>3. QED BY <1>1, <2>1, <3>1, <3>2 DEF TypeOK, task, kernel, history
  <2>3. Callers'
    BY <1>1, <1>3, <2>1 DEF Return, Drop, Close, Closed, Callers, task
  <2>4. Ownership => Ownership'
    BY <2>1 DEF Ownership, task, kernel, history
  <2>5. QED BY <1>1, <2>1, <2>2, <2>3, <2>4 DEF ScanInv, history
<1>4. CASE Started \/ StartFails \/ Stopped \/ StopFails
  <2>1. TypeOK'
    BY <1>1, <1>4 DEF Started, StartFails, Stopped, StopFails, TypeOK, mine, kernel,
       history
  <2>2. Callers'
    BY <1>1, <1>4 DEF Started, StartFails, Stopped, StopFails, Callers, mine
  <2>3. unanswered => unanswered'
    BY <1>4 DEF Started, StartFails, Stopped, StopFails, history
  <2>4. ASSUME Ownership PROVE unanswered' \/ Ownership'
    BY <1>4, <2>4 DEF Started, StartFails, Stopped, StopFails, Ownership, kernel,
       history
  <2>5. QED BY <1>1, <2>1, <2>2, <2>3, <2>4 DEF ScanInv
<1>5. CASE Look
  <2>1. commands' \in Seq({"start", "stop"})
    BY <1>1, <1>5, AppendProperties DEF Look, TypeOK
  <2>2. TypeOK' /\ Callers'
    BY <1>1, <1>5, <2>1 DEF Look, TypeOK, Callers, mine, history
  <2>3. Ownership => Ownership'
    BY <1>5, OneCommand DEF Look, Ownership, history
  <2>4. QED BY <1>1, <1>5, <2>2, <2>3 DEF ScanInv, Look, history
<1>6. CASE KernelStart
  <2>1. PICK s \in {"ok", "busy", "error"} :
          /\ Complete("start", s)
          /\ s = "ok" => discovery' = "ours"
          /\ s # "ok" => discovery' = discovery
          /\ unanswered' = unanswered
    BY <1>6 DEF KernelStart
  <2>2. TypeOK'
    BY <1>1, <2>1, CompleteType DEF TypeOK
  <2>3. Ownership => Ownership'
    BY <1>1, <2>1, CompleteOwnership DEF Ownership
  <2>4. QED BY <1>1, <2>1, <2>2, <2>3 DEF ScanInv, Callers, Complete, mine, task
<1>7. CASE KernelStop
  <2>1. PICK s \in {"ok", "error"} :
          /\ Complete("stop", s)
          /\ s = "ok" => discovery' = "off"
          /\ s # "ok" => discovery' = discovery
          /\ unanswered' \in BOOLEAN /\ (unanswered => unanswered')
          /\ s = "error" /\ discovery = "ours" => unanswered'
    <3>1. CASE /\ Complete("stop", "ok")
               /\ discovery # "off" /\ discovery' = "off"
               /\ UNCHANGED unanswered
      BY <1>1, <3>1 DEF TypeOK
    <3>2. CASE /\ Complete("stop", "error")
               /\ unanswered' = (unanswered \/ discovery = "ours")
               /\ UNCHANGED discovery
      BY <1>1, <3>2 DEF TypeOK
    <3>3. QED BY <1>7, <3>1, <3>2 DEF KernelStop
  <2>2. TypeOK'
    BY <1>1, <2>1, CompleteType DEF TypeOK
  <2>3. Ownership => unanswered' \/ Ownership'
    BY <1>1, <2>1, CompleteOwnership DEF Ownership
  <2>4. QED BY <1>1, <2>1, <2>2, <2>3 DEF ScanInv, Callers, Complete, mine, task
<1>8. CASE DiscoveryEnds \/ OtherProgram
  <2>1. UNCHANGED <<mine, task, commands, status, unanswered>>
    BY <1>8 DEF DiscoveryEnds, OtherProgram, history
  <2>2. discovery' \in {"off", "theirs"} /\ lost' \in BOOLEAN
    BY <1>1, <1>8 DEF DiscoveryEnds, OtherProgram, history, TypeOK
  <2>3. TypeOK' /\ Callers'
    BY <1>1, <2>1, <2>2 DEF TypeOK, Callers, mine, task
  <2>4. discovery = "ours" \/ lost => lost'
    BY <1>8 DEF DiscoveryEnds, OtherProgram, history
  <2>5. Ownership => Ownership'
    BY <2>1, <2>2, <2>4 DEF Ownership, mine, task
  <2>6. QED BY <1>1, <2>1, <2>3, <2>5 DEF ScanInv
<1>9. CASE UNCHANGED vars
  BY <1>1, <1>9 DEF vars, mine, task, kernel, history, ScanInv, TypeOK, Callers, Ownership
<1>10. QED
  BY <1>2, <1>3, <1>4, <1>5, <1>6, <1>7, <1>8, <1>9 DEF Next, Worker

LEMMA ScanInvariant ==
  Spec => []ScanInv
  BY ScanInitially, ScanStep, PTL DEF Spec

-----------------------------------------------------------------------------
\* When Bluetooth is closed, or between two scans, the discovery the bridge
\* started is stopped, wherever the caller of a scan was dropped - unless the
\* kernel did not answer or refused a START or STOP.
THEOREM NoScanLeavesDiscovery == Spec => []NoDiscoveryLeft
<1>1. ScanInv => NoDiscoveryLeft
  BY DEF ScanInv, Callers, Ownership, NoDiscoveryLeft
<1>2. QED BY <1>1, ScanInvariant, PTL

\* The bridge stops the discovery of another program only when the discovery of
\* the scan itself had ended before its STOP, or a START or STOP went unanswered.
THEOREM OthersScanOn == Spec => OthersUntouched
<1>1. ScanInv /\ [Next]_vars
        => [discovery = "theirs" /\ commands' # commands
              => discovery' = "theirs" \/ lost \/ unanswered]_vars
  <2> SUFFICES ASSUME ScanInv, Next, discovery = "theirs", commands' # commands,
                      ~lost, ~unanswered
               PROVE  discovery' = "theirs"
    OBVIOUS
  <2>1. TypeOK /\ Ownership
    BY DEF ScanInv
  <2>2. CASE KernelStop
    <3>1. PICK s \in {"ok", "error"} : Complete("stop", s)
      BY <2>2 DEF KernelStop
    <3>2. discovery = "ours" \/ lost
      BY <2>1, <3>1, CompleteOwnership
    <3>3. QED BY <3>2
  <2>3. CASE KernelStart
    BY <2>3 DEF KernelStart
  <2>4. CASE Discover \/ Look
    BY <2>4 DEF Discover, Look
  <2>5. CASE Return \/ Drop \/ Close \/ Closed \/ Started \/ StartFails \/ Stopped
               \/ StopFails \/ DiscoveryEnds \/ OtherProgram
    BY <2>5 DEF Return, Drop, Close, Closed, Started, StartFails, Stopped, StopFails,
       DiscoveryEnds, OtherProgram, kernel
  <2>6. QED BY <2>2, <2>3, <2>4, <2>5 DEF Next, Worker
<1>2. QED BY <1>1, ScanInvariant, PTL DEF Spec, OthersUntouched
=============================================================================
