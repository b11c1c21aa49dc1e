--------------------------- MODULE WinLinkProofs ---------------------------
(***************************************************************************)
(* Proofs about WinLink, for any numbers of subscriptions, writes and      *)
(* callback threads: Windows is left with nothing when the link is gone,   *)
(* and no callback runs a sink that was released.                          *)
(*                                                                         *)
(* NothingLeft is not inductive.  What connect holds in each phase, and    *)
(* that nobody subscribes before the link is open, is in Handles; that a   *)
(* closed link records no subscription any more is in Recorded.            *)
(***************************************************************************)
EXTENDS WinLink, TLAPS

Setup == {"scan", "device", "services", "characteristics"}

\* What is held in each phase; the sink and the handler come and go together.
Handles ==
  /\ sinks = held \cap Subs
  /\ \A s \in sinks : s \in recorded \/ Pending(s)
  /\ phase = "scan" => held \cap Native \subseteq Watcher
  /\ phase \in {"device", "services", "characteristics", "open", "closing"} =>
       held \cap Native \subseteq Resources
  /\ phase = "ended" => held \cap Native = {}

\* Calls begin when the link is open, and later only a closed link has any.
Recorded ==
  /\ phase \in Setup => dropping = {} /\ \A c \in Calls : call[c] # "running"
  /\ recorded # {} => phase \in {"open", "closing"}
  /\ phase = "closing" => closed /\ recorded = dropping
  /\ \A c \in Calls : call[c] = "running" => phase = "open" \/ closed

\* An operation is one of connect in its phase, or of a call.
Operations ==
  /\ \A c \in running \cap Calls : call[c] = "running"
  /\ running \ Calls \subseteq {phase} \cap (Setup \ {"scan"})

WinInv == TypeOK /\ Handles /\ Recorded /\ Operations /\ NoSinkAfterRelease

-----------------------------------------------------------------------------
(* Init, and the steps that connect the link. *)

LEMMA WinInitially == Init => WinInv
<1> SUFFICES ASSUME Init PROVE WinInv
  OBVIOUS
<1> USE WinLinkAssumption DEF Init, Native, Watcher, Resources, Phases, Setup
<1>1. TypeOK
  BY DEF TypeOK, Steps, Idle
<1>2. Handles
  BY DEF Handles
<1>3. Recorded /\ Operations
  BY DEF Recorded, Operations
<1>4. NoSinkAfterRelease
  BY DEF NoSinkAfterRelease, Idle
<1>5. QED BY <1>1, <1>2, <1>3, <1>4 DEF WinInv

\* Nobody has a subscription before the link is open.
LEMMA NothingYet ==
  ASSUME WinInv, phase \in Setup
  PROVE  recorded = {} /\ dropping = {} /\ sinks = {} /\ held \subseteq Native
  BY DEF WinInv, Handles, Recorded, Pending, TypeOK, Setup, Calls

-----------------------------------------------------------------------------
(* The steps, each part of the invariant in turn. *)

\* The scan, connect, and the end of a release.
ScanOrConnect ==
  Report("found") \/ Report("stopped") \/ Found \/ ScanFails \/ Connect \/ Released

LEMMA Connecting ==
  ASSUME WinInv, ScanOrConnect
  PROVE  WinInv'
<1> USE DEF ScanOrConnect, Report, Found, ScanFails, Connect, Device, Services, Open,
            ConnectFails, Released, StartOperation, StopOperations, handles, world
<1>0. phase' \in Phases /\ scanned' \in {"empty", "found", "stopped"}
  BY DEF WinInv, TypeOK, Phases
<1>1. TypeOK'
  <2>1. held' \subseteq Native \cup Subs
    BY DEF WinInv, TypeOK, Native, Resources
  <2>2. running' \subseteq Calls \cup Phases /\ answered' \subseteq running'
    BY DEF WinInv, TypeOK, Phases
  <2>3. UNCHANGED <<call, recorded, dropping, sinks, closed, thread, radio, event, changes>>
    OBVIOUS
  <2>4. QED BY <1>0, <2>1, <2>2, <2>3 DEF WinInv, TypeOK
<1>2. held' \cap Subs = held \cap Subs
  <2>1. \A s \in Subs : s \notin Resources /\ s \notin Watcher
    BY WinLinkAssumption DEF Native
  <2>2. \A s \in Subs : s \in held' <=> s \in held
    BY <2>1 DEF Resources
  <2>3. QED BY <2>2
<1>3. Handles'
  <2>1. sinks' = held' \cap Subs /\ \A s \in sinks' : s \in recorded' \/ Pending(s)'
    BY <1>2 DEF WinInv, Handles, Pending
  <2>2. phase' = "scan" => held' \cap Native \subseteq Watcher
    BY DEF WinInv, Handles
  <2>3. phase' \in {"device", "services", "characteristics", "open", "closing"} =>
          held' \cap Native \subseteq Resources
    BY DEF WinInv, Handles, Resources
  <2>4. phase' = "ended" => held' \cap Native = {}
    BY DEF WinInv, Handles, Native
  <2>5. QED BY <2>1, <2>2, <2>3, <2>4 DEF Handles
<1>4. Recorded'
  BY NothingYet DEF WinInv, Recorded, Setup
<1>5. Operations'
  <2>1. running' \cap Calls \subseteq running \cap Calls /\ UNCHANGED call
    BY WinLinkAssumption DEF Phases
  <2>2. running' \ Calls \subseteq {phase'} \cap (Setup \ {"scan"})
    BY DEF WinInv, Operations, Setup
  <2>3. QED BY <2>1, <2>2 DEF WinInv, Operations
<1>6. NoSinkAfterRelease'
  <2>1. CASE phase \in Setup
    <3>1. \A t \in Threads : thread[t].at # "sink"
      BY <2>1, NothingYet DEF WinInv, NoSinkAfterRelease
    <3>2. QED BY <3>1 DEF NoSinkAfterRelease
  <2>2. CASE phase \notin Setup
    <3>1. Released /\ recorded = {}
      BY <2>2 DEF WinInv, Recorded, Setup
    <3>2. sinks \subseteq Subs /\ \A s \in Subs : s \in held' <=> s \in held
      BY <1>2 DEF WinInv, TypeOK
    <3>3. QED BY <3>1, <3>2 DEF WinInv, NoSinkAfterRelease, Pending
  <2>3. QED BY <2>1, <2>2
<1>7. QED BY <1>1, <1>3, <1>4, <1>5, <1>6 DEF WinInv

\* subscribe and write, before and after the operation of Windows.
LEMMA Calling ==
  ASSUME WinInv, NEW c \in Calls, Refused(c) \/ Begin(c) \/ Succeed(c) \/ Fail(c)
  PROVE  WinInv'
<1> USE DEF Refused, Begin, Succeed, Fail, Free, StopOperations, handles, world
<1>1. TypeOK'
  <2>1. call' \in [Calls -> {"new", "running", "ok", "failed"}]
    BY DEF WinInv, TypeOK
  <2>2. running' \subseteq Calls \cup Phases /\ answered' \subseteq running'
    BY DEF WinInv, TypeOK
  <2>3. /\ held' \subseteq Native \cup Subs /\ recorded' \subseteq Subs
        /\ dropping' \subseteq Subs /\ sinks' \subseteq Subs
    BY DEF WinInv, TypeOK
  <2>4. UNCHANGED <<phase, scanned, closed, thread, radio, event, changes>>
    OBVIOUS
  <2>5. QED BY <2>1, <2>2, <2>3, <2>4 DEF WinInv, TypeOK
<1>2. \A d \in Calls : d # c => call'[d] = call[d]
  BY DEF WinInv, TypeOK
<1>3. \A s \in sinks : s \in recorded \/ Pending(s) => s \in recorded' \/ Pending(s)'
  BY <1>2 DEF WinInv, TypeOK, Pending, Calls
<1>4. Handles'
  <2>1. held' \cap Native = held \cap Native
    BY WinLinkAssumption
  <2>2. sinks' = held' \cap Subs
    BY DEF WinInv, Handles
  <2>3. ASSUME NEW s \in sinks' PROVE s \in recorded' \/ Pending(s)'
    <3>1. CASE s \in sinks
      BY <1>3, <3>1 DEF WinInv, Handles
    <3>2. CASE s \notin sinks
      <4>1. Begin(c) /\ s = c
        BY <2>3, <3>2
      <4>2. QED BY <4>1 DEF Pending, WinInv, TypeOK
    <3>3. QED BY <3>1, <3>2
  <2>4. QED BY <2>1, <2>2, <2>3 DEF WinInv, Handles
<1>5. Recorded'
  <2>1. phase' = phase /\ closed' = closed /\ dropping = {} /\ phase # "closing"
    OBVIOUS
  <2>2. phase \in Setup => dropping' = {} /\ \A d \in Calls : call'[d] # "running"
    BY <1>2 DEF WinInv, TypeOK, Recorded, Setup
  <2>3. recorded' # {} => phase = "open"
    BY DEF WinInv, Recorded
  <2>4. \A d \in Calls : call'[d] = "running" => phase = "open" \/ closed
    BY <1>2 DEF WinInv, TypeOK, Recorded
  <2>5. QED BY <2>1, <2>2, <2>3, <2>4 DEF Recorded
<1>6. Operations'
  BY <1>2 DEF WinInv, TypeOK, Operations
<1>7. NoSinkAfterRelease'
  <2>1. ASSUME NEW t \in Threads, thread[t].at = "sink", NEW s, s = thread[t].of
        PROVE  /\ s \in sinks' /\ s \in held'
               /\ Pending(s)' \/ (s \in recorded' /\ phase \in {"open", "closing"})
    <3>1. /\ s \in sinks /\ s \in held
          /\ Pending(s) \/ (s \in recorded /\ phase \in {"open", "closing"})
      BY <2>1 DEF WinInv, NoSinkAfterRelease
    <3>2. recorded' # {} => phase = "open"
      BY DEF WinInv, Recorded
    <3>3. QED BY <1>3, <3>1, <3>2
  <2>2. QED BY <2>1 DEF NoSinkAfterRelease
<1>8. QED BY <1>1, <1>4, <1>5, <1>6, <1>7 DEF WinInv

\* close takes the recorded subscriptions to drop them.
LEMMA Closing == ASSUME WinInv, Close PROVE WinInv'
<1> USE DEF Close, Free, handles, world
<1>1. TypeOK'
  BY DEF WinInv, TypeOK, Phases
<1>2. Handles'
  BY DEF WinInv, Handles, Pending
<1>3. Recorded' /\ Operations'
  BY DEF WinInv, Recorded, Operations, Setup
<1>4. NoSinkAfterRelease'
  BY DEF WinInv, NoSinkAfterRelease, Pending
<1>5. QED BY <1>1, <1>2, <1>3, <1>4 DEF WinInv

\* A subscription is dropped under its lock: no callback is in its sink.
LEMMA Dropping == ASSUME WinInv, NEW s \in Subs, DropSubscription(s) PROVE WinInv'
<1> USE DEF DropSubscription, world
<1>1. TypeOK'
  BY DEF WinInv, TypeOK
<1>2. s \notin Native
  BY WinLinkAssumption
<1>3. Handles'
  BY <1>2 DEF WinInv, Handles, Pending
<1>4. Recorded' /\ Operations'
  BY DEF WinInv, Recorded, Operations
<1>5. ASSUME NEW t \in Threads, thread[t].at = "sink" PROVE thread[t].of # s
  <2>1. thread[t] = [at |-> thread[t].at, of |-> thread[t].of]
    BY DEF WinInv, TypeOK
  <2>2. QED BY <1>5, <2>1 DEF Locked
<1>6. NoSinkAfterRelease'
  BY <1>5 DEF WinInv, NoSinkAfterRelease, Pending
<1>7. QED BY <1>1, <1>3, <1>4, <1>6 DEF WinInv

\* A callback enters the sink of a subscription that is not released.
LEMMA Delivering ==
  ASSUME WinInv, NEW t \in Threads, Callback(t) \/ \E s \in Subs : Deliver(t, s)
  PROVE  WinInv'
<1> USE DEF Callback, CheckClosed, ReadFails, Lock, Unlock, Deliver, Step, Return, Idle,
            link, handles, world
<1>1. TypeOK'
  <2>1. thread' \in [Threads -> [at : Steps, of : Subs \cup {NoSub}]]
    BY DEF WinInv, TypeOK, Steps
  <2>2. closed' \in BOOLEAN /\ UNCHANGED <<link, world>>
    BY DEF WinInv, TypeOK
  <2>3. QED BY <2>1, <2>2 DEF WinInv, TypeOK
<1>2. Handles' /\ Operations'
  BY DEF WinInv, Handles, Operations, Pending
<1>3. Recorded'
  BY DEF WinInv, Recorded
<1>4. ASSUME NEW u \in Threads, thread'[u].at = "sink"
      PROVE  \/ thread'[u] = thread[u]
             \/ thread'[u].of \in sinks /\ ~closed
  BY <1>4 DEF WinInv, TypeOK
<1>5. \A s \in sinks : /\ s \in held
                       /\ Pending(s) \/ (s \in recorded /\ phase \in {"open", "closing"})
  BY DEF WinInv, Handles, Recorded
<1>6. NoSinkAfterRelease'
  BY <1>4, <1>5 DEF WinInv, NoSinkAfterRelease, Pending
<1>7. QED BY <1>1, <1>2, <1>3, <1>6 DEF WinInv

\* Windows and the radio link change nothing that the link holds.
LEMMA Outside ==
  ASSUME WinInv, (\E op \in running : Answer(op)) \/ RadioChanges \/ StatusChanged
  PROVE  WinInv'
<1> USE DEF Answer, RadioChanges, StatusChanged, link, handles, world
<1>1. TypeOK'
  <2>1. /\ answered' \subseteq running /\ changes' \in Nat
        /\ UNCHANGED <<phase, scanned, call, running, handles, thread>>
    BY DEF WinInv, TypeOK
  <2>2. closed' \in BOOLEAN /\ event' \in BOOLEAN /\ radio' \in BOOLEAN
    BY DEF WinInv, TypeOK
  <2>3. QED BY <2>1, <2>2 DEF WinInv, TypeOK
<1>2. Handles' /\ Operations' /\ NoSinkAfterRelease'
  BY DEF WinInv, Handles, Operations, NoSinkAfterRelease, Pending
<1>3. Recorded'
  BY DEF WinInv, Recorded
<1>4. QED BY <1>1, <1>2, <1>3 DEF WinInv

-----------------------------------------------------------------------------
(* The theorems. *)

LEMMA WinStep == WinInv /\ [Next]_vars => WinInv'
<1> SUFFICES ASSUME WinInv, [Next]_vars PROVE WinInv'
  OBVIOUS
<1>1. CASE UNCHANGED vars
  BY <1>1 DEF WinInv, TypeOK, Handles, Recorded, Operations, NoSinkAfterRelease, Pending,
     vars, link, handles, world
<1>2. CASE Next
  BY <1>2, Connecting, Calling, Closing, Dropping, Delivering, Outside DEF Next, ScanOrConnect
<1>3. QED BY <1>1, <1>2

LEMMA WinInvariant == Spec => []WinInv
<1>1. QED BY WinInitially, WinStep, PTL DEF Spec

\* A callback only runs the sink of a subscription that is being made or that the
\* open link holds: release waits for a callback that is running it, and none
\* enters it later (the Mutex of Subscription and its drop).
THEOREM NoSinkRunsAfterRelease == Spec => []NoSinkAfterRelease
<1>1. WinInv => NoSinkAfterRelease
  BY DEF WinInv
<1>2. QED BY <1>1, WinInvariant, PTL

\* Whenever a future is dropped, an operation fails or the link is closed, no
\* handle, handler or operation of Windows stays behind (OnDrop, Resources::drop).
THEOREM WindowsIsLeftWithNothing == Spec => []NothingLeft
<1>1. WinInv => NothingLeft
  <2> SUFFICES ASSUME WinInv PROVE NothingLeft
    OBVIOUS
  <2>1. held \cap Subs \subseteq recorded \cup {c \in Subs : Pending(c)}
    BY DEF WinInv, Handles
  <2>2. running \cap Calls \subseteq {c \in Calls : Pending(c)}
    BY DEF WinInv, Operations, Pending
  <2>3. running \ Calls \subseteq {phase}
    BY DEF WinInv, Operations
  <2>4. phase = "ended" => held \cap Native = {} /\ recorded = {}
    BY DEF WinInv, Handles, Recorded
  <2>5. QED BY <2>1, <2>2, <2>3, <2>4 DEF WinInv, NothingLeft
<1>2. QED BY <1>1, WinInvariant, PTL
============================================================================
