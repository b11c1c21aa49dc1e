-------------------------- MODULE AttachmentProofs --------------------------
(***************************************************************************)
(* Proofs about Attachment, for any number of clients, request sizes and   *)
(* ports: the device always has somebody who removes it, a successful run  *)
(* leaves none behind, and the code implements DeviceLease.                *)
(*                                                                         *)
(* None of this is inductive.  The lease, the worker and the transport     *)
(* each know a part of what became of the device; Futures, OnLinux and     *)
(* OnWindows say what they know of each other.                             *)
(***************************************************************************)
EXTENDS Attachment, TLAPS

\* The two futures, the token that each of them sets, and the run that ends last.
Futures ==
  /\ transport = "done" => cancelled /\ served # "none"
  /\ transport = "late" => cancelled /\ early /\ served # "none"
  /\ application = "done" => cancelled /\ drained # "none"
  /\ mode # "manual" /\ transport \in {"attaching", "late", "serving"} => identity
  /\ mode # "manual" /\ transport = "serving" => lease = "held"
  /\ lease # "none" => transport \in {"serving", "done"}
  /\ lease = "none" => detached = "none"
  /\ lease = "released" => detached # "none"
  /\ lease = "held" => detached \in {"none", "attach"}
  /\ result # "none" => Drained /\ lease # "held"

\* Only a server that runs serves a client.
Served == ~ServerRuns => \A c \in Clients : clients[c] \notin Accepted

\* Without a worker, the lease comes with the device.
OnLinux ==
  ~windows =>
    /\ worker = "none" /\ answer = "none" /\ told = "none" /\ removal = "none"
    /\ transport # "late"
    /\ lease = "none" => device = "absent"
    /\ device = "present" => lease = "held" \/ detached = "attach"
    /\ mode = "manual" => lease = "none" /\ transport \in {"serving", "done"}

\* What the worker told and did, and what the lease makes of it.
OnWindows ==
  windows =>
    /\ worker = "none" => /\ answer = "none" /\ removal = "none" /\ lease = "none"
                          /\ transport \in {"identity", "done"}
    /\ worker \in {"opening", "asking", "cancelling"} =>
         removal = "none" /\ transport \in {"attaching", "late"}
    /\ worker = "opening" => answer = "none"
    /\ worker = "holding" => answer = "imported" /\ told = "ok" /\ removal = "none"
    /\ told = "ok" => worker \in {"holding", "ended"}
    /\ device = "absent" <=> answer \notin {"imported", "unreadable"}
    /\ answer = "imported" /\ worker = "ended" => device # "present" \/ removal = "error"
    /\ transport = "identity" => worker = "none"
    /\ lease = "held" => told = "ok" /\ detached = "none"
    /\ lease = "released" => worker = "ended" /\ (removal = "error" => detached = "attach")
    /\ transport = "done" /\ lease = "none" =>
         worker \in {"none", "ended"} /\ (removal = "error" => early \/ served = "attach")

AttachInv == /\ TypeOK /\ Futures /\ Served /\ OnLinux /\ OnWindows
             /\ SuccessIsClean

\* The tuples of variables that the actions leave unchanged together.
USE DEF port, thread, native, serving, drain, outside, workerVars

-----------------------------------------------------------------------------
(* Types. *)

\* The result is the first error, or success if there is none.
LEMMA FirstError ==
  ASSUME TypeOK
  PROVE  /\ First \in {"ok", "transport", "attach", "application"}
         /\ First = "ok" => /\ served \in {"none", "ok"} /\ drained \in {"none", "ok"}
                            /\ detached \in {"none", "ok"}
<1> DEFINE failed == {i \in 1..3 : Errors[i] \notin {"none", "ok"}}
<1>1. \A i \in 1..3 : Errors[i] \in {"none", "ok", "transport", "attach", "application"}
  BY DEF TypeOK, Errors
<1>2. /\ \E i \in 1..3 : Errors[i] = served
      /\ \E i \in 1..3 : Errors[i] = drained
      /\ \E i \in 1..3 : Errors[i] = detached
  <2>1. /\ Errors[1] = IF early THEN detached ELSE served
        /\ Errors[2] = IF early THEN served ELSE IF windows THEN detached ELSE drained
        /\ Errors[3] = IF early \/ windows THEN drained ELSE detached
    BY DEF Errors
  <2>2. 1 \in 1..3 /\ 2 \in 1..3 /\ 3 \in 1..3
    OBVIOUS
  <2>3. CASE early
    BY <2>1, <2>2, <2>3
  <2>4. CASE ~early /\ windows
    BY <2>1, <2>2, <2>4
  <2>5. CASE ~early /\ ~windows
    BY <2>1, <2>2, <2>5
  <2>6. QED BY <2>3, <2>4, <2>5
<1>3. First = IF failed = {} THEN "ok"
              ELSE Errors[CHOOSE i \in failed : \A j \in failed : i <= j]
  BY DEF First
<1> HIDE DEF failed
<1>4. CASE failed = {}
  <2>1. \A i \in 1..3 : Errors[i] \in {"none", "ok"}
    BY <1>4 DEF failed
  <2>2. QED BY <1>2, <1>3, <1>4, <2>1
<1>5. CASE failed # {}
  <2>1. \E i \in failed : \A j \in failed : i <= j
    <3>1. failed \subseteq {1, 2, 3}
      BY DEF failed
    <3>2. CASE 1 \in failed
      BY <3>1, <3>2
    <3>3. CASE 1 \notin failed /\ 2 \in failed
      BY <3>1, <3>3
    <3>4. CASE failed = {3}
      BY <3>4
    <3>5. QED BY <1>5, <3>1, <3>2, <3>3, <3>4
  <2>2. PICK i \in failed : First = Errors[i]
    BY <1>3, <1>5, <2>1
  <2>3. QED BY <1>1, <2>2 DEF failed
<1>6. QED BY <1>4, <1>5

\* A client moves, or all that are served are stopped.
LEMMA ClientsType ==
  ASSUME TypeOK,
         \/ \E c \in Clients : \/ Accept(c) \/ Reply(c) \/ ClientStops(c) \/ Connect(c)
                               \/ ClientFails(c) \/ \E what \in Asks : Request(c, what)
         \/ StopClients
  PROVE  clients' \in [Clients -> Accepted \cup {"none", "queued", "closed"}]
<1> USE DEF Accept, Reply, ClientStops, Connect, ClientFails, Request, Asks, Moves, Accepted,
            TypeOK, WorkerTypeOK
<1>1. CASE StopClients
  BY <1>1 DEF StopClients
<1>2. CASE ~StopClients
  BY <1>2
<1>3. QED BY <1>1, <1>2

\* Detaching a port removes our device, or leaves it alone.
LEMMA DetachPortType ==
  ASSUME TypeOK, DetachPort
  PROVE  /\ device' \in {"absent", "present", "removed", "gone"} /\ ports' = ports
         /\ other' \in DOMAIN Later /\ harmed' \in BOOLEAN
         /\ device' = (IF device = "present" THEN "removed" ELSE device)
<1>1. "none" \in DOMAIN Later
  BY DEF Later
<1>2. QED BY <1>1 DEF DetachPort, TypeOK, WorkerTypeOK

LEMMA WorkerType ==
  ASSUME TypeOK, WorkerSteps \/ DriverSteps
  PROVE  WorkerTypeOK'
<1> USE DEF TypeOK, WorkerTypeOK
<1>1. CASE WorkerSteps
  BY <1>1, SizesAssumption DEF WorkerSteps, Open, CancelRequest, TakeImport, TakeFailure,
     Unplug, GivesUp
<1>2. CASE DriverRefuses \/ DriverImports
  BY <1>2 DEF DriverRefuses, DriverImports, Answers
<1>3. CASE DriverConnects
  BY <1>3 DEF DriverConnects, Connect, Request, Asks, Moves, Accepted
<1>4. QED BY <1>1, <1>2, <1>3 DEF DriverSteps

LEMMA TypeStep == TypeOK /\ [Next]_vars => TypeOK'
<1> SUFFICES ASSUME TypeOK, [Next]_vars PROVE TypeOK'
  OBVIOUS
<1>1. CASE Attach
  <2>1. CASE StartAttach
    BY <2>1, PortsAssumption DEF StartAttach, StartWorker, TypeOK, WorkerTypeOK
  <2>2. CASE PortBusy
    BY <2>2, PortsAssumption DEF PortBusy, TypeOK, WorkerTypeOK
  <2>3. CASE AttachWindowsFails
    BY <2>3, ClientsType DEF AttachWindowsFails, TransportEnds, TypeOK, WorkerTypeOK
  <2>4. CASE StopWaiting \/ AttachLinux \/ AttachLinuxFails \/ AttachWindows
    BY <2>4 DEF StopWaiting, AttachLinux, AttachLinuxFails, AttachWindows, TransportEnds,
       TypeOK, WorkerTypeOK
  <2>5. QED BY <1>1, <2>1, <2>2, <2>3, <2>4 DEF Attach
<1>2. CASE Worker \/ UsbipDriver
  BY <1>2, WorkerType DEF Worker, UsbipDriver, TypeOK
<1>3. CASE ServeClients \/ Hosts
  <2>1. clients' \in [Clients -> Accepted \cup {"none", "queued", "closed"}]
    BY <1>3, ClientsType DEF ServeClients, Hosts
  <2>2. QED BY <1>3, <2>1 DEF ServeClients, Hosts, TypeOK, WorkerTypeOK
<1>4. CASE ServerEndsEarly \/ ServerEnds
  <2>1. clients' \in [Clients -> Accepted \cup {"none", "queued", "closed"}]
    BY <1>4, ClientsType DEF ServerEndsEarly, ServerEnds
  <2>2. QED
    BY <1>4, <2>1 DEF ServerEndsEarly, ServerEnds, TransportEnds, TypeOK, WorkerTypeOK
<1>5. CASE LateAttachEnds \/ ApplicationEnds \/ ResolveIdentity \/ Cancel \/ KernelRemoves
  BY <1>5 DEF LateAttachEnds, ApplicationEnds, ResolveIdentity, Cancel, KernelRemoves,
     TransportEnds, TypeOK, WorkerTypeOK
<1>6. CASE Detach
  <2>1. /\ device' \in {"absent", "present", "removed", "gone"} /\ ports' = ports
        /\ other' \in DOMAIN Later /\ harmed' \in BOOLEAN
        /\ lease' \in {"held", "released"} /\ detached' \in {"ok", "attach"}
    BY <1>6, DetachPortType DEF Detach, TypeOK, WorkerTypeOK
  <2>2. QED BY <1>6, <2>1 DEF Detach, TypeOK, WorkerTypeOK
<1>7. CASE Return
  <2>1. /\ device' \in {"absent", "present", "removed", "gone"} /\ ports' = ports
        /\ other' \in DOMAIN Later /\ harmed' \in BOOLEAN
        /\ lease' \in {"none", "released"}
    BY <1>7, DetachPortType DEF Return, TypeOK, WorkerTypeOK
  <2>2. result' \in {"ok", "transport", "attach", "application"}
    BY <1>7, FirstError DEF Return
  <2>3. QED BY <1>7, <2>1, <2>2 DEF Return, TypeOK, WorkerTypeOK
<1>8. CASE OtherDevice
  <2>1. other' \in DOMAIN Later
    BY <1>8 DEF OtherDevice, Later, TypeOK
  <2>2. QED BY <1>8, <2>1 DEF OtherDevice, TypeOK, WorkerTypeOK
<1>9. CASE UNCHANGED vars
  BY <1>9 DEF vars, TypeOK, WorkerTypeOK
<1>10. QED BY <1>1, <1>2, <1>3, <1>4, <1>5, <1>6, <1>7, <1>8, <1>9 DEF Next

-----------------------------------------------------------------------------
(* The steps of the invariant. *)

LEMMA AttachInitially == Init => AttachInv
<1> SUFFICES ASSUME Init PROVE AttachInv
  OBVIOUS
<1> USE DEF Init, ServerInit, WorkerInit, Accepted
<1>1. TypeOK
  <2>1. "none" \in DOMAIN Later /\ 0 \in 0..MaxPorts /\ Sizes \in 1..Sizes
    BY PortsAssumption, SizesAssumption DEF Later
  <2>2. QED BY <2>1 DEF TypeOK, WorkerTypeOK
<1>2. Futures /\ Served
  BY DEF Futures, Served
<1>3. OnLinux /\ OnWindows
  BY DEF OnLinux, OnWindows, windows
<1>4. SuccessIsClean
  BY DEF SuccessIsClean, NobodyServedAfter
<1>5. QED BY <1>1, <1>2, <1>3, <1>4 DEF AttachInv

\* A client that is served once the transport ended would be served by no server.
LEMMA ServedByServer == Served => NobodyServedAfter
  BY DEF Served, NobodyServedAfter, ServerRuns

\* Once the run has returned, nothing its result speaks of changes.
LEMMA RunIsOver ==
  ASSUME AttachInv, result # "none"
  PROVE  /\ transport = "done" /\ application = "done" /\ lease # "held"
         /\ worker \notin {"opening", "asking", "cancelling", "holding"}
  BY DEF AttachInv, TypeOK, WorkerTypeOK, Futures, OnLinux, OnWindows, Drained

\* The transport future: no client is concerned.
LEMMA TransportStep ==
  ASSUME AttachInv, TypeOK',
         StopWaiting \/ StartAttach \/ PortBusy \/ AttachLinux \/ AttachLinuxFails
         \/ AttachWindows \/ LateAttachEnds
  PROVE  AttachInv'
<1> USE DEF StopWaiting, StartAttach, StartWorker, PortBusy, AttachLinux, AttachLinuxFails,
            AttachWindows, LateAttachEnds, TransportEnds
<1>1. result = "none" /\ result' = "none"
  BY RunIsOver
<1>2. Futures'
  BY <1>1 DEF AttachInv, Futures, OnLinux, OnWindows, Drained, windows
<1>3. Served'
  <2>1. UNCHANGED <<mode, clients>> /\ (ServerRuns => ServerRuns' \/ mode = "linux")
    BY DEF ServerRuns, AttachInv, TypeOK, OnLinux, windows
  <2>2. QED BY <2>1 DEF AttachInv, Served, ServerRuns
<1>4. OnLinux'
  BY DEF AttachInv, OnLinux, Futures, windows
<1>5. OnWindows'
  <2>1. CASE StartAttach
    BY <2>1 DEF AttachInv, OnWindows, windows
  <2>2. CASE StopWaiting \/ LateAttachEnds
    BY <2>2 DEF AttachInv, OnWindows, Futures, windows
  <2>3. CASE PortBusy \/ AttachLinux \/ AttachLinuxFails
    BY <2>3 DEF OnWindows, windows
  <2>4. CASE AttachWindows
    BY <2>4 DEF AttachInv, OnWindows, Futures, windows
  <2>5. QED BY <2>1, <2>2, <2>3, <2>4
<1>6. SuccessIsClean'
  BY <1>1, <1>3, ServedByServer DEF SuccessIsClean, NobodyServedAfter, Served, ServerRuns
<1>7. QED BY <1>2, <1>3, <1>4, <1>5, <1>6 DEF AttachInv

\* The transport ends with its server, and no client is served any more.
LEMMA ServerStep ==
  ASSUME AttachInv, TypeOK', AttachWindowsFails \/ ServerEndsEarly \/ ServerEnds
  PROVE  AttachInv'
<1> USE DEF AttachWindowsFails, ServerEndsEarly, ServerEnds, TransportEnds
<1>1. result = "none" /\ result' = "none"
  BY RunIsOver
<1>2. \A c \in Clients : clients'[c] \notin Accepted
  BY DEF AttachInv, TypeOK, WorkerTypeOK, StopClients, Accepted
<1>3. Futures'
  BY <1>1 DEF AttachInv, Futures, OnLinux, OnWindows, Drained, windows
<1>4. OnLinux'
  BY DEF AttachInv, OnLinux, Futures, windows
<1>5. OnWindows'
  BY DEF AttachInv, OnWindows, Futures, TypeOK, WorkerTypeOK, windows
<1>6. Served' /\ SuccessIsClean'
  BY <1>1, <1>2 DEF Served, SuccessIsClean, NobodyServedAfter
<1>7. QED BY <1>3, <1>4, <1>5, <1>6 DEF AttachInv

\* The rest of the application, and the kernel.
LEMMA AroundStep ==
  ASSUME AttachInv, TypeOK',
         ApplicationEnds \/ ResolveIdentity \/ Cancel \/ KernelRemoves \/ OtherDevice
         \/ UNCHANGED vars
  PROVE  AttachInv'
<1> USE DEF ApplicationEnds, ResolveIdentity, Cancel, KernelRemoves, OtherDevice, vars
<1>1. /\ UNCHANGED <<mode, transport, served, early, lease, detached, worker, sizes, answer,
                     told, removal, clients, result>>
      /\ result # "none" => UNCHANGED <<device, drained>>
      /\ device' = device \/ (device = "present" /\ device' = "gone")
  BY RunIsOver
<1>2. Futures'
  BY <1>1 DEF AttachInv, Futures, Drained
<1>3. Served'
  BY <1>1 DEF AttachInv, Served, ServerRuns
<1>4. OnLinux'
  BY <1>1 DEF AttachInv, OnLinux, windows
<1>5. OnWindows'
  BY <1>1 DEF AttachInv, OnWindows, windows
<1>6. SuccessIsClean'
  BY <1>1 DEF AttachInv, SuccessIsClean, NobodyServedAfter, Unknown
<1>7. QED BY <1>2, <1>3, <1>4, <1>5, <1>6 DEF AttachInv

\* The release of the lease, and the result.
LEMMA ReleaseStep ==
  ASSUME AttachInv, TypeOK', Detach \/ Return
  PROVE  AttachInv'
<1> USE DEF Detach, Return, Drained
<1>1. /\ UNCHANGED <<mode, identity, cancelled, transport, served, early, application, drained,
                     worker, sizes, answer, told, removal, clients>>
      /\ transport = "done" /\ application = "done" /\ result = "none"
  BY RunIsOver
<1>2. device' = device \/ (~windows /\ device = "present" /\ device' = "removed")
  BY DetachPortType DEF AttachInv, Futures, OnWindows
<1>3. Futures'
  BY <1>1 DEF AttachInv, Futures
<1>4. Served'
  BY <1>1 DEF AttachInv, Served, ServerRuns
<1>5. OnLinux'
  BY <1>1, <1>2, DetachPortType DEF AttachInv, OnLinux, Futures, windows
<1>6. OnWindows'
  BY <1>1, <1>2 DEF AttachInv, OnWindows, Futures, windows
<1>7. SuccessIsClean'
  <2>1. NobodyServedAfter'
    BY <1>1 DEF AttachInv, SuccessIsClean, NobodyServedAfter
  <2>2. ASSUME result' = "ok"
        PROVE  /\ device' # "present" \/ early \/ Unknown
               /\ served = "ok" /\ drained = "ok" /\ detached # "attach"
    <3>1. Return /\ First = "ok"
      BY <1>1, <2>2
    <3>2. served = "ok" /\ drained = "ok" /\ detached \in {"none", "ok"}
      <4>1. served # "none" /\ drained # "none"
        BY <1>1 DEF AttachInv, Futures
      <4>2. TypeOK
        BY DEF AttachInv
      <4>3. First = "ok"
        BY <3>1
      <4>4. served \in {"none", "ok"} /\ drained \in {"none", "ok"} /\ detached \in {"none", "ok"}
        BY <4>2, <4>3, FirstError
      <4>5. QED BY <4>1, <4>4
    <3>3. lease # "held"
      BY <3>1, <3>2 DEF AttachInv, Futures
    <3>4. CASE ~windows
      BY <1>2, <3>2, <3>3, <3>4 DEF AttachInv, OnLinux
    <3>5. CASE windows /\ ~early /\ ~Unknown
      <4>1. worker \in {"none", "ended"} /\ removal # "error"
        BY <1>1, <3>2, <3>3, <3>5 DEF AttachInv, OnWindows, TypeOK
      <4>2. device # "present"
        BY <3>5, <4>1 DEF AttachInv, OnWindows, TypeOK, WorkerTypeOK, Unknown
      <4>3. QED BY <1>2, <3>2, <4>2
    <3>6. QED BY <3>2, <3>4, <3>5
  <2>3. QED BY <1>1, <2>1, <2>2 DEF SuccessIsClean, Unknown
<1>8. QED BY <1>3, <1>4, <1>5, <1>6, <1>7 DEF AttachInv

\* The worker's thread and the driver.
LEMMA WorkerStep ==
  ASSUME AttachInv, TypeOK', Worker \/ UsbipDriver
  PROVE  AttachInv'
<1> USE DEF Worker, UsbipDriver
<1>1. windows /\ UNCHANGED outside
  OBVIOUS
<1>2. worker \in {"opening", "asking", "cancelling", "holding"}
  BY <1>1 DEF WorkerSteps, DriverSteps, Open, CancelRequest, TakeImport, TakeFailure, Unplug,
     DriverRefuses, DriverConnects, DriverImports, Asked, AttachInv, TypeOK, WorkerTypeOK,
     OnWindows
<1>3. result = "none" /\ result' = "none"
  BY <1>2, RunIsOver
<1>4. Futures' /\ OnLinux'
  BY <1>1 DEF AttachInv, Futures, OnLinux, Drained, windows
<1>5. Served'
  <2>1. \A c \in Clients : clients[c] \notin Accepted => clients'[c] \notin Accepted
    BY DEF WorkerSteps, DriverSteps, Open, CancelRequest, TakeImport, TakeFailure, Unplug,
       DriverRefuses, DriverConnects, DriverImports, Connect, Request, Moves, Accepted,
       AttachInv, TypeOK, WorkerTypeOK
  <2>2. QED BY <1>1, <2>1 DEF AttachInv, Served, ServerRuns
<1>6. OnWindows'
  <2>1. CASE Open \/ CancelRequest \/ TakeImport \/ Unplug
    BY <1>1, <1>2, <2>1 DEF Open, CancelRequest, TakeImport, Unplug, GivesUp, AttachInv,
       OnWindows, TypeOK, WorkerTypeOK, windows
  <2>2. CASE TakeFailure
    BY <1>1, <1>2, <2>2 DEF TakeFailure, GivesUp, AttachInv, OnWindows, TypeOK, WorkerTypeOK,
       windows
  <2>3. CASE DriverSteps
    BY <1>1, <1>2, <2>3 DEF DriverSteps, DriverRefuses, DriverConnects, DriverImports, Asked,
       Answers, AttachInv, OnWindows, TypeOK, WorkerTypeOK, windows
  <2>4. QED BY <2>1, <2>2, <2>3 DEF WorkerSteps
<1>7. SuccessIsClean'
  BY <1>3, <1>5, ServedByServer DEF SuccessIsClean, NobodyServedAfter, Served, ServerRuns
<1>8. QED BY <1>4, <1>5, <1>6, <1>7 DEF AttachInv

\* Clients come and go.
LEMMA ClientStep ==
  ASSUME AttachInv, TypeOK', ServeClients \/ Hosts
  PROVE  AttachInv'
<1>1. UNCHANGED <<mode, identity, cancelled, serving, drain, device, lease, detached, port,
                  workerVars, result>>
  BY DEF ServeClients, Hosts
<1>2. Futures' /\ OnLinux' /\ OnWindows'
  BY <1>1 DEF AttachInv, Futures, OnLinux, OnWindows, Drained, windows
<1>3. ServerRuns \/ \A c \in Clients : clients[c] \notin Accepted => clients'[c] \notin Accepted
  BY DEF ServeClients, Hosts, Connect, Request, ClientFails, Moves, Accepted, AttachInv,
     TypeOK, WorkerTypeOK, Served
<1>4. Served'
  BY <1>1, <1>3 DEF AttachInv, Served, ServerRuns
<1>5. NobodyServedAfter'
  BY <1>4 DEF NobodyServedAfter, Served, ServerRuns
<1>6. SuccessIsClean'
  BY <1>1, <1>5 DEF AttachInv, SuccessIsClean, Unknown
<1>7. QED BY <1>2, <1>4, <1>6 DEF AttachInv

LEMMA AttachInvariant == Spec => []AttachInv
<1>1. AttachInv /\ [Next]_vars => AttachInv'
  <2> SUFFICES ASSUME AttachInv, [Next]_vars PROVE AttachInv'
    OBVIOUS
  <2>1. TypeOK'
    BY TypeStep DEF AttachInv
  <2>2. QED
    BY <2>1, TransportStep, ServerStep, AroundStep, ReleaseStep, WorkerStep, ClientStep
    DEF Next, Attach
<1>2. QED BY <1>1, AttachInitially, PTL DEF Spec

-----------------------------------------------------------------------------
(* The theorems. *)

\* As long as a host sees the device, somebody will remove it - the lease, or the
\* worker on Windows - or its removal failed and that is known, or the driver did
\* not say which device it made.
THEOREM DeviceHasAnOwner == Spec => []DeviceIsOwned
<1>1. AttachInv => DeviceIsOwned
  BY DEF AttachInv, DeviceIsOwned, OnLinux, OnWindows, Held, Unknown, TypeOK, WorkerTypeOK
<1>2. QED BY <1>1, AttachInvariant, PTL

\* A run that reports success left no device behind and hides no failure, and a
\* run that ends leaves no client served (run_attached); but for the two errors
\* that the code drops.
THEOREM SuccessLeavesNothing == Spec => []SuccessIsClean
<1>1. AttachInv => SuccessIsClean
  BY DEF AttachInv
<1>2. QED BY <1>1, AttachInvariant, PTL

\* "Cancel and drain application work before releasing the native lease" (run)
\* holds where the kernel's driver holds the device: DrainedBeforeRemoval with the
\* one condition that is missing on Windows, where the worker does not wait.
THEOREM DrainedFirstOnLinux ==
  Spec => [][~windows /\ lease = "held" /\ device = "present" /\ device' = "removed"
               => transport = "done" /\ application = "done"]_vars
<1>1. AttachInv /\ [Next]_vars
        => [~windows /\ lease = "held" /\ device = "present" /\ device' = "removed"
              => transport = "done" /\ application = "done"]_vars
  <2> SUFFICES ASSUME AttachInv, Next, ~windows, device = "present", device' = "removed"
               PROVE  Drained
    BY DEF Drained
  <2>1. CASE Detach \/ Return
    BY <2>1 DEF Detach, Return
  <2>2. CASE ~Detach /\ ~Return
    BY <2>2 DEF Next, Attach, StopWaiting, StartAttach, PortBusy, AttachLinux,
       AttachLinuxFails, AttachWindows, AttachWindowsFails, Worker, UsbipDriver, ServeClients,
       Hosts, ServerEndsEarly, LateAttachEnds, ServerEnds, ApplicationEnds, ResolveIdentity,
       Cancel, KernelRemoves, OtherDevice
  <2>3. QED BY <2>1, <2>2
<1>2. QED BY <1>1, AttachInvariant, PTL DEF Spec

-----------------------------------------------------------------------------
(* The refinement: every step is one of DeviceLease, or leaves its view alone. *)

\* The futures still at work, as DeviceLease sees them.
working == (IF transport = "done" THEN {} ELSE {"transport"})
           \cup (IF application = "done" THEN {} ELSE {"application"})

\* A step of one of the futures to its end, or of neither.
LEMMA WorkingChanges ==
  ASSUME TypeOK
  PROVE  /\ transport # "done" /\ transport' = "done" /\ UNCHANGED application
              => "transport" \in working /\ working' = working \ {"transport"}
         /\ application # "done" /\ application' = "done" /\ UNCHANGED transport
              => "application" \in working /\ working' = working \ {"application"}
         /\ (transport' = "done" <=> transport = "done") /\ UNCHANGED application
              => UNCHANGED working
         /\ working = {} <=> transport = "done" /\ application = "done"
  BY DEF working, TypeOK

\* A future ends, and the bridge stops with it.
LEMMA FinishStep ==
  ASSUME AttachInv, StopWaiting \/ AttachLinuxFails \/ AttachWindowsFails \/ LateAttachEnds
                    \/ ServerEnds \/ ApplicationEnds
  PROVE  \E part \in {"transport", "application"} : Lease!Finish(part)
<1>1. CASE StopWaiting \/ AttachLinuxFails \/ AttachWindowsFails \/ LateAttachEnds \/ ServerEnds
  <2> USE DEF StopWaiting, AttachLinuxFails, AttachWindowsFails, LateAttachEnds, ServerEnds,
              TransportEnds
  <2>1. /\ transport # "done" /\ transport' = "done" /\ cancelled' = TRUE
        /\ UNCHANGED <<application, device, mode, identity, result>>
    BY <1>1
  <2>2. "transport" \in working /\ working' = working \ {"transport"}
    BY <2>1, WorkingChanges DEF AttachInv
  <2>3. Lease!Finish("transport")
    BY <2>1, <2>2 DEF Lease!Finish, working, windows
  <2>4. QED BY <2>3
<1>2. CASE ApplicationEnds
  <2>1. /\ application # "done" /\ application' = "done" /\ cancelled' = TRUE
        /\ UNCHANGED <<transport, device, mode, identity, result>>
    BY <1>2 DEF ApplicationEnds
  <2>2. "application" \in working /\ working' = working \ {"application"}
    BY <2>1, WorkingChanges DEF AttachInv
  <2>3. Lease!Finish("application")
    BY <2>1, <2>2 DEF Lease!Finish, working, windows
  <2>4. QED BY <2>3
<1>3. QED BY <1>1, <1>2

\* On Linux the attach makes the device, on Windows the driver does, while the
\* worker's request is open.
LEMMA AppearStep ==
  ASSUME AttachInv, AttachLinux \/ ((Worker \/ UsbipDriver) /\ DriverImports)
  PROVE  Lease!Appear
<1>1. UNCHANGED <<mode, cancelled, identity, application, result>>
  BY DEF AttachLinux, Worker, UsbipDriver
<1>2. /\ device = "absent" /\ device' = "present" /\ identity
      /\ transport # "done" /\ transport' # "done"
  <2>1. CASE AttachLinux
    BY <2>1 DEF AttachLinux, AttachInv, TypeOK, Futures, OnLinux, windows
  <2>2. CASE (Worker \/ UsbipDriver) /\ DriverImports
    BY <2>2 DEF Worker, UsbipDriver, DriverImports, Asked, AttachInv, Futures, OnWindows,
       windows
  <2>3. QED BY <2>1, <2>2
<1>3. "transport" \in working /\ UNCHANGED working
  BY <1>1, <1>2 DEF working
<1>4. QED BY <1>1, <1>2, <1>3 DEF Lease!Appear, working, windows

\* The worker unplugs the device once the bridge stops, the lease once all ended.
LEMMA RemoveStep ==
  ASSUME AttachInv, UNCHANGED <<mode, cancelled, identity, transport, application, result>>,
         device = "present", device' = "removed", result = "none",
         (windows /\ cancelled) \/ Drained
  PROVE  Lease!Remove
<1>1. UNCHANGED working /\ (Drained => working = {})
  BY DEF working, Drained
<1>2. QED BY <1>1 DEF Lease!Remove, working, windows

LEMMA ReturnStep ==
  ASSUME AttachInv, Return
  PROVE  Lease!End
<1>1. /\ Drained /\ result = "none" /\ result' # "none"
      /\ UNCHANGED <<mode, cancelled, identity, transport, application>>
  BY FirstError DEF Return, AttachInv
<1>2. device' = device \/ (device = "present" /\ device' = "removed")
  BY DetachPortType DEF Return, AttachInv
<1>3. working = {} /\ UNCHANGED working
  BY <1>1 DEF working, Drained
<1>4. QED BY <1>1, <1>2, <1>3 DEF Lease!End, working, windows

\* What DeviceLease does not see.
LEMMA UnseenStep ==
  ASSUME UNCHANGED <<device, mode, cancelled, identity, application, result>>,
         transport' = "done" <=> transport = "done"
  PROVE  UNCHANGED Lease!vars
<1>1. UNCHANGED working
  BY DEF working
<1>2. QED BY <1>1 DEF Lease!vars, working, windows

\* The identity, the token, and the device that goes away by itself.
LEMMA ChannelStep ==
  ASSUME AttachInv, ResolveIdentity \/ Cancel \/ KernelRemoves \/ ServerEndsEarly
  PROVE  [Lease!Next]_Lease!vars
<1>1. UNCHANGED <<mode, application, result>> /\ (transport' = "done" <=> transport = "done")
  BY DEF ResolveIdentity, Cancel, KernelRemoves, ServerEndsEarly
<1>2. UNCHANGED working
  BY <1>1 DEF working
<1>3. CASE ResolveIdentity
  <2>1. "application" \in working
    BY <1>3 DEF ResolveIdentity, working
  <2>2. Lease!GetReady
    BY <1>1, <1>2, <1>3, <2>1 DEF ResolveIdentity, Lease!GetReady, working, windows
  <2>3. QED BY <2>2 DEF Lease!Next
<1>4. CASE Cancel \/ (ServerEndsEarly /\ ~cancelled)
  <2>1. Lease!Stop
    BY <1>1, <1>2, <1>4 DEF Cancel, ServerEndsEarly, Lease!Stop, working, windows
  <2>2. QED BY <2>1 DEF Lease!Next
<1>5. CASE ServerEndsEarly /\ cancelled
  BY <1>1, <1>5, UnseenStep DEF ServerEndsEarly, AttachInv, TypeOK
<1>6. CASE KernelRemoves
  <2>1. Lease!Vanish
    BY <1>1, <1>2, <1>6 DEF KernelRemoves, Lease!Vanish, working, windows
  <2>2. QED BY <2>1 DEF Lease!Next
<1>7. QED BY <1>3, <1>4, <1>5, <1>6

LEMMA ThreadStep ==
  ASSUME AttachInv, Worker \/ UsbipDriver
  PROVE  [Lease!Next]_Lease!vars
<1> USE DEF Worker, UsbipDriver
<1>1. CASE DriverImports
  BY <1>1, AppearStep DEF Lease!Next
<1>2. CASE Unplug /\ device' # device
  <2>1. device = "present" /\ device' = "removed" /\ cancelled
    BY <1>2 DEF Unplug
  <2>2. result = "none"
    BY <1>2, RunIsOver DEF Unplug
  <2>3. QED BY <2>1, <2>2, RemoveStep DEF Lease!Next
<1>3. CASE device' = device
  BY <1>3, UnseenStep
<1>4. device' = device \/ DriverImports \/ Unplug
  BY DEF WorkerSteps, DriverSteps, Open, CancelRequest, TakeImport, TakeFailure, DriverRefuses,
     DriverConnects
<1>5. QED BY <1>1, <1>2, <1>3, <1>4

LEMMA DetachStep ==
  ASSUME AttachInv, Detach
  PROVE  [Lease!Next]_Lease!vars
<1>1. /\ UNCHANGED <<mode, cancelled, identity, transport, application, result>>
      /\ Drained /\ result = "none"
  BY RunIsOver DEF Detach
<1>2. device' = device \/ (device = "present" /\ device' = "removed")
  BY DetachPortType DEF Detach, AttachInv
<1>3. CASE device' = device
  BY <1>1, <1>3, UnseenStep
<1>4. CASE device' # device
  BY <1>1, <1>2, <1>4, RemoveStep DEF Lease!Next
<1>5. QED BY <1>3, <1>4

\* Attachment::run implements DeviceLease: one device at most, made once the
\* identity is known and while the transport runs, removed once both futures have
\* ended or, on Windows, once the bridge stops, and gone for good before the run
\* returns.
THEOREM AttachmentImplementsLease == Spec => LeaseSpec
<1>1. Init => Lease!Init
  BY DEF Init, WorkerInit, Lease!Init, windows
<1>2. AttachInv /\ [Next]_vars => [Lease!Next]_Lease!vars
  <2> SUFFICES ASSUME AttachInv, [Next]_vars PROVE [Lease!Next]_Lease!vars
    OBVIOUS
  <2>1. CASE StopWaiting \/ AttachLinuxFails \/ AttachWindowsFails \/ LateAttachEnds
             \/ ServerEnds \/ ApplicationEnds
    BY <2>1, FinishStep DEF Lease!Next
  <2>2. CASE AttachLinux
    BY <2>2, AppearStep DEF Lease!Next
  <2>3. CASE Return
    BY <2>3, ReturnStep DEF Lease!Next
  <2>4. CASE Worker \/ UsbipDriver
    BY <2>4, ThreadStep
  <2>5. CASE Detach
    BY <2>5, DetachStep
  <2>6. CASE ResolveIdentity \/ Cancel \/ KernelRemoves \/ ServerEndsEarly
    BY <2>6, ChannelStep
  <2>7. CASE StartAttach \/ PortBusy \/ AttachWindows
    <3>1. /\ UNCHANGED <<device, mode, cancelled, identity, application, result>>
          /\ transport # "done" /\ transport' # "done"
      BY <2>7 DEF StartAttach, PortBusy, AttachWindows
    <3>2. QED BY <3>1, UnseenStep
  <2>8. CASE ServeClients \/ Hosts \/ OtherDevice \/ UNCHANGED vars
    <3>1. UNCHANGED <<device, mode, cancelled, identity, transport, application, result>>
      BY <2>8 DEF ServeClients, Hosts, OtherDevice, vars
    <3>2. QED BY <3>1, UnseenStep
  <2>9. QED BY <2>1, <2>2, <2>3, <2>4, <2>5, <2>6, <2>7, <2>8 DEF Next, Attach
<1>3. QED BY <1>1, <1>2, AttachInvariant, PTL DEF Spec, LeaseSpec, Lease!Spec

\* What a host sees, from the promise alone: a device appears at most once, for the
\* identity of a controller and while somebody serves it, it goes at most once, and
\* neither happens after the run has returned.
THEOREM DeviceAppearsOnce ==
  Spec => [][\/ /\ device = "absent" /\ device' = "present"
                /\ identity /\ transport # "done"
             \/ /\ device = "present" /\ device' \in {"removed", "gone"}
                /\ result = "none"]_device
<1>1. [Lease!Next]_Lease!vars
        => [\/ /\ device = "absent" /\ device' = "present"
               /\ identity /\ transport # "done"
            \/ /\ device = "present" /\ device' \in {"removed", "gone"}
               /\ result = "none"]_device
  <2>1. "transport" \in working => transport # "done"
    BY DEF working
  <2>2. QED
    BY <2>1 DEF Lease!Next, Lease!vars, Lease!GetReady, Lease!Stop, Lease!Appear, Lease!Vanish,
       Lease!Remove, Lease!End, Lease!Finish, working
<1>2. QED BY <1>1, AttachmentImplementsLease, PTL DEF LeaseSpec, Lease!Spec
=============================================================================
