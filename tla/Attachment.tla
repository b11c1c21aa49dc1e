----------------------------- MODULE Attachment -----------------------------
(***************************************************************************)
(* The lifetime of the virtual USB device: run_attached and                *)
(* wait_for_identity (usb/attachment.rs) with the native adapters of Linux *)
(* (usb/vhci.rs) and of Windows (usb/usbip_win.rs).                        *)
(*                                                                         *)
(* Two futures are joined: the transport, which waits for the identity of  *)
(* the controller, attaches and serves the host, and the drain, which is   *)
(* the rest of the application.  Either of them ending cancels the other;  *)
(* when both have ended the lease is released and the errors are reported. *)
(*                                                                         *)
(* On Linux the device is attached to a free port and its lease made in    *)
(* one step.  On Windows a worker thread attaches and removes it, module   *)
(* UsbipWorker, while the server, module UsbServer, already runs.  Without *)
(* attachment the transport is the server alone.                           *)
(* Abstracted: what the application does, and on Linux the kind of stream  *)
(* and the parsing of the driver's files.                                  *)
(***************************************************************************)
EXTENDS UsbipWorker

CONSTANT MaxPorts    \* bound: free ports of the Linux driver

ASSUME PortsAssumption == MaxPorts \in Nat

VARIABLES
  mode,        \* "linux", "windows", or "manual": no device is attached, a host
               \* connects by itself; it never changes
  identity,    \* the identity channel holds Resolved
  transport,   \* "identity", "attaching", "late" (the server ended while
               \* attaching), "serving", "done"
  served,      \* result of the transport: "none", "ok", "transport", "attach"
  application, \* "running" or "done"
  drained,     \* its result: "none", "ok", "application"
  ports,       \* free ports still to be tried
  lease,       \* "none", "held", "released"
  other,       \* device of somebody else on our port after ours is gone: "none",
               \* "enumerating", "used", or "twin", whose socket has the number and
               \* whose device has the id of ours
  harmed,      \* history: the bridge detached that device
  detached,    \* result of the detach: "none", "ok", "attach"
  early,       \* server_ended_during_attach
  result       \* of run_attached: "none" until it returns

windows == mode = "windows"

port == <<ports, other, harmed>>
thread == <<workerVars, clients>>
native == <<device, lease, detached, port, thread>>
serving == <<transport, served, early>>
drain == <<application, drained>>
vars == <<mode, identity, cancelled, serving, drain, native, result>>

Init ==
  /\ mode \in {"linux", "windows", "manual"}
  /\ identity = FALSE /\ cancelled = FALSE
  /\ transport = (IF mode = "manual" THEN "serving" ELSE "identity")
  /\ served = "none" /\ early = FALSE
  /\ application = "running" /\ drained = "none"
  /\ lease = "none" /\ detached = "none"
  /\ ports = 0 /\ other = "none" /\ harmed = FALSE
  /\ result = "none"
  /\ ServerInit /\ WorkerInit

-----------------------------------------------------------------------------
(* The transport future.  It always ends with a cancellation. *)

TransportEnds(r) == transport' = "done" /\ served' = r /\ cancelled' = TRUE

\* Cancellation counts first, even when the identity is ready.
StopWaiting ==
  /\ transport = "identity" /\ cancelled
  /\ TransportEnds("ok")
  /\ UNCHANGED <<mode, identity, drain, native, early, result>>

\* Linux reads the list of free ports, Windows starts the worker.
StartAttach ==
  /\ transport = "identity" /\ identity /\ ~cancelled
  /\ transport' = "attaching"
  /\ \/ windows /\ StartWorker /\ UNCHANGED ports
     \/ ~windows /\ ports' \in 0..MaxPorts /\ UNCHANGED workerVars
  /\ UNCHANGED <<mode, identity, cancelled, served, early, drain, device, lease, other,
                 harmed, detached, clients, result>>

\* Another program took the port since the list was read.
PortBusy ==
  /\ ~windows /\ transport = "attaching" /\ ports > 0
  /\ ports' = ports - 1
  /\ UNCHANGED <<mode, identity, cancelled, serving, drain, device, lease, other, harmed,
                 detached, thread, result>>

\* vhci::Attached::attach; it does not look at the token.
AttachLinux ==
  /\ ~windows /\ transport = "attaching" /\ ports > 0
  /\ device' = "present" /\ lease' = "held"
  /\ transport' = "serving"
  /\ UNCHANGED <<mode, identity, cancelled, served, early, drain, port, detached, thread,
                 result>>

\* No port is left, or one cannot be attached to; a stream that cannot be used
\* drops the lease again.
AttachLinuxFails ==
  /\ ~windows /\ transport = "attaching"
  /\ TransportEnds("attach")
  /\ UNCHANGED <<mode, identity, drain, native, early, result>>

\* usbip_win::Attached::attach hands a lease over unless cancelled.
AttachWindows ==
  /\ windows /\ transport = "attaching" /\ told = "ok" /\ ~cancelled
  /\ lease' = "held"
  /\ transport' = "serving"
  /\ UNCHANGED <<mode, identity, cancelled, served, early, drain, device, port, detached,
                 thread, result>>

\* Otherwise it joins the worker.  It fails with the error of the removal, if there
\* is one, as cancelled if it was, and else with the error of the worker.  The
\* server that ran meanwhile is dropped.
AttachWindowsFails ==
  /\ windows /\ transport = "attaching" /\ worker = "ended"
  /\ told = "ok" => cancelled
  /\ TransportEnds(IF removal = "error" \/ ~cancelled THEN "attach" ELSE "ok")
  /\ StopClients
  /\ UNCHANGED <<mode, identity, drain, device, lease, detached, port, workerVars, early,
                 result>>

-----------------------------------------------------------------------------
(* The server: on Windows it runs from the start of the attach on. *)

\* Fault: as on Linux, it starts with the attached device.
ServerRunsAttached == transport = "serving" /\ mode # "linux"

ServerRuns == transport \in {"attaching", "serving"} /\ mode # "linux"

ServeClients ==
  /\ ServerRuns
  /\ \E c \in Clients : Accept(c) \/ Reply(c) \/ ClientStops(c)
  /\ UNCHANGED <<mode, identity, cancelled, serving, drain, device, lease, detached, port,
                 workerVars, result>>

\* Other hosts connect too; the driver only when it is asked.
Hosts ==
  /\ mode # "linux"
  /\ \/ \E c \in Clients : windows /\ c = Driver /\ ClientFails(c)
     \/ \E c \in Clients :
          /\ windows => c # Driver
          /\ Connect(c) \/ ClientFails(c) \/ \E what \in Asks : Request(c, what)
  /\ UNCHANGED <<mode, identity, cancelled, serving, drain, device, lease, detached, port,
                 workerVars, result>>

\* The Windows server is already running: it ends by cancellation or an error.
ServerEndsEarly ==
  /\ windows /\ transport = "attaching"
  /\ \/ cancelled /\ served' = "ok"
     \/ served' = "transport"
  /\ cancelled' = TRUE /\ early' = TRUE
  /\ transport' = "late"
  /\ StopClients
  /\ UNCHANGED <<mode, identity, drain, device, lease, detached, port, workerVars, result>>

\* attach is awaited, but it cannot succeed any more; its error is dropped.
LateAttachEnds ==
  /\ transport = "late" /\ worker = "ended"
  /\ TransportEnds(served)
  /\ UNCHANGED <<mode, identity, drain, native, early, result>>

\* By cancellation, or by an error: of the stream on Linux, of accept elsewhere.
ServerEnds ==
  /\ transport = "serving"
  /\ \/ cancelled /\ TransportEnds("ok")
     \/ TransportEnds("transport")
  /\ StopClients
  /\ UNCHANGED <<mode, identity, drain, device, lease, detached, port, workerVars, early,
                 result>>

-----------------------------------------------------------------------------
(* The drain future, the release of the lease and the result. *)

ApplicationEnds ==
  /\ application = "running"
  /\ application' = "done" /\ drained' \in {"ok", "application"}
  /\ cancelled' = TRUE
  /\ UNCHANGED <<mode, identity, serving, native, result>>

\* Fault: the lease is released when the transport has ended.
DrainedTransport == transport = "done"

Drained == transport = "done" /\ application = "done"

\* vhci::Attached::detach looks at the port of the lease.  A used port must show
\* our device, by its id and the number of its socket; one that enumerates hides
\* whose device it is and is detached; any other is left alone.
Ours == {"enumerating", "twin"}
DetachPort ==
  \/ device = "present" /\ device' = "removed" /\ UNCHANGED port
  \/ device = "gone" /\ other \in Ours
     /\ other' = "none" /\ harmed' = TRUE /\ UNCHANGED <<device, ports>>
  \/ device = "gone" /\ other \notin Ours /\ UNCHANGED <<device, port>>

\* Linux: reading or writing the driver's files may fail, and the lease counts
\* as attached then.  Windows joins the worker.
Detach ==
  /\ Drained /\ lease = "held" /\ detached = "none"
  /\ \/ ~windows /\ DetachPort /\ lease' = "released" /\ detached' = "ok"
     \/ ~windows /\ UNCHANGED <<device, port, lease>> /\ detached' = "attach"
     \/ /\ windows /\ worker = "ended"
        /\ lease' = "released"
        /\ detached' = IF removal = "error" THEN "attach" ELSE "ok"
        /\ UNCHANGED <<device, port>>
  /\ UNCHANGED <<mode, identity, cancelled, serving, drain, thread, result>>

\* Fault: a failed detach is not reported.
ErrorsOfWork == <<served, drained, "ok">>

\* The first error, in the order of the question marks at the end.
Errors == IF early THEN <<detached, served, drained>>
          ELSE IF windows THEN <<served, detached, drained>>
          ELSE <<served, drained, detached>>
First == LET failed == {i \in 1..3 : Errors[i] \notin {"none", "ok"}}
         IN IF failed = {} THEN "ok"
            ELSE Errors[CHOOSE i \in failed : \A j \in failed : i <= j]

\* The lease is dropped, and a Linux lease still attached tries once more.
Return ==
  /\ Drained /\ (lease = "held" => detached # "none") /\ result = "none"
  /\ result' = First
  /\ \/ lease = "held" /\ DetachPort
     \/ UNCHANGED <<device, port>>
  /\ lease' = IF lease = "held" THEN "released" ELSE lease
  /\ UNCHANGED <<mode, identity, cancelled, serving, drain, detached, thread>>

-----------------------------------------------------------------------------
(* The rest of the application, and the kernel. *)

ResolveIdentity ==
  /\ ~identity /\ application = "running" /\ identity' = TRUE
  /\ UNCHANGED <<mode, cancelled, serving, drain, native, result>>

Cancel ==
  /\ ~cancelled /\ cancelled' = TRUE
  /\ UNCHANGED <<mode, identity, serving, drain, native, result>>

\* The Linux driver removes the device for any reason, the one of Windows when its
\* connection is closed; nobody tells the bridge there.
KernelRemoves ==
  /\ device = "present" /\ result = "none"
  /\ windows => clients[Driver] = "closed"
  /\ device' = "gone"
  /\ UNCHANGED <<mode, identity, cancelled, serving, drain, lease, port, detached, thread,
                 result>>

\* Another program uses the port our device was removed from.
Later == [none |-> {"enumerating"}, enumerating |-> {"used", "twin"}, used |-> {"none"},
          twin |-> {"none"}]
OtherDevice ==
  /\ ~windows /\ device = "gone" /\ result = "none"
  /\ other' \in Later[other]
  /\ UNCHANGED <<mode, identity, cancelled, serving, drain, device, lease, ports, harmed,
                 detached, thread, result>>

outside == <<mode, identity, cancelled, serving, drain, lease, port, detached, result>>

Worker == windows /\ WorkerSteps /\ UNCHANGED outside
UsbipDriver == windows /\ DriverSteps /\ UNCHANGED outside

Attach == \/ StopWaiting \/ StartAttach \/ PortBusy \/ AttachLinux \/ AttachLinuxFails
          \/ AttachWindows \/ AttachWindowsFails

Next ==
  \/ Attach \/ Worker \/ UsbipDriver \/ ServeClients \/ Hosts
  \/ ServerEndsEarly \/ LateAttachEnds \/ ServerEnds
  \/ ApplicationEnds \/ Detach \/ Return
  \/ ResolveIdentity \/ Cancel \/ KernelRemoves \/ OtherDevice

Spec == Init /\ [][Next]_vars

\* The executor and the operating system run the futures and the thread, the
\* driver goes on with a request, a server ends and the application drains once
\* they are cancelled.  Nothing makes another host read, ask or close.
FairSpec ==
  /\ Spec
  /\ WF_vars(Attach) /\ WF_vars(Worker) /\ WF_vars(UsbipDriver) /\ WF_vars(LateAttachEnds)
  /\ WF_vars(ServerRuns /\ (Accept(Driver) \/ Reply(Driver)) /\ ServeClients)
  /\ WF_vars(cancelled /\ ServerEnds) /\ WF_vars(cancelled /\ ApplicationEnds)
  /\ WF_vars(Detach) /\ WF_vars(Return)

-----------------------------------------------------------------------------
TypeOK ==
  /\ mode \in {"linux", "windows", "manual"} /\ identity \in BOOLEAN
  /\ cancelled \in BOOLEAN /\ early \in BOOLEAN
  /\ transport \in {"identity", "attaching", "late", "serving", "done"}
  /\ served \in {"none", "ok", "transport", "attach"}
  /\ application \in {"running", "done"} /\ drained \in {"none", "ok", "application"}
  /\ WorkerTypeOK
  /\ lease \in {"none", "held", "released"} /\ ports \in 0..MaxPorts
  /\ other \in DOMAIN Later /\ harmed \in BOOLEAN
  /\ detached \in {"none", "ok", "attach"}
  /\ result \in {"none", "ok", "transport", "attach", "application"}

\* Every device a host still sees has somebody to remove it: a lease, or on
\* Windows the worker, whom the attach may not have handed over yet; or removing
\* it failed; or the driver did not say which device it made.
DeviceIsOwned ==
  /\ TypeOK
  /\ device = "present" => \/ lease = "held" \/ (windows /\ Held)
                           \/ removal = "error" \/ detached = "attach" \/ Unknown

\* No client is served once the transport has ended, so no host drives the
\* controller of an application that is draining or has ended.
NobodyServedAfter ==
  transport \in {"late", "done"} => \A c \in Clients : clients[c] \notin Accepted

\* A run that reports success left no device behind and hides no failure, and no
\* run that ends, or waits for the application only, leaves a client served.  Two
\* exceptions, when the code drops the error: a removal that failed after the
\* Windows server ended while attaching, and an unreadable answer of the driver
\* to an attach that was cancelled.
SuccessIsClean ==
  /\ NobodyServedAfter
  /\ result = "ok" => /\ device # "present" \/ early \/ Unknown
                      /\ served = "ok" /\ drained = "ok" /\ detached # "attach"

\* "Cancel and drain application work before releasing the native lease" (run).
DrainedBeforeRemoval ==
  [][lease = "held" /\ device = "present" /\ device' = "removed"
       => transport = "done" /\ application = "done"]_vars

\* "The kernel or another manager released/replaced this lease.  Do not touch
\* it." (vhci.rs)
OthersUntouched == ~harmed

\* The device seen from outside: the code implements DeviceLease, on Windows with
\* its `eager` removal.
Lease == INSTANCE DeviceLease WITH
  eager <- windows, stopping <- cancelled,
  ready <- identity,
  working <- (IF transport = "done" THEN {} ELSE {"transport"})
             \cup (IF application = "done" THEN {} ELSE {"application"}),
  ended <- result # "none"
LeaseSpec == Lease!Spec

\* A cancelled run returns, and the end of either future cancels; also when a host
\* stopped reading its reply.
CancelEnds == cancelled ~> result # "none"

\* An attach comes to an end: the driver's import needs the answers of the server,
\* which runs beside the attach.
AttachEnds == transport = "attaching" ~> transport # "attaching"
==============================================================================
