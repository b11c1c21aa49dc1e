----------------------------- MODULE UsbipWorker -----------------------------
(***************************************************************************)
(* The thread that attaches the device on Windows (Attached::attach and    *)
(* ioctl of usb/usbip_win.rs) and the usbip-win2 driver.                   *)
(*                                                                         *)
(* The thread opens the driver, asks it to import the device, once with    *)
(* each request size the driver might expect, tells the attach what became *)
(* of it, holds the device until its stop token is set, and unplugs it.    *)
(* The stop token is a child of the application's cancellation token: it   *)
(* is set with that token, or later when the lease is detached, which      *)
(* happens only after a cancellation.                                      *)
(*                                                                         *)
(* The driver imports over the network: it connects to the bridge's own    *)
(* server, which must answer meanwhile.  A request that is cancelled ends  *)
(* when the driver says so, and may have been completed.                   *)
(***************************************************************************)
EXTENDS UsbServer

CONSTANTS Driver,    \* the client that is the driver's connection
          Sizes      \* number of request sizes that are tried (Abi::SUPPORTED)

ASSUME SizesAssumption == Sizes \in Nat \ {0}

VARIABLES
  worker,   \* "none", "opening" the driver, "asking" for an import, "cancelling"
            \* that request, "holding" the device, "ended"
  sizes,    \* request sizes left, the one in use included
  answer,   \* to the request: "none", "imported", "unreadable" (imported, but the
            \* answer names no port), "size", "error", "aborted"
  told,     \* the ready channel: "none", "ok", "error"
  removal,  \* result of the thread: "none", "ok", "error" (unplugging failed)
  device    \* "absent", "present", "removed" by the bridge, or "gone": removed by the
            \* kernel or the driver

workerVars == <<worker, sizes, answer, told, removal>>

WorkerInit ==
  /\ worker = "none" /\ sizes = Sizes /\ answer = "none"
  /\ told = "none" /\ removal = "none" /\ device = "absent"

StartWorker == worker = "none" /\ worker' = "opening"
               /\ UNCHANGED <<sizes, answer, told, removal>>

\* Nothing was imported, or nobody knows where: the thread returns.
GivesUp == worker' = "ended" /\ told' = "error" /\ removal' = "ok"

\* A cancelled thread asks for nothing; the driver may be missing.
Open ==
  /\ worker = "opening"
  /\ \/ GivesUp
     \/ ~cancelled /\ worker' = "asking" /\ UNCHANGED <<told, removal>>
  /\ UNCHANGED <<sizes, answer, device, clients>>

\* ioctl polls its event every 50 ms and looks at the token when it is not set.
CancelRequest ==
  /\ worker = "asking" /\ answer = "none" /\ cancelled
  /\ worker' = "cancelling"
  /\ UNCHANGED <<sizes, answer, told, removal, device, clients>>

\* Fault: a completion after the cancellation is not looked at.
TakeImportUncancelled ==
  /\ answer = "imported"
  /\ IF worker = "asking" THEN worker' = "holding" /\ told' = "ok" /\ UNCHANGED removal
                          ELSE GivesUp
  /\ UNCHANGED <<sizes, answer, device, clients>>

\* Also a request that was being cancelled may have been completed.
TakeImport ==
  /\ answer = "imported" /\ worker \in {"asking", "cancelling"}
  /\ worker' = "holding" /\ told' = "ok"
  /\ UNCHANGED <<sizes, answer, removal, device, clients>>

\* Only a size the driver rejected - it says so before it imports anything - is
\* followed by another request.
TakeFailure ==
  /\ answer \in {"unreadable", "size", "error", "aborted"} /\ worker # "ended"
  /\ \/ /\ answer = "size" /\ sizes > 1 /\ ~cancelled
        /\ worker' = "asking" /\ answer' = "none" /\ sizes' = sizes - 1
        /\ UNCHANGED <<told, removal>>
     \/ ~(answer = "size" /\ sizes > 1 /\ ~cancelled) /\ GivesUp /\ UNCHANGED <<answer, sizes>>
  /\ UNCHANGED <<device, clients>>

\* detach_port, with a token of its own that nothing cancels.  Unplugging a device
\* that went away by itself may succeed or fail.
Unplug ==
  /\ worker = "holding" /\ cancelled
  /\ worker' = "ended"
  /\ \/ removal' = "ok" /\ device' = (IF device = "present" THEN "removed" ELSE device)
     \/ removal' = "error" /\ UNCHANGED device
  /\ UNCHANGED <<sizes, answer, told, clients>>

WorkerSteps == Open \/ CancelRequest \/ TakeImport \/ TakeFailure \/ Unplug

-----------------------------------------------------------------------------
(* The driver. *)

Asked == worker \in {"asking", "cancelling"} /\ answer = "none"
Answers(a) == answer' = a /\ UNCHANGED <<worker, sizes, told, removal>>

\* A wrong size and most errors come before it connects, a connection that is
\* lost is an error, and a cancelled request may just end.
DriverRefuses ==
  /\ Asked
  /\ \/ clients[Driver] = "none" /\ Answers("size")
     \/ clients[Driver] \in {"none", "closed"} /\ Answers("error")
     \/ worker = "cancelling" /\ Answers("aborted")
  /\ UNCHANGED <<device, clients>>

\* It connects for each request it takes, ...
DriverConnects ==
  /\ Asked
  /\ Connect(Driver) \/ Request(Driver, "importing")
  /\ UNCHANGED <<workerVars, device>>

\* ... and once the import is answered the device is there.
DriverImports ==
  /\ Asked /\ clients[Driver] = "urbs" /\ device = "absent"
  /\ device' = "present"
  /\ Answers("imported") \/ Answers("unreadable")
  /\ UNCHANGED clients

DriverSteps == DriverRefuses \/ DriverConnects \/ DriverImports

-----------------------------------------------------------------------------
WorkerTypeOK ==
  /\ worker \in {"none", "opening", "asking", "cancelling", "holding", "ended"}
  /\ sizes \in 1..Sizes
  /\ answer \in {"none", "imported", "unreadable", "size", "error", "aborted"}
  /\ told \in {"none", "ok", "error"} /\ removal \in {"none", "ok", "error"}
  /\ device \in {"absent", "present", "removed", "gone"}
  /\ clients \in [Clients -> Accepted \cup {"none", "queued", "closed"}]

\* Somebody removes the device the driver made: the thread, until it has tried.
\* Nobody can when the driver's answer does not say which device it is.
Held == worker \in {"asking", "cancelling", "holding"}
Unknown == answer = "unreadable"
==============================================================================
