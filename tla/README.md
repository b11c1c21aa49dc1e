# Verification of ns2pro-ble-bridge

The bridge makes a Switch 2 Pro Controller, connected over Bluetooth LE, appear
as a USB controller of the host.  It has a Bluetooth side that finds, pairs and
runs a controller, a USB side that answers the URBs of the host over USB/IP, and
watch channels between them.  This directory holds TLA+ models of its concurrent
parts, the TLC runs that check them, and proofs of their safety that TLAPS checks.

Paths below are relative to `src/crates/`: `bridge/` is `ns2pro-bridge/src/`,
`usb/` is `ns2pro-usb/src/`, `proto/` is `ns2pro-proto/src/`.

## 1. Inventory

| Component | State | Operations | Talks to |
| --- | --- | --- | --- |
| URB engine (`usb/engine.rs`) | sample, dirty flag, pending URBs, time of the last report | `submit`, `unlink`, `on_sample`, `on_keepalive_due`, each ending in `drain` | device model (calls), session loop (effects) |
| Device model (`usb/device.rs`) | queue of vendor responses, feature mask, report kind | `control`, `interrupt_out`, `bulk_out`, `read_bulk_in` | engine |
| USB/IP session (`bridge/usb/session.rs`) | engine, effects, partial frame | biased select, write, statistics, outputs | host (socket), channels, cancellation token |
| USB/IP server (`bridge/usb/server.rs`) | set of client tasks | accept, import, serve, abort | sessions |
| Attachment (`bridge/usb/attachment.rs`) | lease, two joined futures, errors | wait for identity, attach, serve, detach | adapters, server, application |
| Adapters (`bridge/usb/vhci.rs`, `bridge/usb/usbip_win.rs`) | lease; on Windows a worker thread and its token | attach, detach, drop | kernel drivers |
| Supervisor (`bridge/session.rs`) | `paired`, failures, outcome of an attempt | `attempt`, backoff, cancellation | cache, Bluetooth, controller |
| Controller (`bridge/controller.rs`) | link, response queue, pacing of rumble | set-up, `pair`, `run`, `disconnect` | link, channels |
| Cache (`bridge/cache.rs`) | one JSON file | `select`, `save`, `forget`, `settle` | supervisor, file system |
| Channels (`bridge/channels.rs`) | last input, LEDs, rumble, identity; statistics | `output`, `neutral`, subscriptions | everyone |
| Application (`bridge/app.rs`) | root cancellation token | `run_session`, shutdown | everyone |
| ATT link (`bridge/ble/linux/att_link.rs`) | transaction lock, pending reply, sinks, closed token, reader task | `transact`, `subscribe`, `write`, `close` | packet socket, controller |
| GATT discovery (`proto/att.rs`) | stage, services, declarations | `on_response`, `finish` | `AttLink::open` |
| Scan (`bridge/ble/linux/mod.rs`, `mgmt.rs`) | shutdown token, tracked scan workers | `discover`, `scan_with`, `close` | kernel management socket |
| LE interval (`bridge/ble/linux/interval.rs`) | connection epoch | `request`, `observe` | HCI socket |
| WinRT backend (`bridge/ble/windows.rs`) | watcher, resources, subscriptions with their sinks, closed token | `scan`, `connect`, `subscribe`, `write`, `close`, callbacks | Windows |
| Statistics (`bridge/stats.rs`) | counters, ring of latencies, report | `receipt`, `completion`, `log` | input callback, session |
| Codecs (`proto/`, `usb/usbip.rs`) | none, except the pairing stages | parse, encode | everyone |

What is hard here, and what correctness means:

* **Removing while iterating.**  `drain` removes URBs from the queue it walks,
  for two endpoints with different conditions.  Each URB must have exactly one
  fate, none may be left waiting for something that is already there, and the
  order of an endpoint must be kept.
* **Ordering of effects.**  A reply is written before the output it acknowledges
  acts on the controller; a session can be cancelled at any await in between.
* **Threads.**  WinRT callbacks run on threads of their own and can be in flight
  while the link is torn down; the Windows attach worker shares the
  application's cancellation.
* **Untagged replies.**  ATT replies and controller responses carry no request
  number; timeouts and dropped futures must not let a late reply be taken for
  another's.
* **Ownership outside the process.**  A discovery of the adapter, a virtual
  device on a port, a cache file: each must be released by the one who acquired
  it, and only by him, whatever fails or is cancelled.
* **An untrusted peer.**  The handles of a discovery come from the controller:
  they must stay within their services, and no peer may keep the discovery busy.
* **Waiting on oneself.**  The Windows driver imports the device from the bridge's
  own server while the bridge waits for the import.
* **Crashes.**  Only the cache file and the pairing survive.

`PROJECT.json` lists the hazards at their lines with the properties that
address them.

## 2. Modules

| Module | Models | Runs | Proofs |
| --- | --- | --- | --- |
| `UrbEngine` | `usb/engine.rs`, response queue of `usb/device.rs` | `urb_engine` | `UsbSessionProofs` |
| `UsbSession` (extends `UrbEngine`) | `bridge/usb/session.rs` | `usb_session` | `UsbSessionProofs` |
| `Session` | `bridge/session.rs`, `controller.rs`, `cache.rs`, `channels.rs` | `session`, `session_forget` | `SessionProofs` |
| `Controller` | `bridge/controller.rs`: commands and output tasks; `proto/command.rs`, `proto/pairing.rs` | `controller` | `ControllerProofs` |
| `Discovery` | the discovery of `proto/att.rs` | (in `att_link`) | `AttLinkProofs` |
| `AttLink` (extends `Discovery`) | `bridge/ble/linux/att_link.rs` | `att_link` | `AttLinkProofs` |
| `DeviceLease` | the promise of `Attachment::run` | (as a property) | `AttachmentProofs` |
| `UsbServer` | `bridge/usb/server.rs` | (in `attachment`) | (in `AttachmentProofs`) |
| `UsbipWorker` (extends `UsbServer`) | the attach thread of `bridge/usb/usbip_win.rs`, the driver | (in `attachment`) | (in `AttachmentProofs`) |
| `Attachment` (extends `UsbipWorker`) | `bridge/usb/attachment.rs`, `vhci.rs`, `usbip_win.rs` | `attachment`, `attachment_drain`, `attachment_port` | `AttachmentProofs` |
| `Scan` | `bridge/ble/linux/mod.rs`, `mgmt.rs` | `scan` | `ScanProofs` |
| `Interval` | `bridge/ble/linux/interval.rs`, events of `proto/hci.rs` | `interval` | `IntervalProofs` |
| `WinLink` | `bridge/ble/windows.rs` | `win_link` | `WinLinkProofs` |

The proofs about a module and the one that extends it are in one module.  Each `MC`
module is an instance for TLC.  Operators whose comment begins with "Fault" are not
part of a model: each is a variant of the definition below it that makes a
plausible mistake, kept to show that a property notices it.

**UrbEngine.**  One action per branch of `submit` (`SubmitInterruptIn`,
`SubmitBulkIn`, `RefuseIn`, `AnswerBulkIn`, `SubmitBulkOut`, `SubmitOther`),
`Unlink`, `OnSample`, `OnKeepaliveDue`.  A handler that ends in `drain` sets
`cursor` to 1, and each iteration of the loop is a step (`DrainInterruptIn`,
`DrainBulkIn`, `DrainSkip`, `DrainEnd`); no other handler runs while `cursor` is
not 0, as in the code, which is single-threaded there.  So the loop is modelled
as it is written, not by what it should compute.  A response is an interval of
the stream of all response bytes, so that a lost, repeated or reordered part
shows.  Time is counted in ticks up to the keepalive period, which is all that
`drain` compares.  `answers`, `unlinked`, `shown`, `received` and a few more
record what the host saw.

**UsbSession.**  The rounds of `serve_urbs`: select, handle, write, settle.  The
guard `published = sample` on the frame, error and timer branches is the
biased order of the select.  (The code compares versions of the channel; the
model numbers samples, and a session begins with the current one.)  Its actions are
those of `UrbEngine` with the rounds around them, so the invariant of the engine
holds of every connection.

**Session.**  The phases of `supervise` and `attempt`, with one action per step
between two awaits where a callback thread, a failure, a cancellation or a
crash can come between.  `Notify` is the input callback and checks the token of
its own link under the channel's lock; `Restart` is the end of the process and a
new start with any options.

**Controller.**  The commands of the setup in their order, then `run` with its LED
task (a caller of `command`) and its rumble task.  `command` empties the channel
of responses, writes and waits; the controller answers each command at most once,
late or never and in any order.  The two failures the setup survives (a block of
the calibration, the identity) are what lets a late response meet another
command.  A `watch` receiver is the version mark `ledsSeen` or `rumbleSeen`.
A vibration goes into `air` when its write begins; the write completes
(`RumbleWritten`) when the link has taken it, which on Linux only means that the
socket buffered it, and the controller receives it (`Arrive`) in a step of its own,
at any time after that beginning.  So what arrives is not paced, only what is handed
over.
`Session` has the same setup as a few steps, since there only its outcome matters.

**Discovery.**  `on_response` by stage: the MTU, services, characteristics of each
service, descriptors of each characteristic that notifies.  `stage` is the request
that is next, with its position and first handle.  A response is any sequence of
entries that the order and range checks of the code accept; the additions and
subtractions of handles saturate or wrap where those of the code do.  `Finished` is
what `finish` demands.

**AttLink.**  `open` makes transactions one after the other until the discovery is
done, then `subscribe` makes them concurrently.  `transact` step by step: the fair
lock, the pending sender, the send (the request leaves), the reply, the timeout and
the guard that closes the link when a call fails or its future is dropped.  The
reader task and `close` run concurrently.  The peer answers late or never, and the
discovery gets whatever content it likes.  `subscribe` registers its sink before
its request; a notification that is read without one is recorded in `missed`.

**UsbServer, UsbipWorker, Attachment, DeviceLease.**  `Attachment` has the transport
future, the application ("drain") future, the lease and the order of errors.
`mode` chooses the adapter: one step that attaches and makes a lease, among ports
that others may take first (Linux); a thread that opens the driver, asks it for an
import with each request size, tells the attach and holds the device until its
token is set (Windows, `UsbipWorker`); or a server alone (manual).  `UsbServer` has
the clients of the TCP server: each is accepted, asks, is answered and served, and
may fail anywhere; on Windows one of them is the driver, whose import must be
answered by the server that runs beside the attach.  `DeviceLease` is the device
seen from outside; `LeaseSpec` states that the code implements it, on Windows in
the weaker form (`eager`) in which the device may go as soon as the bridge stops.

**Scan.**  A caller that can be dropped, and the worker that must finish START and
STOP; the kernel carries out commands when it likes; other programs use the same
discovery.  The discovery the bridge started may end without its STOP at any time
(`DiscoveryEnds`: the kernel ends one after its own period, another program stops
it), which `scan_with` does not notice, and another program may then start one.
`lost` records that this happened to the current scan.

**Interval.**  `link` is who has the connection handle of the ATT socket, before,
during and after our connection; `queue` is what the HCI observer has not read.
The kernel queues the end of a connection before its socket shows it (`Notice`),
so neither the events nor the socket alone tell enough.  Drain, both checks, the
command and each reception are steps of their own.

**WinLink.**  One runtime thread runs `scan`, `connect` (four awaits) and the calls
of the link, each of which can be dropped while Windows still works for it; threads
of Windows run notification callbacks in steps: look at the token, take the lock of
the sink, look at the token and the slot again, call the sink.  `held` is all that
Windows keeps for the bridge.  Dropping a subscription waits for the lock, and the
runtime thread does nothing else meanwhile.  The status handler looks at the state of
the radio link when it runs, which may be later than the change.

## 3. What is checked

TLC explores every interleaving of these instances.

* `urb_engine`: queue of 2, 4 URBs, transfers of 0, 1 and 3 units, responses of
  2, keepalive period of 2 ticks, samples up to 3.  A queue of two is full with
  one URB of each endpoint or two of one, which is all that the loop
  distinguishes; four URBs let a queue fill, empty and fill again; a response of
  2 is read whole, cut in two, or left with room.
  `OneFate`, `NothingLeftWaiting`, `StreamContiguous`, `RepeatsArePaced`,
  `AnswersInOrder` hold.  `AnswersInOrder` is about who gets what the device has to
  give: a refused URB, or a bulk IN of length 0, is answered at once with nothing,
  also before older URBs of its endpoint.
* `usb_session`: three URBs, a sample that changes once, cancellation and write
  errors anywhere.  `AckBeforeOutput`, `UnlinkVerdict` and `WaitsOwingNothing` (no
  reply, also of URBs another event answered, waits for a later event) hold, and
  the liveness properties `InterruptInServed` and `CancelEnds`.  Fairness: the loop
  itself (the executor polls a task that is ready), the passing of time, and a host
  that reads replies as long as the session is not cancelled.  No fairness for the
  host's frames, and none for writes after cancellation: `CancelEnds` holds although
  the host stops reading.
* `session`: two controllers, two links, one restart, the replacement of files
  of Windows (which includes every outcome of Linux and the crash in the middle).
  Two links are what a late callback or an old rumble needs; one restart reads
  what a crash left.  Safety: `NoHeldInput`, `NoOldRumble`, `CacheIsTrusted`,
  `OnlyTheFailedIsForgotten`.  Liveness, in the same run: `LinkEndsNeutral`,
  `CancelEnds`, `Reconnects` (an attempt that fails anywhere between its link and its
  settling leads to another look for a controller).  Fairness: only the supervisor's own progress; set-up
  and acquisition end by their timeouts, a run ends only when the link closes or is
  cancelled.  The restart is not fair, and the properties name what it may cut short.
* `controller`: the whole setup with and without pairing, one change of the LEDs
  and two rumble outputs at any time, a pace of two ticks.  A second rumble output
  can arrive during the first write or in the pause after it; the LED task has no
  pace, so one change says as much.  The channel holds two responses instead of 8,
  so that a full one happens.  `OwnAnswer`, `RumblePaced`, and under fairness
  `OutputsReach`: the executor polls the tasks, commands time out, and a link that
  stays open takes a vibration (its write has no timeout of its own) and delivers it.
* `att_link`: handles 0 to 5, a characteristic that notifies, one that does not and
  an unknown kind, up to two entries in a response; then three concurrent calls (one
  that holds the link, two that wait in order) and two notifications.  Five handles
  hold two services, or one with two characteristics and a CCCD, and reach the last
  handle, where an addition saturates or wraps.  `HandlesBounded`, `Advances`,
  `NoCrossedReply`, `OneOutstanding`, `NoNotificationMissed`; `CallsEnd` is the
  liveness: of a queued call, of `open`, of `close`.  Fairness: open, each call and
  the reader are polled, timers fire, a send to an open link completes; nothing is
  assumed of the peer.  The assumption on sends matters: `transact` starts its timer
  after the send.
* `attachment`: the driver and two other hosts, three request sizes, two ports; all
  three modes.  Two other hosts are one that is served and one that connects
  meanwhile; three sizes are a first, a middle and a last one, which are tried
  differently.  `DeviceIsOwned`, `SuccessIsClean` and the promise `LeaseSpec` need no
  fairness.  `CancelEnds` and `AttachEnds` do: the executor, the thread and the
  driver go on, the server answers the driver, and server and application end once
  they are cancelled.  Nothing is assumed of other hosts: they may stop reading.
* `scan`: three scans.  Fairness: the worker, whose waits all have timeouts.
  `NoDiscoveryLeft` excepts a START or STOP the kernel does not answer within
  five seconds, and a STOP it refuses although the discovery runs; the code gives up
  there and so does the promise.  `OthersUntouched` excepts the same, and a scan whose
  own discovery ended before its STOP (`lost`): the code keeps only that it started
  one (`owned`), so its STOP may then end another program's.
* `interval`: five events, of which a drain reads up to four, so that it also gives
  up.  Five are a connection of another, its end, ours, an update and its end.
  `ReportIsOfLink`, `OnlyOurLinkIsAsked`.  Not assumed away: a link that ends
  between the last check and the command.  Events the kernel drops because the
  observer's buffer is full are not modelled.
* `win_link`: two subscriptions, a write, two callback threads, three changes of the
  radio link.  Two threads contend for one sink or run different ones while a
  subscription is dropped; three changes are a connection, a loss and a recovery.
  `NoSinkAfterRelease`, `NothingLeft`; under fairness `LossNoticed` and `CallsEnd`:
  callbacks end, Windows reports a change, the runtime polls a call whose link is
  closed, timers fire.  No operation of Windows need ever be answered.

Deadlock is not checked: every model may end (a session is over, the bounds are
reached).

Two exceptions in `SuccessIsClean` are the code's: the error of a removal is dropped
when the Windows server ended while attaching (`early`), and a device whose port the
driver did not tell (`Unknown`) cannot be removed; the bridge then reports the failed
attach, unless it was cancelled.  `OneOutstanding` and `NoCrossedReply` hold because
every early end of a call closes the link.

Three runs show where the code differs from what the repository says:

* `session_forget`: README.md:56 says `--forget-device` means "Forget the saved
  controller and pair again"; together with `--device-address` nothing is paired
  (`bridge/session.rs:53`).
* `attachment_drain`: `bridge/usb/attachment.rs:39` promises to "cancel and drain
  application work before releasing the native lease"; on Windows the worker's
  token is a child of the application's (`usbip_win.rs:239`), so the device is
  removed as soon as the application is cancelled.
* `attachment_port`: `vhci.rs:180` leaves a port alone whose lease "the kernel or
  another manager released/replaced", but a port that enumerates (status 5) is
  detached without knowing whose device it is (`vhci.rs:175`).

## 4. What is proved

Every safety property that a passing run checks is a theorem, and so is the
refinement of `DeviceLease` by `Attachment`.  Where a module extends another and takes
its steps (`UsbSession`, `AttLink`), a lemma says so and carries over what is proved.

The theorems hold for every value of the constants under the assumptions the modules
name.  These say no more than that bounds are naturals, that capacities, periods and
lengths are positive, that model values differ (in `WinLink` also that a call does not
have the name of a phase), and that there is a sample (`SessionAssumption` of
`UsbSession`).  The bounds of TLC on the number of URBs, links, scans, ports, events
or notifications are constants too, so the theorems are about any number.

**The engine** (`UsbSessionProofs`): `TypeCorrect`, `EveryUrbHasOneFate`,
`NoUrbLeftWaiting`, `ResponseStreamIntact`, `RepeatsPacedAndCounted`,
`AnswersServedInOrder`: all that `urb_engine` checks.  The argument is one
inductive invariant,

    IInv == TypeOK /\ OneFate /\ StreamContiguous /\ DrainProgress /\ ReportBookkeeping

`NothingLeftWaiting` speaks only of the time between handlers and says nothing
inside the loop, so it is not inductive.  `DrainProgress` carries it through the
loop: the URBs before the cursor cannot be answered.  That is preserved
because each answer consumes what it answers with (the dirty flag or a response),
never produces any, and removal moves later URBs to the cursor, where the
loop looks next.  When the cursor passes the end the statement covers the queue.
`OneFate` needs that a queued URB is queued once and unanswered, which is part of
it; `RepeatsArePaced` needs that the engine's clock and dirty flag agree with
what the host was shown (`ReportBookkeeping`).  `QueueInOrder` (older URBs come
first in the queue) is an invariant of its own, proved from `IInv`;
`AnswersServedInOrder` follows from both.  In the drain only the URB at the cursor is
answered; one that waits at its endpoint either comes later in the queue, so it is
younger, or lies before the cursor, and by `DrainProgress` could not be answered, so
neither could this one.  An URB answered at its submission gets no report, and a piece
of a response only if one is queued, so by `NothingLeftWaiting` no bulk IN waits.

**The session loop** (`UsbSessionProofs`): `OutputsFollowReplies`, `UnlinksAreDecided`,
`WaitsOweNothing`.  The invariant `SInv` adds to `IInv` (which holds because a session
takes only steps of the engine, the lemma `EngineStep`) what each phase of a round
knows: before the outputs are taken all replies are written, the outputs that are
taken belong to answered URBs, and a round comes back to the select only with the
drain ended and nothing unwritten.

**The supervisor** (`SessionProofs`): `ButtonsAreReleased`, `RumbleIsFresh`,
`CacheStaysTrusted`, `ForgetsOnlyTheFailed`: all the safety that `session` checks,
across any number of links and restarts.  `SessInv` has three independent parts
beside the types.  `Callbacks`: only the current link can have a callback that
passes the check of its token, and none once it is revoked; so nothing can follow the
neutral sample.  `Rumbles`: while a link lives, the channel holds only what was
output during it.  `Trust`: where the selection and the target come from, and that
the file an attempt may erase is still the one it selected from.
`ForgetPairsDiscovered` is the sentence about `--forget-device` with the condition it
misses (no `--device-address`): since the start the file and the selections name only
controllers that were paired (`Forgotten`); `session_forget` is the counterexample
without that condition.

**The controller** (`ControllerProofs`): `AnswersAreOwn`, `VibrationIsPaced`.
Commands are not numbered on the link, so `OwnAnswer` is not inductive: it depends on
which responses may still come.  `Asked` says that, of the commands that are over,
only a read may still be answered (any other failure ends the session), and that the
setup is past the step of every read it sent; each read has a kind of its own and
`Answers` compares it.  `Paced`: while no vibration is being written, the time until the
deadline of the task and the time since the last write add up to the pace.

**Discovery** (`AttLinkProofs`): `DiscoveryStaysBounded`, `DiscoveryAdvances`, for
any width of handles and any response.  `HandlesBounded` does not say that what was
found lies before what is asked for next, so it is not inductive; `DInv` adds that,
by stage (`Position`, `Fresh`).  Each acceptance then moves the stage on in the order
`Later`; that this order ends for a fixed number of handles is not stated as a
theorem but is what the liveness of `att_link` uses.

**The ATT link** (`AttLinkProofs`): `RepliesNeverCross`, `TransactionsAreSequential`,
`NotificationsFindTheirSink`, and `OpenStaysBounded`, the theorems about the discovery
for the discovery that `open` runs.  `LInv` says where
packets are: while the link is open, a request or reply on its way belongs to the call
that holds the lock and waits, and its sender is the pending one.

**Scan** (`ScanProofs`): `NoScanLeavesDiscovery`, `OthersScanOn`.  As long as the
kernel answered everything, the phase of the worker tells what the kernel is doing
and, unless this scan's discovery is lost, whose it is (`Ownership`).

**The attachment** (`AttachmentProofs`): `DeviceHasAnOwner`, `SuccessLeavesNothing`,
`AttachmentImplementsLease`.  What became of the device is known in three places: the
lease, the worker with its two channels, and the state of the transport.
`DeviceIsOwned` looks at all of them, so it is not inductive until it is known what
each says of the others.  `Futures`: a future that has ended cancelled the token and
has a result, the lease lives only while the transport serves or after, a run that
returned holds none.  `OnLinux`: the lease comes with the device and is the only
record of it.  `OnWindows`: what the phase of the worker says of the driver's answer,
of what it told the attach and of its removal, and who hears of a removal that failed:
the lease if it was handed over, else the attach, unless the server ended first
(`early`).  That last exception is one of the two errors the code drops and
`SuccessIsClean` names them.  `FirstError` is the lemma about the chain of question
marks: the result is `ok` only if no error was met.

The refinement takes `working` as the futures not yet done.  One lemma per kind of
step: an end of a future is `Finish`, attaching on Linux and the driver's import on
Windows are `Appear` (which needs the invariant: no device was made before, the
identity is known, the transport still runs), unplugging and the release of the lease
are `Remove`, the return is `End`; what is left moves nothing `DeviceLease` sees.
`DeviceAppearsOnce` draws the conclusion for a host from `DeviceLease` alone.
`DrainedFirstOnLinux` is the comment on `run` ("Cancel and drain application work
before releasing the native lease") with the condition it misses; without it,
`attachment_drain` shows the counterexample of Windows.

**The interval request** (`IntervalProofs`): `ReportsAreOfOurLink`,
`NoOtherLinkIsAsked`.  What the program knows is not enough for either, as the events
it has not read may tell that the connection ended.  `Belief` and `Epoch` say what
its knowledge becomes as it reads on: an event that starts or ends a connection ends
an epoch, so only the part of the queue before the first such event matters, and up
to there every interval reported for our handle is one our connection had.  Once the
drain found that the socket is still connected, the epoch is that of the socket
(`Epoch`), even if the connection ends before the command is sent.

**The WinRT link** (`WinLinkProofs`): `NoSinkRunsAfterRelease`,
`WindowsIsLeftWithNothing`.  `NothingLeft` needs to know what each phase of `connect`
holds and that nobody subscribes before the link is open (`Handles`), that only a
link that is open or closing records subscriptions and a call that runs on needs it
open or closed (`Recorded`), and whose each running operation is (`Operations`).

## 5. Only model-checked, and not modelled

Liveness is checked by TLC only, as the prover does not reason about fairness:
`InterruptInServed`, `CancelEnds`, `LinkEndsNeutral`, `Reconnects`, `OutputsReach`,
`CallsEnd`, `AttachEnds`, `CloseReturns`, `LossNoticed`.  So is that the order in which
a discovery advances has an end, which takes an induction.

Known and not covered by a property: the end of the device's own session on
Windows is only logged and does not end the attachment (`server.rs:61`); the lookup
of a WinRT device is outside `CONNECT_TIMEOUT` (`windows.rs:275`), so `connect` is
only as finite as Windows is; a socket that stays unwritable while its link is up
holds the transaction lock, since the timer starts after the send (`att_link.rs:65`);
a STOP that is sent although the own discovery ended by itself may end the discovery of
another program (`mgmt.rs:156`; `OthersUntouched` names the case); vibrations that a
link buffers may reach the controller closer together than they were written.

Not modelled: report layouts, descriptors, the encodings and the classification of
packets of `proto/` and `usb/usbip.rs`, the arithmetic of the stick calibration and
the pairing keys (sequential functions without state, with golden tests); sockets,
the lookup of adapters and drivers and other platform calls (external); the smoke
test of Windows; the fallback of the Linux attach from a socket pair to TCP (one step
with the attach); writes without response on the Linux link and the peer MTU they
look at; statistics beyond which completions are counted and the life of the
connection report (the ring of latencies is diagnostics); start-up, elevation and
argument parsing.

## 6. Plan

Done, the most important behaviour first: the URB engine and its proofs, its session
loop, the controller session with the cache, the commands and outputs of a
controller, the ATT link with its discovery, the attachment with its server and
worker, scanning, the interval request, the WinRT link; proofs of the safety of all
of them and of the refinement of the lease.  Next:

1. A composition of session, channels and attachment: whether the end of one side
   always ends the other.
2. The pure codecs as functions: stick calibration (`proto/calibration.rs`, bounds),
   the classification of ATT packets.
