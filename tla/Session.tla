------------------------------- MODULE Session -------------------------------
(***************************************************************************)
(* The controller side of the bridge: supervise and attempt (session.rs),  *)
(* Connection and the setup of a Controller (controller.rs), the cache     *)
(* file (cache.rs) and the watch channels they share with the USB side     *)
(* (channels.rs).                                                          *)
(*                                                                         *)
(* One attempt selects a controller, acquires a link, sets it up and runs  *)
(* until the link closes; then it always disconnects and settles the       *)
(* cache.  The steps between two awaits are separate actions where another *)
(* thread (a WinRT notification callback) or a crash can come between.     *)
(* Links are numbered; number 0 stands for no link.                        *)
(*                                                                         *)
(* Abstracted: the bytes of every command, the calibration, the length of  *)
(* the backoff delay, and the pacing of outputs while the link runs.       *)
(***************************************************************************)
EXTENDS Naturals

CONSTANTS Controllers,      \* Bluetooth addresses of controllers
          None, Corrupt,    \* no address; a cache file that does not parse
          Windows,          \* replace removes the old file before the rename
          MaxLinks, MaxRestarts   \* bounds for TLC

ASSUME SessionAssumption ==
  /\ None \notin Controllers /\ Corrupt \notin Controllers /\ None # Corrupt
  /\ Windows \in BOOLEAN
  /\ MaxLinks \in Nat /\ MaxRestarts \in Nat

VARIABLES
  options,     \* command line: explicit address, pairHost, forget
  file,        \* the cache file: None when missing, Corrupt, or an address
  phase,       \* what the supervisor is doing, see Phases
  selected, fromCache,   \* Selection of the attempt
  target,      \* controller of the link
  paired,      \* `paired' of supervise: a pairing succeeded in this process
  established, result,   \* AttemptOutcome
  cancelled,   \* the application's cancellation token
  link,        \* number of the last link acquired
  open,        \* that link has not been closed by close()
  closed,      \* links whose closed() token is cancelled
  subscribed,  \* links whose input callback is registered
  input,       \* watch channel: the link the held input is from, 0 when neutral
  rumble,      \* watch channel: {} or {link during which it was output}
  report,      \* connection report of the statistics: its link, 0 for none
  restarts,
  \* history; the code keeps none of these
  known,       \* addresses the user named, or the file held at the beginning
  pairedWith,  \* controllers paired with this host
  felt         \* the last rumble written: <<output during, written to>>

target_ == <<selected, fromCache, target>>
outcome == <<established, result>>
channels == <<input, rumble>>
links == <<link, open, closed, subscribed>>
world == <<options, restarts, known>>
vars == <<options, file, phase, selected, fromCache, target, paired, established,
          result, cancelled, link, open, closed, subscribed, input, rumble,
          report, restarts, known, pairedWith, felt>>

Options == [explicit : Controllers \cup {None}, pairHost : BOOLEAN, forget : BOOLEAN]
Setup == {"initialize", "features", "pair", "save", "rename"}
Teardown == {"disconnect", "revoke", "neutral", "still", "close"}
Phases == {"start", "select", "acquire", "run", "settle", "backoff", "returned",
           "ended"} \cup Setup \cup Teardown

\* An output made now is for the current link: Connection::new and neutral have
\* the channel cleared of every other.
Live == phase \in Setup \cup {"run", "disconnect", "revoke", "neutral", "still"}
Closed == link \in closed

Init ==
  /\ options \in Options
  /\ file \in Controllers \cup {None, Corrupt}
  /\ known = ({file, options.explicit} \cap Controllers)
  /\ phase = "start"
  /\ selected = None /\ fromCache = FALSE /\ target = None
  /\ paired = FALSE /\ established = FALSE /\ result = "none"
  /\ cancelled = FALSE
  /\ link = 0 /\ open = FALSE /\ closed = {} /\ subscribed = {}
  /\ input = 0 /\ rumble = {} /\ report = 0
  /\ restarts = 0 /\ pairedWith = {} /\ felt = {}

-----------------------------------------------------------------------------
(* supervise: the steps outside of an attempt. *)

Begin ==
  /\ phase = "start"
  /\ \/ ~options.forget /\ phase' = "select" /\ UNCHANGED file
     \/ options.forget /\ phase' = "select" /\ file' = None
     \/ options.forget /\ phase' = "returned" /\ UNCHANGED file  \* I/O error
  /\ UNCHANGED <<target_, paired, outcome, cancelled, links, channels, report,
                 world, pairedWith, felt>>

\* Cache::select; a file that cannot be read or parsed selects nothing.
Select ==
  /\ phase = "select" /\ ~cancelled
  /\ \E cached \in {None, file} \ {Corrupt} :
       /\ selected' = IF options.explicit # None THEN options.explicit ELSE cached
       /\ fromCache' = (options.explicit = None /\ cached # None)
  /\ target' = None
  /\ established' = FALSE /\ result' = "none"
  /\ phase' = "acquire"
  /\ UNCHANGED <<file, paired, cancelled, links, channels, report, world,
                 pairedWith, felt>>

Wait ==
  /\ phase = "backoff" /\ ~cancelled
  /\ phase' = "select"
  /\ UNCHANGED <<file, target_, paired, outcome, cancelled, links, channels,
                 report, world, pairedWith, felt>>

\* Fault: the backoff does not notice cancellation.
StopAtHead ==
  /\ phase = "select" /\ cancelled
  /\ phase' = "returned"
  /\ UNCHANGED <<file, target_, paired, outcome, cancelled, links, channels,
                 report, world, pairedWith, felt>>

\* Cancellation is noticed at the head of the loop and during the backoff.
Stop ==
  /\ phase \in {"select", "backoff"} /\ cancelled
  /\ phase' = "returned"
  /\ UNCHANGED <<file, target_, paired, outcome, cancelled, links, channels,
                 report, world, pairedWith, felt>>

\* run_session cancels everything else when supervise returns.
Return ==
  /\ phase = "returned"
  /\ phase' = "ended" /\ cancelled' = TRUE
  /\ UNCHANGED <<file, target_, paired, outcome, links, channels, report, world,
                 pairedWith, felt>>

-----------------------------------------------------------------------------
(* attempt: acquire a link and set it up. *)

\* Fault: a new link begins with the rumble the channel holds.
AcquireKeepsRumble(c) ==
  /\ phase = "acquire" /\ link < MaxLinks
  /\ selected \in {None, c}
  /\ link' = link + 1 /\ open' = TRUE /\ target' = c
  /\ phase' = "initialize"
  /\ UNCHANGED <<file, selected, fromCache, paired, outcome, cancelled, closed,
                 subscribed, channels, report, world, pairedWith, felt>>

\* scan matches the selected address, or any controller; Connection::new.
Acquire(c) ==
  /\ phase = "acquire" /\ link < MaxLinks
  /\ selected \in {None, c}
  /\ link' = link + 1 /\ open' = TRUE /\ target' = c
  /\ rumble' = {}
  /\ phase' = "initialize"
  /\ UNCHANGED <<file, selected, fromCache, paired, outcome, cancelled, closed,
                 subscribed, input, report, world, pairedWith, felt>>

AcquireFails ==
  /\ phase = "acquire"
  /\ \/ result' = "failed"
     \/ cancelled /\ result' = "cancelled"
  /\ phase' = "settle"
  /\ UNCHANGED <<file, target_, paired, established, cancelled, links, channels,
                 report, world, pairedWith, felt>>

\* Init write, response subscription, LEDs, calibration, identity.  Failing
\* reads fall back; the identity is published before the rest of the setup.
Initialize ==
  /\ phase = "initialize"
  /\ phase' = "features"
  /\ UNCHANGED <<file, target_, paired, outcome, cancelled, links, channels, report,
                 world, pairedWith, felt>>

\* Fault: a controller that was discovered is only paired with --pair-host.
SubscribePairsOnRequest ==
  /\ phase = "features"
  /\ subscribed' = subscribed \cup {link}
  /\ phase' = IF options.pairHost /\ ~paired THEN "pair" ELSE "save"
  /\ UNCHANGED <<file, target_, paired, outcome, cancelled, link, open, closed,
                 channels, report, world, pairedWith, felt>>

\* Feature mask and features; the input subscription ends the initialization.
Subscribe ==
  /\ phase = "features"
  /\ subscribed' = subscribed \cup {link}
  /\ phase' = IF selected = None \/ (options.pairHost /\ ~paired)
              THEN "pair" ELSE "save"
  /\ UNCHANGED <<file, target_, paired, outcome, cancelled, link, open, closed,
                 channels, report, world, pairedWith, felt>>

Pair ==
  /\ phase = "pair"
  /\ pairedWith' = pairedWith \cup {target} /\ paired' = TRUE
  /\ phase' = "save"
  /\ UNCHANGED <<file, target_, outcome, cancelled, links, channels, report, world,
                 felt>>

\* Cache::save writes a temporary file that nothing reads, ...
WriteTemporary ==
  /\ phase = "save"
  /\ phase' = "rename"
  /\ UNCHANGED <<file, target_, paired, outcome, cancelled, links, channels,
                 report, world, pairedWith, felt>>

RemoveOld ==
  /\ phase = "rename" /\ Windows /\ file # None
  /\ file' = None
  /\ UNCHANGED <<phase, target_, paired, outcome, cancelled, links, channels,
                 report, world, pairedWith, felt>>

\* ... and renames it; then the link counts as established.
Establish ==
  /\ phase = "rename" /\ (Windows => file = None)
  /\ file' = target
  /\ report' = link /\ established' = TRUE
  /\ phase' = "run"
  /\ UNCHANGED <<target_, paired, result, cancelled, links, channels, world,
                 pairedWith, felt>>

\* Controller::run writes the rumble the channel holds.
WriteRumble ==
  /\ phase = "run" /\ ~Closed
  /\ \E made \in rumble : felt' = {<<made, link>>}
  /\ UNCHANGED <<file, phase, target_, paired, outcome, cancelled, links, channels,
                 report, world, pairedWith>>

\* Fault: a failing setup returns before the disconnect.
SetupEndsEarly ==
  /\ phase \in Setup \cup {"run"}
  /\ result' = "failed"
  /\ phase' = IF phase = "run" THEN "disconnect" ELSE "settle"
  /\ UNCHANGED <<file, target_, paired, established, cancelled, links, channels,
                 report, world, pairedWith, felt>>

\* A write, a command or the cache fails, the link is closed, or the run is
\* cancelled; saving does not await, so it cannot be cancelled in the middle.
SetupEnds ==
  /\ phase \in Setup \cup {"run"}
  /\ \/ result' = "failed"
     \/ cancelled /\ phase \notin {"save", "rename"} /\ result' = "cancelled"
  /\ phase' = "disconnect"
  /\ UNCHANGED <<file, target_, paired, established, cancelled, links, channels,
                 report, world, pairedWith, felt>>

-----------------------------------------------------------------------------
(* Connection::disconnect, in its order, and Selection::settle. *)

Disconnected ==
  /\ phase = "disconnect"
  /\ report' = 0
  /\ phase' = "revoke"
  /\ UNCHANGED <<file, target_, paired, outcome, cancelled, links, channels, world,
                 pairedWith, felt>>

Revoke ==
  /\ phase = "revoke"
  /\ closed' = closed \cup {link}
  /\ phase' = "neutral"
  /\ UNCHANGED <<file, target_, paired, outcome, cancelled, link, open, subscribed,
                 channels, report, world, pairedWith, felt>>

NeutralInput ==
  /\ phase = "neutral"
  /\ input' = 0
  /\ phase' = "still"
  /\ UNCHANGED <<file, target_, paired, outcome, cancelled, links, rumble,
                 report, world, pairedWith, felt>>

NeutralRumble ==
  /\ phase = "still"
  /\ rumble' = {}
  /\ phase' = "close"
  /\ UNCHANGED <<file, target_, paired, outcome, cancelled, links, input,
                 report, world, pairedWith, felt>>

CloseLink ==
  /\ phase = "close"
  /\ open' = FALSE
  /\ phase' = "settle"
  /\ UNCHANGED <<file, target_, paired, outcome, cancelled, link, closed, subscribed,
                 channels, report, world, pairedWith, felt>>

\* Fault: the origin of the selection is not considered.
InvalidatesAny == ~cancelled /\ ~established /\ result # "cancelled"

Invalidates == fromCache /\ ~cancelled /\ ~established /\ result # "cancelled"

\* Fault: the supervisor returns the error of an attempt that failed.
SettleReturnsError ==
  /\ phase = "settle"
  /\ file' = IF Invalidates THEN None ELSE file
  /\ selected' = None /\ fromCache' = FALSE /\ target' = None
  /\ established' = FALSE /\ result' = "none"
  /\ phase' = IF cancelled \/ result = "failed" THEN "returned" ELSE "backoff"
  /\ UNCHANGED <<paired, cancelled, links, channels, report, world, pairedWith, felt>>

Settle ==
  /\ phase = "settle"
  /\ \/ ~Invalidates /\ UNCHANGED file
     \/ Invalidates /\ file' = None
     \/ Invalidates /\ UNCHANGED file  \* I/O error
  /\ selected' = None /\ fromCache' = FALSE /\ target' = None
  /\ established' = FALSE /\ result' = "none"
  /\ phase' = IF cancelled THEN "returned" ELSE "backoff"
  /\ UNCHANGED <<paired, cancelled, links, channels, report, world, pairedWith, felt>>

-----------------------------------------------------------------------------
(* The rest of the world. *)

\* The link is lost: its reader or the system cancels its token.
LinkLost ==
  /\ open /\ ~Closed
  /\ closed' = closed \cup {link}
  /\ UNCHANGED <<file, phase, target_, paired, outcome, cancelled, link, open,
                 subscribed, channels, report, world, pairedWith, felt>>

\* Fault: the callback does not check the token under the lock.
NotifyUnchecked(from) ==
  /\ from \in subscribed
  /\ input' = from
  /\ UNCHANGED <<file, phase, target_, paired, outcome, cancelled, links, rumble,
                 report, world, pairedWith, felt>>

\* An input notification; its callback checks the token of its own link under
\* the lock of the channel, and may come late from another thread.
Notify(from) ==
  /\ from \in subscribed \ closed
  /\ input' = from
  /\ UNCHANGED <<file, phase, target_, paired, outcome, cancelled, links, rumble,
                 report, world, pairedWith, felt>>

\* The USB session hands a rumble output over (Channels::output).
HostRumble ==
  /\ phase # "ended"
  /\ rumble' = {IF Live THEN link ELSE 0}
  /\ UNCHANGED <<file, phase, target_, paired, outcome, cancelled, links, input,
                 report, world, pairedWith, felt>>

\* Ctrl-C, or the USB side ended.
Cancel ==
  /\ ~cancelled /\ cancelled' = TRUE
  /\ UNCHANGED <<file, phase, target_, paired, outcome, links, channels, report,
                 world, pairedWith, felt>>

\* The process dies or has ended, and is started again: only the cache file and
\* the pairings survive.
Restart ==
  /\ restarts < MaxRestarts /\ restarts' = restarts + 1
  /\ options' \in Options
  /\ phase' = "start"
  /\ selected' = None /\ fromCache' = FALSE /\ target' = None
  /\ paired' = FALSE /\ established' = FALSE /\ result' = "none"
  /\ cancelled' = FALSE
  /\ open' = FALSE /\ closed' = 1..link /\ subscribed' = {}
  /\ input' = 0 /\ rumble' = {} /\ report' = 0
  /\ known' = known \cup ({options'.explicit} \cap Controllers)
  /\ UNCHANGED <<file, link, pairedWith, felt>>

Attempt ==
  \/ Select \/ (\E c \in Controllers : Acquire(c)) \/ AcquireFails
  \/ Initialize \/ Subscribe \/ Pair \/ WriteTemporary \/ RemoveOld \/ Establish
  \/ SetupEnds
  \/ Disconnected \/ Revoke \/ NeutralInput \/ NeutralRumble \/ CloseLink \/ Settle

Supervise == Begin \/ Attempt \/ Wait \/ Stop \/ Return

World ==
  \/ WriteRumble \/ LinkLost \/ (\E from \in 1..MaxLinks : Notify(from))
  \/ HostRumble \/ Cancel \/ Restart

Next == Supervise \/ World

Spec == Init /\ [][Next]_vars

\* The executor goes on with the supervisor; an acquisition ends by its
\* timeouts, a setup by the timeouts of its commands, and a run when its link is
\* closed or it is cancelled.  A run of a good link may last for ever.
Ends == SetupEnds /\ (phase = "run" => Closed \/ cancelled)
Progress == Begin \/ Select \/ AcquireFails \/ Wait \/ Stop \/ Return \/ Ends
            \/ Disconnected \/ Revoke \/ NeutralInput \/ NeutralRumble
            \/ CloseLink \/ Settle

FairSpec == Spec /\ WF_vars(Progress)

-----------------------------------------------------------------------------
TypeOK ==
  /\ options \in Options
  /\ file \in Controllers \cup {None, Corrupt}
  /\ phase \in Phases
  /\ selected \in Controllers \cup {None} /\ target \in Controllers \cup {None}
  /\ fromCache \in BOOLEAN /\ paired \in BOOLEAN /\ established \in BOOLEAN
  /\ result \in {"none", "failed", "cancelled"}
  /\ cancelled \in BOOLEAN
  /\ link \in Nat /\ open \in BOOLEAN
  /\ closed \subseteq 1..link /\ subscribed \subseteq 1..link
  /\ input \in Nat
  /\ rumble \in {{}} \cup {{made} : made \in 0..link}
  /\ report \in Nat
  /\ restarts \in Nat
  /\ known \subseteq Controllers /\ pairedWith \subseteq Controllers
  /\ felt \subseteq (0..link) \X (1..link)

\* A button held when a link ends is released, and stays released: the input
\* channel holds something only from the link that is still connected, whatever
\* notification callbacks of this link or an older one are in flight.
NoHeldInput ==
  /\ TypeOK
  /\ input # 0 => /\ input = link /\ link \in subscribed
                  /\ phase \in Setup \cup {"run", "disconnect", "revoke", "neutral"}

\* "Drops old rumble" (README): a controller is never shaken by an output the
\* host made before its link was acquired, nor after an earlier one ended.
NoOldRumble == \A pair \in felt : pair[1] = pair[2]

\* Whatever fails, is cancelled or crashes in whatever order, the cache only
\* ever names a controller that was paired with this host, that the user named,
\* or that the file named before; and it is never left torn.
CacheIsTrusted ==
  /\ file \in Controllers => file \in known \cup pairedWith
  /\ established => file # Corrupt

\* The only entry a finished attempt erases is the very controller it failed to
\* reach: never one found by other means, established, or given up on a shutdown.
OnlyTheFailedIsForgotten ==
  [][phase = "settle" /\ file' # file
       => /\ file = selected /\ options.explicit = None
          /\ ~established /\ ~cancelled]_vars

\* --forget-device (README): "Forget the saved controller and pair again".
ForgetPairsAgain ==
  established /\ options.forget => target \in pairedWith

\* A closed link is soon released, leaves the input neutral, and the statistics
\* no longer show its report.
LinkEndsNeutral == (open /\ Closed) ~> (input = 0 /\ report = 0 /\ ~open)

\* Cancellation ends the supervisor with its link released, unless the process
\* is restarted meanwhile.
CancelEnds == cancelled ~> ((phase = "ended" /\ ~open) \/ ~cancelled)

\* An attempt that fails: its link is lost before or after it was established,
\* or it is being torn down, is settled or has been.
Failing == \/ phase \in Setup \cup {"run"} /\ Closed
           \/ phase \in Teardown \cup {"settle", "backoff"}

\* The bridge never gives up: whatever ends an attempt, a failed acquisition or
\* setup, an error of the cache, the loss of the link, it comes to look for a
\* controller again, unless it is restarted or cancelled (before its end, that
\* is: when supervise returns, everything is cancelled).
Reconnects ==
  Failing ~> (phase \in {"acquire", "start"} \/ (cancelled /\ phase # "ended"))
==============================================================================
