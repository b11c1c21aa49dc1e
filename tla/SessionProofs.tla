---------------------------- MODULE SessionProofs ----------------------------
(***************************************************************************)
(* Proofs about Session, for any controllers, any number of links and of   *)
(* restarts: no button stays held, no old rumble is felt, the cache names  *)
(* only controllers it may name, and forgetting it pairs again.            *)
(***************************************************************************)
EXTENDS Session, TLAPS

\* An attempt is under way, and has a link.
Linked == phase \in Setup \cup {"run"} \cup Teardown
Attempting == Linked \/ phase \in {"acquire", "settle"}

\* Only callbacks of the current link pass the check of their token, and none
\* does once disconnect has revoked it.
Callbacks ==
  /\ Linked \/ open => link > 0
  /\ subscribed \ closed \subseteq {link}
  /\ subscribed \ closed # {} => phase \in Setup \cup {"run", "disconnect", "revoke"}
  /\ input # 0 => /\ input = link /\ link \in subscribed
                  /\ phase \in Setup \cup {"run", "disconnect", "revoke", "neutral"}

\* What the channel holds while a link lives was output during that link.
Rumbles == NoOldRumble /\ (Live => rumble \subseteq {link})

\* Where the selection, the target and the file come from.
Trusted == known \cup pairedWith
Trust ==
  /\ options.explicit # None => options.explicit \in known
  /\ file \in Controllers => file \in Trusted
  /\ Attempting /\ selected # None => selected \in Trusted
  /\ Linked => target \in Controllers /\ selected \in {None, target}
  /\ phase \in {"save", "rename"} => target \in Trusted
  /\ established => /\ file = target /\ target \in Controllers
                    /\ phase \in {"run", "settle"} \cup Teardown
  /\ fromCache => /\ Attempting /\ options.explicit = None
                  /\ established \/ file \in {selected, None}

SessInv == TypeOK /\ Callbacks /\ Rumbles /\ Trust

LEMMA SessInitially ==
  Init => SessInv
<1> SUFFICES ASSUME Init PROVE SessInv
  OBVIOUS
<1> USE DEF Init, Phases, Setup, Teardown, Options
<1>1. TypeOK
  BY DEF TypeOK
<1>2. Callbacks /\ Rumbles
  BY DEF Callbacks, Rumbles, NoOldRumble, Linked, Live
<1>3. Trust
  BY SessionAssumption DEF Trust, Trusted, Linked, Attempting
<1>4. QED BY <1>1, <1>2, <1>3 DEF SessInv

-----------------------------------------------------------------------------
(* Type correctness. *)

LEMMA TypeSupervise ==
  ASSUME TypeOK, Callbacks, Trust, Supervise
  PROVE  TypeOK'
<1> USE DEF Phases, Setup, Teardown
<1>1. CASE Begin \/ Wait \/ Stop \/ Return
  <2>1. /\ UNCHANGED <<target_, paired, outcome, links, channels, report, world,
                       pairedWith, felt>>
        /\ file' \in {file, None} /\ cancelled' \in {cancelled, TRUE}
        /\ phase' \in Phases
    BY <1>1 DEF Begin, Wait, Stop, Return
  <2>2. /\ file' \in Controllers \cup {None, Corrupt}
        /\ cancelled' \in BOOLEAN
    BY <2>1 DEF TypeOK
  <2>3. /\ UNCHANGED <<selected, target, fromCache, paired, established, result>>
        /\ UNCHANGED <<link, open, closed, subscribed, input, rumble, report>>
        /\ UNCHANGED <<options, restarts, known, pairedWith, felt>>
    BY <2>1 DEF target_, outcome, channels, links, world
  <2>4. phase' \in Phases
    BY <2>1
  <2>5. QED BY <2>2, <2>3, <2>4, Zenon DEF TypeOK
<1>2. CASE Select
  BY <1>2 DEF Select, TypeOK, Options, links, channels, world
<1>3. ASSUME NEW c \in Controllers, Acquire(c) PROVE TypeOK'
  <2>1. link' = link + 1 /\ link \in Nat
    BY <1>3 DEF Acquire, TypeOK
  <2>2. /\ closed' \subseteq 1..link' /\ subscribed' \subseteq 1..link'
        /\ felt' \subseteq (0..link') \X (1..link')
    BY <1>3, <2>1 DEF Acquire, TypeOK
  <2>3. QED BY <1>3, <2>1, <2>2 DEF Acquire, TypeOK, outcome, world
<1>4. CASE AcquireFails \/ Initialize \/ WriteTemporary \/ RemoveOld
  <2>1. /\ UNCHANGED <<target_, paired, established, cancelled, links, channels, report,
                       world, pairedWith, felt>>
        /\ file' \in {file, None} /\ phase' \in {phase} \cup Phases
        /\ result' \in {result, "failed", "cancelled"}
    BY <1>4 DEF AcquireFails, Initialize, WriteTemporary, RemoveOld, outcome
  <2>2. QED BY <2>1 DEF TypeOK, target_, channels, links, world
<1>5. CASE Subscribe
  <2>1. phase = "features" /\ UNCHANGED <<link, closed>>
    BY <1>5 DEF Subscribe
  <2>2. link \in 1..link
    BY <2>1 DEF TypeOK, Callbacks, Linked
  <2>3. subscribed' \subseteq 1..link'
    BY <1>5, <2>2 DEF Subscribe, TypeOK
  <2>4. QED BY <1>5, <2>1, <2>3 DEF Subscribe, TypeOK, target_, outcome, channels, world
<1>6. CASE Pair
  <2>1. target \in Controllers
    BY <1>6 DEF Pair, Trust, Linked
  <2>2. QED BY <1>6, <2>1 DEF Pair, TypeOK, target_, outcome, channels, links, world
<1>7. CASE Establish
  <2>1. target \in Controllers
    BY <1>7 DEF Establish, Trust, Linked
  <2>2. QED BY <1>7, <2>1 DEF Establish, TypeOK, target_, outcome, channels, links, world
<1>8. CASE SetupEnds
  BY <1>8 DEF SetupEnds, TypeOK, target_, outcome, channels, links, world
<1>9. CASE Disconnected \/ NeutralInput \/ NeutralRumble \/ CloseLink
  <2>1. CASE Disconnected
    BY <2>1 DEF Disconnected, TypeOK, target_, outcome, channels, links, world
  <2>2. CASE NeutralInput
    BY <2>2 DEF NeutralInput, TypeOK, target_, outcome, links, world
  <2>3. CASE NeutralRumble
    BY <2>3 DEF NeutralRumble, TypeOK, target_, outcome, links, world
  <2>4. CASE CloseLink
    <3>1. /\ UNCHANGED <<file, target_, paired, outcome, cancelled, link, closed,
                         subscribed, channels, report, world, pairedWith, felt>>
          /\ open' = FALSE /\ phase' \in Phases
      BY <2>4 DEF CloseLink
    <3>2. /\ UNCHANGED <<file, selected, target, fromCache, paired, established, result>>
          /\ UNCHANGED <<cancelled, link, closed, subscribed, input, rumble, report>>
          /\ UNCHANGED <<options, restarts, known, pairedWith, felt>>
      BY <3>1 DEF target_, outcome, channels, world
    <3>3. open' \in BOOLEAN /\ phase' \in Phases
      BY <3>1
    <3>4. QED BY <3>2, <3>3 DEF TypeOK
  <2>5. QED BY <1>9, <2>1, <2>2, <2>3, <2>4
<1>10. CASE Revoke
  <2>1. link \in 1..link
    BY <1>10 DEF Revoke, TypeOK, Callbacks, Linked
  <2>2. closed' \subseteq 1..link'
    BY <1>10, <2>1 DEF Revoke, TypeOK
  <2>3. QED BY <1>10, <2>2 DEF Revoke, TypeOK, target_, outcome, channels, world
<1>11. CASE Settle
  BY <1>11 DEF Settle, TypeOK, links, channels, world
<1>12. QED
  BY <1>1, <1>2, <1>3, <1>4, <1>5, <1>6, <1>7, <1>8, <1>9, <1>10, <1>11
  DEF Supervise, Attempt

LEMMA TypeWorld ==
  ASSUME TypeOK, Callbacks, World
  PROVE  TypeOK'
<1>1. CASE WriteRumble
  <2>1. link \in 1..link /\ \A made \in rumble : made \in 0..link
    BY <1>1 DEF WriteRumble, TypeOK, Callbacks, Linked
  <2>2. felt' \subseteq (0..link) \X (1..link) /\ UNCHANGED link
    BY <1>1, <2>1 DEF WriteRumble, links
  <2>3. QED BY <1>1, <2>2 DEF WriteRumble, TypeOK, target_, outcome, channels, links, world
<1>2. CASE LinkLost
  <2>1. closed' \subseteq 1..link'
    BY <1>2 DEF LinkLost, TypeOK, Callbacks
  <2>2. QED BY <1>2, <2>1 DEF LinkLost, TypeOK, target_, outcome, channels, world
<1>3. ASSUME NEW from \in 1..MaxLinks, Notify(from) PROVE TypeOK'
  BY <1>3 DEF Notify, TypeOK, target_, outcome, links, world
<1>4. CASE HostRumble
  BY <1>4 DEF HostRumble, TypeOK, target_, outcome, links, world
<1>5. CASE Restart
  <2>1. known' \subseteq Controllers /\ restarts' \in Nat /\ closed' \subseteq 1..link'
    BY <1>5 DEF Restart, TypeOK
  <2>2. UNCHANGED <<file, link, pairedWith, felt>> /\ options' \in Options
    BY <1>5 DEF Restart
  <2>3. /\ phase' = "start" /\ selected' = None /\ fromCache' = FALSE /\ target' = None
        /\ paired' = FALSE /\ established' = FALSE /\ result' = "none"
        /\ cancelled' = FALSE /\ open' = FALSE /\ subscribed' = {}
        /\ input' = 0 /\ rumble' = {} /\ report' = 0
    BY <1>5 DEF Restart
  <2>4. QED BY <2>1, <2>2, <2>3 DEF TypeOK, Phases
<1>6. CASE Cancel
  BY <1>6 DEF Cancel, TypeOK, target_, outcome, channels, links, world
<1>7. QED BY <1>1, <1>2, <1>3, <1>4, <1>5, <1>6 DEF World

-----------------------------------------------------------------------------
(* Callbacks: what may put an input into the channel. *)

LEMMA CallbacksSupervise ==
  ASSUME TypeOK, Callbacks, Supervise
  PROVE  Callbacks'
<1> USE DEF Callbacks, Linked, Setup, Teardown
<1>1. CASE Begin \/ Wait \/ Stop \/ Return
  BY <1>1 DEF Begin, Wait, Stop, Return, channels, links
<1>2. CASE Select \/ AcquireFails \/ Settle
  BY <1>2 DEF Select, AcquireFails, Settle, channels, links
<1>3. ASSUME NEW c \in Controllers, Acquire(c) PROVE Callbacks'
  BY <1>3 DEF Acquire, TypeOK
<1>4. CASE Initialize \/ Pair \/ WriteTemporary \/ RemoveOld \/ Establish \/ SetupEnds
  BY <1>4 DEF Initialize, Pair, WriteTemporary, RemoveOld, Establish, SetupEnds,
     channels, links
<1>5. CASE Subscribe
  BY <1>5 DEF Subscribe, channels
<1>6. CASE Disconnected \/ Revoke
  BY <1>6 DEF Disconnected, Revoke, channels, links
<1>7. CASE NeutralInput \/ NeutralRumble \/ CloseLink
  BY <1>7 DEF NeutralInput, NeutralRumble, CloseLink, channels, links
<1>8. QED
  BY <1>1, <1>2, <1>3, <1>4, <1>5, <1>6, <1>7 DEF Supervise, Attempt

LEMMA CallbacksWorld ==
  ASSUME TypeOK, Callbacks, World
  PROVE  Callbacks'
<1> USE DEF Callbacks, Linked, Setup, Teardown
<1>1. CASE WriteRumble \/ LinkLost \/ HostRumble \/ Cancel
  BY <1>1 DEF WriteRumble, LinkLost, HostRumble, Cancel, channels, links
<1>2. ASSUME NEW from \in 1..MaxLinks, Notify(from) PROVE Callbacks'
  BY <1>2 DEF Notify, links
<1>3. CASE Restart
  BY <1>3 DEF Restart
<1>4. QED BY <1>1, <1>2, <1>3 DEF World

-----------------------------------------------------------------------------
(* Rumbles: an output of another time never reaches a controller. *)

LEMMA RumblesStep ==
  ASSUME Rumbles, Next
  PROVE  Rumbles'
<1> USE DEF Rumbles, NoOldRumble, Live, Setup
<1>1. CASE Begin \/ Wait \/ Stop \/ Return \/ Select \/ AcquireFails \/ Settle
  BY <1>1 DEF Begin, Wait, Stop, Return, Select, AcquireFails, Settle, channels, links
<1>2. ASSUME NEW c \in Controllers, Acquire(c) PROVE Rumbles'
  BY <1>2 DEF Acquire
<1>3. CASE Initialize \/ Subscribe \/ Pair \/ WriteTemporary \/ RemoveOld \/ Establish
           \/ SetupEnds
  BY <1>3 DEF Initialize, Subscribe, Pair, WriteTemporary, RemoveOld, Establish,
     SetupEnds, channels, links
<1>4. CASE Disconnected \/ Revoke \/ NeutralInput \/ NeutralRumble \/ CloseLink
  BY <1>4 DEF Disconnected, Revoke, NeutralInput, NeutralRumble, CloseLink, channels,
     links
<1>5. CASE WriteRumble
  BY <1>5 DEF WriteRumble, channels, links
<1>6. CASE LinkLost \/ Cancel
  BY <1>6 DEF LinkLost, Cancel, channels, links
<1>7. ASSUME NEW from \in 1..MaxLinks, Notify(from) PROVE Rumbles'
  BY <1>7 DEF Notify, links
<1>8. CASE HostRumble
  BY <1>8 DEF HostRumble, links
<1>9. CASE Restart
  BY <1>9 DEF Restart
<1>10. QED
  BY <1>1, <1>2, <1>3, <1>4, <1>5, <1>6, <1>7, <1>8, <1>9
  DEF Next, Supervise, Attempt, World

-----------------------------------------------------------------------------
(* Trust: what the cache file may name. *)

LEMMA TrustSupervise ==
  ASSUME TypeOK, Trust, Supervise
  PROVE  Trust'
<1> USE SessionAssumption DEF Trust, Trusted, Attempting, Linked, Setup, Teardown
<1>1. CASE Begin
  BY <1>1 DEF Begin, target_, outcome, world
<1>2. CASE Wait \/ Stop \/ Return
  BY <1>2 DEF Wait, Stop, Return, target_, outcome, world
<1>3. CASE Select
  BY <1>3 DEF Select, TypeOK, Options, world
<1>4. ASSUME NEW c \in Controllers, Acquire(c) PROVE Trust'
  BY <1>4 DEF Acquire, outcome, world
<1>5. CASE AcquireFails
  BY <1>5 DEF AcquireFails, target_, world
<1>6. CASE Initialize \/ SetupEnds
  BY <1>6 DEF Initialize, SetupEnds, target_, outcome, world
<1>7. CASE Subscribe \/ Pair
  BY <1>7 DEF Subscribe, Pair, target_, outcome, world
<1>8. CASE WriteTemporary \/ RemoveOld
  BY <1>8 DEF WriteTemporary, RemoveOld, target_, outcome, world
<1>9. CASE Establish
  BY <1>9 DEF Establish, target_, world
<1>10. CASE Disconnected \/ Revoke \/ NeutralInput \/ NeutralRumble \/ CloseLink
  BY <1>10 DEF Disconnected, Revoke, NeutralInput, NeutralRumble, CloseLink, target_,
     outcome, world
<1>11. CASE Settle
  BY <1>11 DEF Settle, Invalidates, world
<1>12. QED
  BY <1>1, <1>2, <1>3, <1>4, <1>5, <1>6, <1>7, <1>8, <1>9, <1>10, <1>11
  DEF Supervise, Attempt

LEMMA TrustWorld ==
  ASSUME TypeOK, Trust, World
  PROVE  Trust'
<1> USE SessionAssumption DEF Trust, Trusted, Attempting, Linked, Setup, Teardown
<1>1. CASE WriteRumble \/ LinkLost \/ HostRumble \/ Cancel
  BY <1>1 DEF WriteRumble, LinkLost, HostRumble, Cancel, target_, outcome, world
<1>2. ASSUME NEW from \in 1..MaxLinks, Notify(from) PROVE Trust'
  BY <1>2 DEF Notify, target_, outcome, world
<1>3. CASE Restart
  BY <1>3 DEF Restart, Options
<1>4. QED BY <1>1, <1>2, <1>3 DEF World

-----------------------------------------------------------------------------
LEMMA SessStep ==
  SessInv /\ [Next]_vars => SessInv'
<1> SUFFICES ASSUME SessInv, [Next]_vars PROVE SessInv'
  OBVIOUS
<1>1. TypeOK /\ Callbacks /\ Rumbles /\ Trust
  BY DEF SessInv
<1>2. CASE Next
  BY <1>1, <1>2, TypeSupervise, TypeWorld, CallbacksSupervise, CallbacksWorld,
     RumblesStep, TrustSupervise, TrustWorld DEF Next, SessInv
<1>3. CASE UNCHANGED vars
  <2>1. TypeOK' /\ Callbacks'
    BY <1>1, <1>3 DEF vars, TypeOK, Callbacks, Linked
  <2>2. Rumbles' /\ Trust'
    BY <1>1, <1>3 DEF vars, Rumbles, NoOldRumble, Live, Trust, Trusted, Attempting, Linked
  <2>3. QED BY <2>1, <2>2 DEF SessInv
<1>4. QED BY <1>2, <1>3

LEMMA SessInvariant ==
  Spec => []SessInv
  BY SessInitially, SessStep, PTL DEF Spec

\* A button held when a link ends is released and stays released, however many
\* links come and go, and whatever their callbacks do late.
THEOREM ButtonsAreReleased == Spec => []NoHeldInput
<1>1. SessInv => NoHeldInput
  BY DEF SessInv, Callbacks, NoHeldInput
<1>2. QED BY <1>1, SessInvariant, PTL

\* A controller feels only outputs that the host made during its own link.
THEOREM RumbleIsFresh == Spec => []NoOldRumble
<1>1. SessInv => NoOldRumble
  BY DEF SessInv, Rumbles
<1>2. QED BY <1>1, SessInvariant, PTL

\* Through every failure, cancellation and restart the cache names only
\* controllers that were paired, named by the user, or named by it before.
THEOREM CacheStaysTrusted == Spec => []CacheIsTrusted
<1>1. SessInv => CacheIsTrusted
  BY SessionAssumption DEF SessInv, Trust, Trusted, CacheIsTrusted
<1>2. QED BY <1>1, SessInvariant, PTL

\* A finished attempt erases the entry of the cache only when it used that entry
\* and could not reach its controller.
THEOREM ForgetsOnlyTheFailed == Spec => OnlyTheFailedIsForgotten
<1>1. SessInv /\ [Next]_vars
        => [phase = "settle" /\ file' # file
              => /\ file = selected /\ options.explicit = None
                 /\ ~established /\ ~cancelled]_vars
  <2> SUFFICES ASSUME SessInv, Next, phase = "settle", file' # file
               PROVE  /\ file = selected /\ options.explicit = None
                      /\ ~established /\ ~cancelled
    OBVIOUS
  <2>1. Trust
    BY DEF SessInv
  <2>2. Settle
    BY DEF Next, Supervise, Begin, Attempt, Select, Acquire, AcquireFails, Initialize,
       Subscribe, Pair, WriteTemporary, RemoveOld, Establish, SetupEnds, Setup,
       Disconnected, Revoke, NeutralInput, NeutralRumble, CloseLink, Wait, Stop, Return,
       World, WriteRumble, LinkLost, Notify, HostRumble, Cancel, Restart
  <2>3. Invalidates /\ file' = None
    BY <2>2 DEF Settle
  <2>4. QED BY <2>1, <2>3 DEF Trust, Invalidates
<1>2. QED BY <1>1, SessInvariant, PTL DEF Spec, OnlyTheFailedIsForgotten

-----------------------------------------------------------------------------
(* What --forget-device does achieve. *)

\* With --forget-device and no --device-address, once the file is forgotten it and
\* the selections name only controllers that are paired with this host.
Forgets == options.forget /\ options.explicit = None
Forgotten ==
  Forgets /\ phase \notin {"start", "returned", "ended"} =>
    /\ file # None => file \in pairedWith
    /\ Attempting /\ selected # None => selected \in pairedWith
    /\ phase \in {"save", "rename"} \/ established => target \in pairedWith

LEMMA ForgottenStep ==
  ASSUME SessInv, Forgotten, [Next]_vars
  PROVE  Forgotten'
<1> USE DEF Forgotten, Forgets, Attempting, Linked, Setup, Teardown, target_, outcome, world
<1>1. TypeOK /\ Trust
  BY DEF SessInv
<1>2. CASE Begin
  BY <1>1, <1>2 DEF Begin, Trust
<1>3. CASE Wait \/ Stop \/ Return
  BY <1>3 DEF Wait, Stop, Return
<1>4. CASE Select
  BY <1>4 DEF Select
<1>5. ASSUME NEW c \in Controllers, Acquire(c) PROVE Forgotten'
  BY <1>1, <1>5 DEF Acquire, Trust
<1>6. CASE AcquireFails \/ Initialize \/ SetupEnds
  BY <1>6 DEF AcquireFails, Initialize, SetupEnds
<1>7. CASE Subscribe
  BY <1>1, <1>7 DEF Subscribe, Trust
<1>8. CASE Pair
  BY <1>8 DEF Pair
<1>9. CASE WriteTemporary \/ RemoveOld
  BY <1>9 DEF WriteTemporary, RemoveOld
<1>10. CASE Establish
  BY <1>10 DEF Establish
<1>11. CASE Disconnected \/ Revoke \/ NeutralInput \/ NeutralRumble \/ CloseLink
  BY <1>11 DEF Disconnected, Revoke, NeutralInput, NeutralRumble, CloseLink
<1>12. CASE Settle
  BY <1>12 DEF Settle
<1>13. CASE WriteRumble \/ LinkLost \/ HostRumble \/ Cancel \/ Restart \/ UNCHANGED vars
  BY <1>13 DEF WriteRumble, LinkLost, HostRumble, Cancel, Restart, vars
<1>14. ASSUME NEW from \in 1..MaxLinks, Notify(from) PROVE Forgotten'
  BY <1>14 DEF Notify
<1>15. QED
  BY <1>2, <1>3, <1>4, <1>5, <1>6, <1>7, <1>8, <1>9, <1>10, <1>11, <1>12, <1>13, <1>14
  DEF Next, Supervise, Attempt, World

\* "Forget the saved controller and pair again" (README) holds unless the user
\* also names the controller: ForgetPairsAgain with the condition it misses.
THEOREM ForgetPairsDiscovered ==
  Spec => [](established /\ options.forget /\ options.explicit = None
               => target \in pairedWith)
<1>1. Init => Forgotten
  BY DEF Init, Forgotten
<1>2. Spec => []Forgotten
  BY <1>1, SessInvariant, ForgottenStep, PTL DEF Spec
<1>3. SessInv /\ Forgotten
        => (established /\ options.forget /\ options.explicit = None
              => target \in pairedWith)
  BY DEF SessInv, Trust, Forgotten, Forgets, Setup, Teardown
<1>4. QED BY <1>2, <1>3, SessInvariant, PTL
=============================================================================
