------------------------------ MODULE Interval ------------------------------
(***************************************************************************)
(* The request for a short connection interval on Linux                    *)
(* (ble/linux/interval.rs): LinuxBluetooth::connect opens an HCI observer, *)
(* connects the ATT socket and then asks once for the interval, on the     *)
(* connection handle of that socket.  A handle names one connection after  *)
(* another, the events name no requester, and other programs use the       *)
(* adapter too; so the code checks the epoch of the handle in the events   *)
(* and asks the socket whether it is still connected.                      *)
(*                                                                         *)
(* The kernel queues an event for the observer before it acts on it, so    *)
(* the socket notices the end of its connection later than the queue.      *)
(* Abstracted: the value of the handle and all events of other handles but *)
(* one; of the parameters only the interval, the one asked for or another. *)
(***************************************************************************)
EXTENDS Naturals, Sequences

CONSTANTS MaxEvents,  \* bound: HCI events while the request lasts
          DrainLimit  \* events a drain reads before it gives up (256)
ASSUME IntervalAssumption == MaxEvents \in Nat /\ DrainLimit \in Nat \ {0}

VARIABLES
  link,       \* who has our handle: "none", "ours" (the connection of the
              \* socket), "other", or "again": another one to our controller
  central,    \* the bridge is the central of our connection
  up,         \* the kernel holds the socket connected
  queue,      \* events the observer has not read
  emitted,    \* number of events so far
  phase,      \* "connecting", "handle", "drain", "check", "submit", "send",
              \* "wait", "recheck", "done"
  drained,    \* events read by the drain
  state,      \* Connection.state: "unseen", "live", "foreign", "stale"
  seen,       \* its interval while "live"
  step,       \* what the last event said: "pending", "updated"
  observed,   \* ConnectionReport.observed_interval
  preference, \* ConnectionReport.preference
  had,        \* history: the intervals our connection had since the observer opened
  checkedOn   \* history: who had the handle when the drain found the queue empty

vars == <<link, central, up, queue, emitted, phase, drained, state, seen, step,
          observed, preference, had, checkedOn>>
controller == <<link, central, queue, emitted, had>>
connection == <<state, seen>>
report == <<observed, preference>>

Interval == {"target", "slow"}

\* match: the event is about our handle, and a connection is one to our
\* controller ("role": to it, but the bridge is not the central).
Event(k, m, i) == [kind |-> k, match |-> m, interval |-> i]

\* The observer is open, or could not be opened.
Init ==
  /\ link \in {"none", "ours", "again", "other"} /\ central \in BOOLEAN
  /\ up = FALSE /\ queue = <<>> /\ emitted = 0
  /\ phase = "connecting" /\ drained = 0
  /\ state = "unseen" /\ seen = "none" /\ step = "pending"
  /\ observed = "none" /\ preference \in {"unconfirmed", "unavailable"}
  /\ had = (IF link = "ours" THEN {"slow"} ELSE {}) /\ checkedOn = "none"

-----------------------------------------------------------------------------
(* The controller and the kernel. *)

Emit(e) ==
  /\ emitted < MaxEvents /\ phase # "done"
  /\ emitted' = emitted + 1 /\ queue' = Append(queue, e)

\* The kernel handles one event after the other; our connection is made once.
Connect(l) ==
  /\ link = "none" /\ ~up
  /\ l = "ours" => (had = {} /\ phase = "connecting")
  /\ link' = l
  /\ \E i \in Interval :
       /\ Emit(Event("connected", IF l = "other" THEN "no"
                                  ELSE IF l = "ours" /\ ~central THEN "role"
                                  ELSE "yes", i))
       /\ had' = IF l = "ours" THEN had \cup {i} ELSE had
  /\ UNCHANGED <<central, up, phase, drained, connection, step, report, checkedOn>>

Disconnect ==
  /\ link # "none" /\ link' = "none"
  /\ Emit(Event("disconnected", "yes", "none"))
  /\ UNCHANGED <<central, up, phase, drained, connection, step, report, had, checkedOn>>

\* An update asked for by us, by another program or by the controller.
Update ==
  /\ link # "none"
  /\ \E i \in Interval :
       /\ Emit(Event("updated", "yes", i))
       /\ had' = IF link = "ours" THEN had \cup {i} ELSE had
  /\ UNCHANGED <<link, central, up, phase, drained, connection, step, report,
                 checkedOn>>

\* Events that tell nothing of the interval of our handle: a failed update, the
\* status of somebody's request, the update of another handle, a broken event.
Rumour ==
  /\ \/ \E k \in {"failed", "refused", "accepted", "malformed"} :
          Emit(Event(k, "yes", "none"))
     \/ \E i \in Interval : Emit(Event("updated", "no", i))
  /\ UNCHANGED <<link, central, up, phase, drained, connection, step, report, had,
                 checkedOn>>

\* The kernel acts on the end of our connection.
Notice ==
  /\ up /\ link # "ours" /\ up' = FALSE
  /\ UNCHANGED <<controller, phase, drained, connection, step, report, checkedOn>>

-----------------------------------------------------------------------------
(* Connection::observe: what an event makes of the state and says. *)

Says(s, i, what) == [state |-> s, seen |-> i, step |-> what]
Nothing == Says(state, seen, "pending")

\* Fault: the role of the bridge is not looked at.
ObserveConnectedAnyRole(e) ==
  IF state = "unseen"
  THEN IF e.match # "no" THEN Says("live", e.interval, "pending")
       ELSE Says("foreign", "none", "pending")
  ELSE Says("stale", "none", "pending")

ObserveConnected(e) ==
  IF state = "unseen"
  THEN IF e.match = "yes" THEN Says("live", e.interval, "pending")
       ELSE Says("foreign", "none", "pending")
  ELSE Says("stale", "none", "pending")

\* Fault: the handle of an update is not compared.
ObserveUpdatedAnyHandle(e) ==
  IF state = "live" THEN Says("live", e.interval, "updated") ELSE Nothing

ObserveUpdated(e) ==
  IF e.match = "yes" /\ state = "live" THEN Says("live", e.interval, "updated") ELSE Nothing

\* Fault: the end of a connection does not end the epoch.
ObserveDisconnectedLater(e) == Nothing

ObserveDisconnected(e) == Says("stale", "none", "pending")

Observe(e) ==
  CASE e.kind = "connected"    -> ObserveConnected(e)
    [] e.kind = "disconnected" -> ObserveDisconnected(e)
    [] e.kind = "updated"      -> ObserveUpdated(e)
    [] e.kind = "refused"      -> Says(state, seen, "refused")
    [] e.kind = "accepted"     -> Nothing
    [] OTHER                   -> Says(state, seen, "error")

Read ==
  /\ queue # <<>> /\ queue' = Tail(queue)
  /\ state' = Observe(Head(queue)).state /\ seen' = Observe(Head(queue)).seen

-----------------------------------------------------------------------------
(* Observer::request.  An error ends it and leaves the report as it is. *)

Done == phase' = "done"

\* Socket::att returns connected; without an observer there is no request.
Attached ==
  /\ phase = "connecting" /\ link = "ours" /\ up' = TRUE
  /\ phase' = IF preference = "unavailable" THEN "done" ELSE "handle"
  /\ UNCHANGED <<controller, drained, connection, step, report, checkedOn>>

Handle ==
  /\ phase = "handle"
  /\ phase' = IF up THEN "drain" ELSE "done"
  /\ UNCHANGED <<controller, up, drained, connection, step, report, checkedOn>>

Drain ==
  /\ phase = "drain" /\ drained < DrainLimit
  /\ Read /\ drained' = drained + 1
  /\ IF Observe(Head(queue)).step = "error" THEN Done ELSE UNCHANGED phase
  /\ UNCHANGED <<link, central, up, emitted, step, report, had, checkedOn>>

\* Too many events, or the observer fails.
DrainFails ==
  /\ phase = "drain" /\ Done
  /\ UNCHANGED <<controller, up, drained, connection, step, report, checkedOn>>

Drained ==
  /\ phase = "drain" /\ drained < DrainLimit /\ queue = <<>>
  /\ phase' = "check" /\ checkedOn' = link
  /\ UNCHANGED <<controller, up, drained, connection, step, report>>

Valid == up /\ state = "live"

\* A failed check takes the interval back.
Check(next, interval) ==
  IF Valid THEN phase' = next /\ observed' = interval
  ELSE Done /\ observed' = "none"

CheckDrained ==
  /\ phase = "check" /\ Check("submit", seen)
  /\ UNCHANGED <<controller, up, drained, connection, step, preference, checkedOn>>

CheckSubmit ==
  /\ phase = "submit" /\ Check("send", observed)
  /\ UNCHANGED <<controller, up, drained, connection, step, preference, checkedOn>>

\* From here the command is on its way, or it could not be submitted.
Send ==
  /\ phase = "send"
  /\ phase' \in {"wait", "done"}
  /\ UNCHANGED <<controller, up, drained, connection, step, report, checkedOn>>

Receive ==
  /\ phase = "wait" /\ Read
  /\ LET said == Observe(Head(queue)).step
     IN \/ said = "error" /\ Done /\ UNCHANGED <<step, preference>>
        \/ said = "refused" /\ Done /\ preference' = "refused" /\ UNCHANGED step
        \/ /\ said \in {"pending", "updated"} /\ phase' = "recheck"
           /\ step' = said /\ UNCHANGED preference
  /\ UNCHANGED <<link, central, up, emitted, drained, observed, had, checkedOn>>

Recheck ==
  /\ phase = "recheck"
  /\ IF step = "updated" THEN Check("done", seen) ELSE Check("wait", observed)
  /\ preference' = IF step = "updated" /\ Valid /\ seen = "target" THEN "confirmed"
                   ELSE preference
  /\ UNCHANGED <<controller, up, drained, connection, step, checkedOn>>

\* Two seconds have passed, or the observer fails.
Timeout ==
  /\ phase = "wait" /\ Done
  /\ UNCHANGED <<controller, up, drained, connection, step, report, checkedOn>>

Next ==
  \/ \E l \in {"ours", "again", "other"} : Connect(l)
  \/ Disconnect \/ Update \/ Rumour \/ Notice
  \/ Attached \/ Handle \/ Drain \/ DrainFails \/ Drained \/ CheckDrained
  \/ CheckSubmit \/ Send \/ Receive \/ Recheck \/ Timeout

Spec == Init /\ [][Next]_vars

-----------------------------------------------------------------------------
TypeOK ==
  /\ link \in {"none", "ours", "again", "other"} /\ central \in BOOLEAN
  /\ up \in BOOLEAN /\ emitted \in 0..MaxEvents /\ drained \in 0..DrainLimit
  /\ queue \in Seq([kind : {"connected", "disconnected", "updated", "failed",
                            "refused", "accepted", "malformed"},
                    match : {"yes", "role", "no"}, interval : Interval \cup {"none"}])
  /\ phase \in {"connecting", "handle", "drain", "check", "submit", "send", "wait",
                "recheck", "done"}
  /\ state \in {"unseen", "live", "foreign", "stale"}
  /\ seen \in Interval \cup {"none"} /\ step \in {"pending", "updated"}
  /\ observed \in Interval \cup {"none"}
  /\ preference \in {"unconfirmed", "unavailable", "refused", "confirmed"}
  /\ had \subseteq Interval /\ checkedOn \in {"none", "ours", "again", "other"}

\* The interval a report names is one the connection of the socket had, and it is
\* the requested one when the report calls the request confirmed: no update of
\* another handle, of an earlier or a later connection is taken for ours.
ReportIsOfLink ==
  /\ TypeOK
  /\ observed # "none" => observed \in had
  /\ preference = "confirmed" => observed = "target"

\* The command is submitted only for a connection in which the bridge is the
\* central and that, after all that was known when the drain ended, still had
\* the handle ("stale_wrong_peer_role_type_or_handle_never_submits_a_command").
\* It may end between the last check and the command: no interface prevents it.
OnlyOurLinkIsAsked ==
  phase \in {"send", "wait", "recheck"} => checkedOn = "ours" /\ central
==============================================================================
