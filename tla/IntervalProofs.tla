--------------------------- MODULE IntervalProofs ---------------------------
(***************************************************************************)
(* Proofs about Interval, for any number of events and any limit of the    *)
(* drain: a report names only intervals of the connection of the socket,   *)
(* and only that connection is asked for another one.                      *)
(*                                                                         *)
(* Neither holds by what the program knows alone: the events it has not    *)
(* read yet may tell that the connection has ended.  The invariant says    *)
(* what becomes of the program's knowledge once it reads them: an event    *)
(* that starts or ends a connection ends the epoch of the one before, so   *)
(* only the part of the queue before the first of them matters.            *)
(***************************************************************************)
EXTENDS Interval, SequenceTheorems, TLAPS

EventSet == [kind : {"connected", "disconnected", "updated", "failed", "refused",
                     "accepted", "malformed"},
             match : {"yes", "role", "no"}, interval : Interval \cup {"none"}]

\* The event ends an epoch of the handle, or starts one.
Turns(e) == e.kind \in {"connected", "disconnected"}

\* No connection is started or ended in the queue, or only by event i.
Quiet == \A j \in 1..Len(queue) : ~Turns(queue[j])
OnlyTurn(i) == \A j \in 1..Len(queue) : Turns(queue[j]) <=> j = i

\* The event reports an interval of our handle.
Reports(e) == e.kind = "updated" /\ e.match = "yes"

\* Who has the handle is a controller of ours, in the role we need.
OurController == link = "again" \/ (link = "ours" /\ central)

\* While the socket is connected, nobody else gets its handle.
Socket ==
  /\ up => link \in {"ours", "none"}
  /\ phase = "connecting" => ~up

\* The connection the program believes in, or the only one it can come to believe
\* in, is the one that has the handle; and if that is ours, it had the intervals
\* that were read and those that are still to be read.
Belief ==
  /\ state = "live" /\ Quiet =>
       /\ OurController
       /\ link = "ours" =>
            /\ seen \in had
            /\ \A j \in 1..Len(queue) : Reports(queue[j]) => queue[j].interval \in had
  /\ state = "unseen" =>
       \A i \in 1..Len(queue) :
         queue[i].kind = "connected" /\ queue[i].match = "yes" /\ OnlyTurn(i) =>
           /\ OurController
           /\ link = "ours" =>
                /\ queue[i].interval \in had
                /\ \A j \in 1..Len(queue) :
                     j > i /\ Reports(queue[j]) => queue[j].interval \in had

Checked == {"submit", "send", "wait", "recheck"}

\* Once the drain found our connection to have the handle, the epoch is its own,
\* even when the connection has ended since.
Epoch ==
  /\ phase = "check" /\ up /\ state = "live" => checkedOn = "ours" /\ central
  /\ phase \in Checked => checkedOn = "ours" /\ central /\ state # "unseen"
  /\ phase \in {"check"} \cup Checked /\ state = "live" /\ checkedOn = "ours" =>
       /\ seen \in had
       /\ Quiet => link = "ours"
       /\ \A j \in 1..Len(queue) :
            /\ Reports(queue[j])
            /\ \A k \in 1..Len(queue) : k < j => ~Turns(queue[k])
            => queue[j].interval \in had

\* A confirmed request is over.
Confirmed == preference = "confirmed" => phase = "done"

IntervalInv == /\ Socket /\ Belief /\ Epoch /\ Confirmed
               /\ ReportIsOfLink /\ OnlyOurLinkIsAsked

-----------------------------------------------------------------------------
(* The type invariant, and what emitting and reading do to the queue. *)

LEMMA QueueType == TypeOK => queue \in Seq(EventSet) /\ Len(queue) \in Nat
  BY LenProperties DEF TypeOK, EventSet

LEMMA EmitEffect ==
  ASSUME TypeOK, NEW e \in EventSet, Emit(e)
  PROVE  /\ queue' \in Seq(EventSet) /\ Len(queue') = Len(queue) + 1
         /\ Len(queue) \in Nat /\ emitted' \in 0..MaxEvents
         /\ queue'[Len(queue) + 1] = e
         /\ \A j \in 1..Len(queue) : queue'[j] = queue[j]
<1>1. queue \in Seq(EventSet) /\ Len(queue) \in Nat
  BY QueueType
<1>2. queue' = Append(queue, e)
  BY DEF Emit
<1>3. emitted' \in 0..MaxEvents
  BY IntervalAssumption DEF TypeOK, Emit
<1>4. QED BY <1>1, <1>2, <1>3, AppendProperties

\* What Connection::observe makes of any event.
LEMMA ObserveType ==
  ASSUME TypeOK, NEW e \in EventSet
  PROVE  /\ Observe(e).state \in {"unseen", "live", "foreign", "stale"}
         /\ Observe(e).seen \in Interval \cup {"none"}
         /\ Observe(e).step \in {"pending", "updated", "refused", "error"}
  BY DEF TypeOK, EventSet, Observe, ObserveConnected, ObserveDisconnected, ObserveUpdated,
     Says, Nothing

LEMMA ReadEffect ==
  ASSUME TypeOK, Read
  PROVE  /\ queue' \in Seq(EventSet) /\ Len(queue') = Len(queue) - 1
         /\ Len(queue) \in Nat \ {0} /\ Head(queue) = queue[1] /\ queue[1] \in EventSet
         /\ \A j \in 1..(Len(queue) - 1) : queue'[j] = queue[j + 1]
         /\ state' \in {"unseen", "live", "foreign", "stale"}
         /\ seen' \in Interval \cup {"none"}
         /\ Observe(Head(queue)).step \in {"pending", "updated", "refused", "error"}
<1>1. queue \in Seq(EventSet) /\ Len(queue) \in Nat /\ queue # <<>>
  BY QueueType DEF Read
<1>2. queue' = Tail(queue)
  BY DEF Read
<1>3. Head(queue) = queue[1] /\ Len(queue) # 0 /\ queue[1] \in EventSet
  BY <1>1, EmptySeq, HeadTailProperties, ElementOfSeq
<1>4. QED BY <1>1, <1>2, <1>3, HeadTailProperties, ObserveType DEF Read

LEMMA TypeCorrectStep == TypeOK /\ [Next]_vars => TypeOK'
<1> SUFFICES ASSUME TypeOK, [Next]_vars PROVE TypeOK'
  OBVIOUS
<1> USE DEF controller, connection, report
<1>1. ASSUME NEW l \in {"ours", "again", "other"}, Connect(l) PROVE TypeOK'
  <2>1. PICK i \in Interval :
          /\ Emit(Event("connected", IF l = "other" THEN "no"
                                     ELSE IF l = "ours" /\ ~central THEN "role"
                                     ELSE "yes", i))
          /\ had' = IF l = "ours" THEN had \cup {i} ELSE had
    BY <1>1 DEF Connect
  <2>2. queue' \in Seq(EventSet) /\ emitted' \in 0..MaxEvents
    BY <2>1, EmitEffect DEF Event, EventSet
  <2>3. QED BY <1>1, <2>1, <2>2 DEF Connect, TypeOK, EventSet
<1>2. CASE Disconnect
  <2>1. queue' \in Seq(EventSet) /\ emitted' \in 0..MaxEvents
    BY <1>2, EmitEffect DEF Disconnect, Event, EventSet
  <2>2. QED BY <1>2, <2>1 DEF Disconnect, TypeOK, EventSet
<1>3. CASE Update
  <2>1. queue' \in Seq(EventSet) /\ emitted' \in 0..MaxEvents
    BY <1>3, EmitEffect DEF Update, Event, EventSet
  <2>2. had' \subseteq Interval
    BY <1>3 DEF Update, TypeOK
  <2>3. QED BY <1>3, <2>1, <2>2 DEF Update, TypeOK, EventSet
<1>4. CASE Rumour
  <2>1. queue' \in Seq(EventSet) /\ emitted' \in 0..MaxEvents
    BY <1>4, EmitEffect DEF Rumour, Event, EventSet
  <2>2. QED BY <1>4, <2>1 DEF Rumour, TypeOK, EventSet
<1>5. CASE Drain
  <2>1. drained' \in 0..DrainLimit /\ phase' \in {phase, "done"}
    BY <1>5, IntervalAssumption DEF Drain, Done, TypeOK
  <2>2. QED BY <1>5, <2>1, ReadEffect DEF Drain, TypeOK, EventSet
<1>6. CASE Receive
  <2>1. phase' \in {"done", "recheck"} /\ step' \in {"pending", "updated"}
        /\ preference' \in {preference, "refused"}
    BY <1>6 DEF Receive, Done, TypeOK
  <2>2. QED BY <1>6, <2>1, ReadEffect DEF Receive, TypeOK, EventSet
<1>7. CASE Notice \/ Attached \/ Handle \/ DrainFails \/ Drained \/ Send \/ Timeout
  BY <1>7 DEF Notice, Attached, Handle, DrainFails, Drained, Send, Timeout, Done, TypeOK
<1>8. CASE CheckDrained \/ CheckSubmit \/ Recheck
  BY <1>8 DEF CheckDrained, CheckSubmit, Recheck, Check, Valid, Done, TypeOK
<1>9. CASE UNCHANGED vars
  BY <1>9 DEF vars, TypeOK
<1>10. QED
  BY <1>1, <1>2, <1>3, <1>4, <1>5, <1>6, <1>7, <1>8, <1>9 DEF Next

-----------------------------------------------------------------------------
(* The events of the kernel. *)

\* What an event tells of the connection that has the handle after it.
LEMMA Emitting ==
  ASSUME IntervalInv, (\E l \in {"ours", "again", "other"} : Connect(l)) \/ Disconnect
                      \/ Update \/ Rumour
  PROVE  /\ had \subseteq had'
         /\ UNCHANGED <<central, up, phase, drained, state, seen, step, observed,
                        preference, checkedOn>>
         /\ up => link' \in {"ours", "none"}
         /\ \E e \in EventSet :
              /\ Emit(e)
              /\ ~Turns(e) => link' = link
              /\ Reports(e) /\ link = "ours" => e.interval \in had'
              /\ e.kind = "connected" /\ e.match = "yes" =>
                   OurController' /\ (link' = "ours" => e.interval \in had')
<1> USE DEF connection, report, Event, EventSet, Turns, Reports, OurController
<1>0. up => link \in {"ours", "none"}
  BY DEF IntervalInv, Socket
<1>1. ASSUME NEW l \in {"ours", "again", "other"}, Connect(l),
             NEW i \in Interval,
             Emit(Event("connected", IF l = "other" THEN "no"
                                     ELSE IF l = "ours" /\ ~central THEN "role"
                                     ELSE "yes", i)),
             had' = IF l = "ours" THEN had \cup {i} ELSE had
      PROVE  \E e \in EventSet :
               /\ Emit(e) /\ Turns(e)
               /\ e.kind = "connected" /\ ~Reports(e)
               /\ e.match = "yes" =>
                    OurController' /\ (link' = "ours" => e.interval \in had')
  <2> DEFINE e == Event("connected", IF l = "other" THEN "no"
                                     ELSE IF l = "ours" /\ ~central THEN "role"
                                     ELSE "yes", i)
  <2>1. e \in EventSet /\ e.kind = "connected" /\ e.interval = i
    OBVIOUS
  <2>2. e.match = "yes" => OurController' /\ (link' = "ours" => i \in had')
    BY <1>1 DEF Connect
  <2>3. QED BY <1>1, <2>1, <2>2
<1>2. ASSUME NEW l \in {"ours", "again", "other"}, Connect(l)
      PROVE  /\ ~up /\ had \subseteq had'
             /\ UNCHANGED <<central, up, phase, drained, connection, step, report, checkedOn>>
             /\ \E e \in EventSet :
                  /\ Emit(e) /\ Turns(e)
                  /\ e.kind = "connected" /\ ~Reports(e)
                  /\ e.match = "yes" =>
                       OurController' /\ (link' = "ours" => e.interval \in had')
  <2>1. PICK i \in Interval :
          /\ Emit(Event("connected", IF l = "other" THEN "no"
                                     ELSE IF l = "ours" /\ ~central THEN "role"
                                     ELSE "yes", i))
          /\ had' = IF l = "ours" THEN had \cup {i} ELSE had
    BY <1>2 DEF Connect
  <2>2. ~up /\ UNCHANGED <<central, up, phase, drained, connection, step, report, checkedOn>>
    BY <1>2 DEF Connect
  <2>3. had \subseteq had'
    BY <2>1
  <2>4. QED BY <1>1, <1>2, <2>1, <2>2, <2>3
<1>3. CASE Disconnect
  <2>1. Event("disconnected", "yes", "none") \in EventSet
    OBVIOUS
  <2>2. QED BY <1>3, <2>1 DEF Disconnect
<1>4. CASE Update
  <2>1. PICK i \in Interval :
          /\ Emit(Event("updated", "yes", i))
          /\ had' = IF link = "ours" THEN had \cup {i} ELSE had
    BY <1>4 DEF Update
  <2>2. Event("updated", "yes", i) \in EventSet
    OBVIOUS
  <2>3. QED BY <1>0, <1>4, <2>1, <2>2 DEF Update
<1>5. CASE Rumour
  <2>1. \E e \in EventSet : Emit(e) /\ ~Turns(e) /\ ~Reports(e)
    <3>1. ASSUME NEW k \in {"failed", "refused", "accepted", "malformed"},
                 Emit(Event(k, "yes", "none"))
          PROVE  \E e \in EventSet : Emit(e) /\ ~Turns(e) /\ ~Reports(e)
      <4>1. Event(k, "yes", "none") \in EventSet
        OBVIOUS
      <4>2. QED BY <3>1, <4>1
    <3>2. ASSUME NEW i \in Interval, Emit(Event("updated", "no", i))
          PROVE  \E e \in EventSet : Emit(e) /\ ~Turns(e) /\ ~Reports(e)
      <4>1. Event("updated", "no", i) \in EventSet
        OBVIOUS
      <4>2. QED BY <3>2, <4>1
    <3>3. QED BY <1>5, <3>1, <3>2 DEF Rumour
  <2>2. QED BY <1>0, <1>5, <2>1 DEF Rumour
<1>6. QED BY <1>2, <1>3, <1>4, <1>5

\* The kernel takes the invariant on, whatever it queues.
LEMMA KernelStep ==
  ASSUME IntervalInv, TypeOK', (\E l \in {"ours", "again", "other"} : Connect(l))
                               \/ Disconnect \/ Update \/ Rumour
  PROVE  IntervalInv'
<1>1. PICK e \in EventSet :
        /\ Emit(e)
        /\ ~Turns(e) => link' = link
        /\ Reports(e) /\ link = "ours" => e.interval \in had'
        /\ e.kind = "connected" /\ e.match = "yes" =>
             OurController' /\ (link' = "ours" => e.interval \in had')
  BY Emitting
<1>2. /\ had \subseteq had'
      /\ up => link' \in {"ours", "none"}
      /\ UNCHANGED <<central, up, phase, drained, state, seen, step, observed, preference,
                     checkedOn>>
  BY Emitting
<1>3. /\ Len(queue') = Len(queue) + 1 /\ Len(queue) \in Nat
      /\ queue'[Len(queue) + 1] = e
      /\ \A j \in 1..Len(queue) : queue'[j] = queue[j]
  BY <1>1, EmitEffect DEF IntervalInv, ReportIsOfLink
<1>4. 1..Len(queue') = 1..Len(queue) \cup {Len(queue) + 1}
  BY <1>3
<1>5. Quiet' => Quiet /\ link' = link
  BY <1>1, <1>3, <1>4 DEF Quiet
<1>6. Socket'
  BY <1>2 DEF IntervalInv, Socket
<1>7. Belief'
  <2>1. ASSUME state = "live", Quiet'
        PROVE  /\ OurController'
               /\ link' = "ours" =>
                    /\ seen \in had'
                    /\ \A j \in 1..Len(queue') :
                         Reports(queue'[j]) => queue'[j].interval \in had'
    <3>1. OurController' /\ link' = link
      BY <1>2, <1>5, <2>1 DEF IntervalInv, Belief, OurController
    <3>2. QED BY <1>1, <1>2, <1>3, <1>4, <1>5, <2>1, <3>1 DEF IntervalInv, Belief
  <2>2. ASSUME state = "unseen", NEW i \in 1..Len(queue'), queue'[i].kind = "connected",
               queue'[i].match = "yes", OnlyTurn(i)'
        PROVE  /\ OurController'
               /\ link' = "ours" =>
                    /\ queue'[i].interval \in had'
                    /\ \A j \in 1..Len(queue') :
                         j > i /\ Reports(queue'[j]) => queue'[j].interval \in had'
    <3>1. CASE i = Len(queue) + 1
      BY <1>1, <1>3, <1>4, <2>2, <3>1
    <3>2. CASE i # Len(queue) + 1
      <4>1. i \in 1..Len(queue) /\ queue[i] = queue'[i] /\ OnlyTurn(i) /\ ~Turns(e)
        BY <1>3, <1>4, <2>2, <3>2 DEF OnlyTurn
      <4>2. link' = link
        BY <1>1, <4>1
      <4>3. /\ OurController
            /\ link = "ours" =>
                 /\ queue[i].interval \in had
                 /\ \A j \in 1..Len(queue) :
                      j > i /\ Reports(queue[j]) => queue[j].interval \in had
        BY <2>2, <4>1 DEF IntervalInv, Belief
      <4>4. QED BY <1>1, <1>2, <1>3, <1>4, <4>1, <4>2, <4>3 DEF OurController
    <3>3. QED BY <3>1, <3>2
  <2>3. QED BY <1>2, <2>1, <2>2 DEF Belief
<1>8. Epoch'
  <2>1. ASSUME phase \in {"check"} \cup Checked, state = "live", checkedOn = "ours"
        PROVE  /\ seen \in had'
               /\ Quiet' => link' = "ours"
               /\ \A j \in 1..Len(queue') :
                    /\ Reports(queue'[j])
                    /\ \A k \in 1..Len(queue') : k < j => ~Turns(queue'[k])
                    => queue'[j].interval \in had'
    <3>1. /\ seen \in had
          /\ Quiet => link = "ours"
          /\ \A j \in 1..Len(queue) :
               /\ Reports(queue[j])
               /\ \A k \in 1..Len(queue) : k < j => ~Turns(queue[k])
               => queue[j].interval \in had
      BY <2>1 DEF IntervalInv, Epoch
    <3>2. ASSUME NEW j \in 1..Len(queue'), Reports(queue'[j]),
                 \A k \in 1..Len(queue') : k < j => ~Turns(queue'[k])
          PROVE  queue'[j].interval \in had'
      <4>1. CASE j \in 1..Len(queue)
        BY <1>2, <1>3, <1>4, <3>1, <3>2, <4>1
      <4>2. CASE j = Len(queue) + 1
        <5>1. Quiet
          BY <1>3, <1>4, <3>2, <4>2 DEF Quiet
        <5>2. QED BY <1>1, <1>3, <3>1, <3>2, <4>2, <5>1
      <4>3. QED BY <1>4, <4>1, <4>2
    <3>3. QED BY <1>2, <1>5, <3>1, <3>2
  <2>2. QED BY <1>2, <2>1 DEF IntervalInv, Epoch
<1>9. Confirmed' /\ OnlyOurLinkIsAsked' /\ ReportIsOfLink'
  BY <1>2 DEF IntervalInv, Confirmed, OnlyOurLinkIsAsked, ReportIsOfLink
<1>10. QED BY <1>6, <1>7, <1>8, <1>9 DEF IntervalInv

-----------------------------------------------------------------------------
(* The program reads an event. *)

\* Reading an event brings the belief up to what was left in the queue.
LEMMA Reading ==
  ASSUME IntervalInv, Read, UNCHANGED <<link, central, had>>
  PROVE  /\ Belief'
         /\ state # "unseen" => state' # "unseen"
         /\ state # "unseen" /\ state' = "live" =>
              /\ state = "live" /\ ~Turns(queue[1])
              /\ seen' = (IF Reports(queue[1]) THEN queue[1].interval ELSE seen)
<1> DEFINE e == queue[1]
<1>1. /\ Len(queue') = Len(queue) - 1 /\ Len(queue) \in Nat \ {0}
      /\ Head(queue) = e /\ e \in EventSet
      /\ \A j \in 1..Len(queue') : queue'[j] = queue[j + 1] /\ j + 1 \in 1..Len(queue)
  BY ReadEffect DEF IntervalInv, ReportIsOfLink
<1>2. state' = Observe(e).state /\ seen' = Observe(e).seen
  BY <1>1 DEF Read
<1>3. \A j \in 1..Len(queue) : j = 1 \/ (j - 1 \in 1..Len(queue') /\ queue[j] = queue'[j - 1])
  BY <1>1
<1> HIDE DEF e
<1>4. ASSUME state # "unseen", state' = "live"
      PROVE  /\ state = "live" /\ ~Turns(e)
             /\ seen' = (IF Reports(e) THEN e.interval ELSE seen)
  BY <1>1, <1>2, <1>4 DEF EventSet, Observe, ObserveConnected, ObserveDisconnected,
     ObserveUpdated, Says, Nothing, Turns, Reports
<1>5. ASSUME state = "unseen", state' = "live"
      PROVE  e.kind = "connected" /\ e.match = "yes" /\ seen' = e.interval
  BY <1>1, <1>2, <1>5 DEF EventSet, Observe, ObserveConnected, ObserveDisconnected,
     ObserveUpdated, Says, Nothing
<1>6. state' = "unseen" => state = "unseen" /\ ~Turns(e)
  BY <1>1, <1>2 DEF EventSet, Observe, ObserveConnected, ObserveDisconnected,
     ObserveUpdated, Says, Nothing, Turns
<1>7. ASSUME state' = "live", Quiet'
      PROVE  /\ OurController
             /\ link = "ours" =>
                  /\ seen' \in had
                  /\ \A j \in 1..Len(queue') : Reports(queue'[j]) => queue'[j].interval \in had
  <2>1. CASE state = "unseen"
    <3>1. e.kind = "connected" /\ e.match = "yes" /\ seen' = e.interval
      BY <1>5, <1>7, <2>1
    <3>2. 1 \in 1..Len(queue) /\ OnlyTurn(1)
      BY <1>1, <1>3, <1>7, <3>1 DEF OnlyTurn, Quiet, Turns, e
    <3>3. /\ OurController
          /\ link = "ours" =>
               /\ e.interval \in had
               /\ \A j \in 1..Len(queue) :
                    j > 1 /\ Reports(queue[j]) => queue[j].interval \in had
      BY <2>1, <3>1, <3>2 DEF IntervalInv, Belief, e
    <3>4. QED BY <1>1, <3>1, <3>3
  <2>2. CASE state # "unseen"
    <3>1. /\ state = "live" /\ ~Turns(e)
          /\ seen' = (IF Reports(e) THEN e.interval ELSE seen)
      BY <1>4, <1>7, <2>2
    <3>2. Quiet
      BY <1>1, <1>3, <1>7, <3>1 DEF Quiet, e
    <3>3. /\ OurController
          /\ link = "ours" =>
               /\ seen \in had
               /\ \A j \in 1..Len(queue) : Reports(queue[j]) => queue[j].interval \in had
      BY <3>1, <3>2 DEF IntervalInv, Belief
    <3>4. QED BY <1>1, <3>1, <3>3 DEF e
  <2>3. QED BY <2>1, <2>2
<1>8. ASSUME state' = "unseen", NEW i \in 1..Len(queue'), queue'[i].kind = "connected",
             queue'[i].match = "yes", OnlyTurn(i)'
      PROVE  /\ OurController
             /\ link = "ours" =>
                  /\ queue'[i].interval \in had
                  /\ \A j \in 1..Len(queue') :
                       j > i /\ Reports(queue'[j]) => queue'[j].interval \in had
  <2>1. i + 1 \in 1..Len(queue) /\ queue[i + 1] = queue'[i] /\ OnlyTurn(i + 1)
    BY <1>1, <1>3, <1>6, <1>8 DEF OnlyTurn, e
  <2>2. /\ OurController
        /\ link = "ours" =>
             /\ queue[i + 1].interval \in had
             /\ \A j \in 1..Len(queue) :
                  j > i + 1 /\ Reports(queue[j]) => queue[j].interval \in had
    BY <1>6, <1>8, <2>1 DEF IntervalInv, Belief
  <2>3. ASSUME link = "ours", NEW j \in 1..Len(queue'), j > i, Reports(queue'[j])
        PROVE  queue'[j].interval \in had
    <3>1. j + 1 \in 1..Len(queue) /\ j + 1 > i + 1 /\ queue[j + 1] = queue'[j]
      BY <1>1, <2>3
    <3>2. QED BY <2>2, <2>3, <3>1
  <2>4. QED BY <2>1, <2>2, <2>3
<1>9. OurController' <=> OurController
  BY DEF OurController
<1>10. Belief'
  BY <1>7, <1>8, <1>9 DEF Belief
<1>11. QED BY <1>4, <1>6, <1>10 DEF e

\* While the connection is checked, the drain or the wait reads.
LEMMA ReadingStep ==
  ASSUME IntervalInv, TypeOK', Drain \/ Receive
  PROVE  IntervalInv'
<1>1. Read /\ UNCHANGED <<link, central, had, up, checkedOn, observed>>
  BY DEF Drain, Receive, report
<1>2. /\ Belief'
      /\ state # "unseen" => state' # "unseen"
      /\ state # "unseen" /\ state' = "live" =>
           /\ state = "live" /\ ~Turns(queue[1])
           /\ seen' = (IF Reports(queue[1]) THEN queue[1].interval ELSE seen)
  BY <1>1, Reading
<1>3. Socket'
  BY <1>1 DEF IntervalInv, Socket, Drain, Receive, Done
<1>4. phase' = "done" \/ (phase = "drain" /\ phase' = "drain")
                      \/ (phase = "wait" /\ phase' = "recheck")
  BY DEF Drain, Receive, Done
<1>5. Epoch'
  <2>1. CASE phase' \in {"done", "drain"}
    BY <2>1 DEF Epoch, Checked
  <2>2. CASE phase = "wait" /\ phase' = "recheck"
    <3>1. checkedOn = "ours" /\ central /\ state # "unseen"
      BY <2>2 DEF IntervalInv, Epoch, Checked
    <3>2. ASSUME state' = "live"
          PROVE  /\ seen' \in had
                 /\ Quiet' => link = "ours"
                 /\ \A j \in 1..Len(queue') :
                      /\ Reports(queue'[j])
                      /\ \A k \in 1..Len(queue') : k < j => ~Turns(queue'[k])
                      => queue'[j].interval \in had
      <4>1. /\ Len(queue') = Len(queue) - 1 /\ Len(queue) \in Nat \ {0}
            /\ \A j \in 1..Len(queue') : queue'[j] = queue[j + 1] /\ j + 1 \in 1..Len(queue)
        BY <1>1, ReadEffect DEF IntervalInv, ReportIsOfLink
      <4>2. /\ state = "live" /\ ~Turns(queue[1]) /\ 1 \in 1..Len(queue)
            /\ seen' = (IF Reports(queue[1]) THEN queue[1].interval ELSE seen)
        BY <1>2, <3>1, <3>2, <4>1
      <4>3. /\ seen \in had
            /\ Quiet => link = "ours"
            /\ \A j \in 1..Len(queue) :
                 /\ Reports(queue[j])
                 /\ \A k \in 1..Len(queue) : k < j => ~Turns(queue[k])
                 => queue[j].interval \in had
        BY <2>2, <3>1, <4>2 DEF IntervalInv, Epoch, Checked
      <4>4. \A j \in 1..Len(queue) : j = 1 \/ (j - 1 \in 1..Len(queue') /\ queue[j] = queue'[j - 1])
        BY <4>1
      <4>5. Quiet' => link = "ours"
        BY <4>1, <4>2, <4>3, <4>4 DEF Quiet
      <4>6. seen' \in had
        BY <4>2, <4>3
      <4>7. ASSUME NEW j \in 1..Len(queue'), Reports(queue'[j]),
                   \A k \in 1..Len(queue') : k < j => ~Turns(queue'[k])
            PROVE  queue'[j].interval \in had
        <5>1. \A k \in 1..Len(queue) : k < j + 1 => ~Turns(queue[k])
          BY <4>1, <4>2, <4>4, <4>7
        <5>2. QED BY <4>1, <4>3, <4>7, <5>1
      <4>8. QED BY <4>5, <4>6, <4>7
    <3>3. QED BY <1>1, <1>2, <2>2, <3>1, <3>2 DEF Epoch, Checked
  <2>3. QED BY <1>4, <2>1, <2>2
<1>6. Confirmed'
  BY DEF IntervalInv, Confirmed, Drain, Receive, Done, report
<1>7. OnlyOurLinkIsAsked'
  BY <1>1, <1>4 DEF IntervalInv, OnlyOurLinkIsAsked
<1>8. ReportIsOfLink'
  <2>1. preference' = "confirmed" => preference = "confirmed"
    BY DEF Drain, Receive, report
  <2>2. QED BY <1>1, <2>1 DEF IntervalInv, ReportIsOfLink
<1>9. QED BY <1>2, <1>3, <1>5, <1>6, <1>7, <1>8 DEF IntervalInv

-----------------------------------------------------------------------------
(* The other steps of the program, and the theorems. *)

\* Steps that leave the events, and what was read of them, alone.
LEMMA BeliefStays ==
  ASSUME Belief, UNCHANGED <<link, central, queue, state, seen, had>>
  PROVE  Belief' /\ (Quiet' <=> Quiet)
  BY DEF Belief, Quiet, OnlyTurn, OurController

\* With the queue empty, the belief is what the kernel knows: this starts the epoch.
LEMMA DrainedStep ==
  ASSUME IntervalInv, TypeOK', Drained
  PROVE  IntervalInv'
<1>1. /\ queue = <<>> /\ queue' = queue /\ Len(queue) = 0
      /\ phase = "drain" /\ phase' = "check" /\ checkedOn' = link
      /\ UNCHANGED <<link, central, up, emitted, had, drained, state, seen, step, observed,
                     preference>>
  BY EmptySeq DEF Drained, controller, connection, report
<1>2. Quiet
  BY <1>1 DEF Quiet
<1>3. state = "live" => OurController /\ (link = "ours" => seen \in had)
  BY <1>2 DEF IntervalInv, Belief
<1>4. Epoch'
  BY <1>1, <1>3 DEF IntervalInv, Socket, Epoch, Checked, OurController
<1>5. Belief'
  BY <1>1, BeliefStays DEF IntervalInv
<1>6. Socket' /\ Confirmed' /\ OnlyOurLinkIsAsked' /\ ReportIsOfLink'
  BY <1>1 DEF IntervalInv, Socket, Confirmed, OnlyOurLinkIsAsked, ReportIsOfLink
<1>7. QED BY <1>4, <1>5, <1>6 DEF IntervalInv

\* The checks of the connection, before and after the command.
LEMMA CheckStep ==
  ASSUME IntervalInv, TypeOK', CheckDrained \/ CheckSubmit \/ Recheck
  PROVE  IntervalInv'
<1>1. UNCHANGED <<link, central, queue, emitted, had, up, drained, state, seen, step, checkedOn>>
  BY DEF CheckDrained, CheckSubmit, Recheck, controller, connection
<1>2. phase \in {"check", "submit", "recheck"} /\ preference # "confirmed"
  BY DEF IntervalInv, Confirmed, CheckDrained, CheckSubmit, Recheck
<1>3. \/ /\ Valid /\ phase' \in Checked /\ observed' \in {observed, seen}
         /\ preference' = preference
      \/ /\ phase' = "done" /\ observed' \in {"none"} \cup (IF Valid THEN {seen} ELSE {})
         /\ preference' = "confirmed" => Valid /\ observed' = "target"
  BY <1>2 DEF CheckDrained, CheckSubmit, Recheck, Check, Done, Checked
<1>4. Valid => checkedOn = "ours" /\ central /\ seen \in had
  BY <1>2 DEF IntervalInv, Epoch, Checked, Valid
<1>5. Belief' /\ (Quiet' <=> Quiet)
  BY <1>1, BeliefStays DEF IntervalInv
<1>6. Epoch'
  <2>1. CASE phase' = "done"
    BY <2>1 DEF Epoch, Checked
  <2>2. CASE Valid /\ phase' \in Checked
    BY <1>1, <1>2, <1>4, <1>5, <2>2 DEF IntervalInv, Epoch, Checked, Valid
  <2>3. QED BY <1>3, <2>1, <2>2
<1>7. ReportIsOfLink'
  BY <1>1, <1>2, <1>3, <1>4 DEF IntervalInv, ReportIsOfLink
<1>8. Confirmed' /\ OnlyOurLinkIsAsked'
  BY <1>1, <1>2, <1>3, <1>4 DEF Confirmed, OnlyOurLinkIsAsked
<1>9. Socket'
  BY <1>1, <1>2, <1>3 DEF IntervalInv, Socket, Checked
<1>10. QED BY <1>5, <1>6, <1>7, <1>8, <1>9 DEF IntervalInv

LEMMA OtherStep ==
  ASSUME IntervalInv, TypeOK',
         Notice \/ Attached \/ Handle \/ DrainFails \/ Send \/ Timeout \/ UNCHANGED vars
  PROVE  IntervalInv'
<1> USE DEF Notice, Attached, Handle, DrainFails, Send, Timeout, Done, vars, controller,
            connection, report
<1>1. UNCHANGED <<link, central, queue, had, state, seen, observed, preference, checkedOn>>
  OBVIOUS
<1>2. Belief' /\ (Quiet' <=> Quiet)
  BY <1>1, BeliefStays DEF IntervalInv
<1>3. \/ phase' = phase /\ (up' => up)
      \/ phase' \in {"handle", "drain", "done"} /\ (up' => up \/ link = "ours")
      \/ phase = "send" /\ phase' = "wait" /\ up' = up
  BY DEF IntervalInv, Socket
<1>4. Socket'
  BY <1>1, <1>3 DEF IntervalInv, Socket
<1>5. Epoch'
  BY <1>1, <1>2, <1>3 DEF IntervalInv, Epoch, Checked
<1>6. OnlyOurLinkIsAsked' /\ ReportIsOfLink'
  BY <1>1, <1>3 DEF IntervalInv, OnlyOurLinkIsAsked, ReportIsOfLink
<1>7. Confirmed'
  BY DEF IntervalInv, Confirmed
<1>8. QED BY <1>2, <1>4, <1>5, <1>6, <1>7 DEF IntervalInv

LEMMA IntervalInitially == Init => IntervalInv
<1> SUFFICES ASSUME Init PROVE IntervalInv
  OBVIOUS
<1>1. queue = <<>> /\ queue \in Seq(EventSet) /\ Len(queue) = 0
  BY EmptySeq DEF Init
<1>2. TypeOK
  <2>1. emitted \in 0..MaxEvents /\ drained \in 0..DrainLimit
    BY IntervalAssumption DEF Init
  <2>2. had \subseteq Interval
    BY DEF Init, Interval
  <2>3. QED BY <1>1, <2>1, <2>2 DEF Init, TypeOK, EventSet
<1>3. Belief /\ Epoch
  BY <1>1 DEF Init, Belief, Epoch, Checked
<1>4. QED
  BY <1>2, <1>3 DEF Init, IntervalInv, Socket, Confirmed, ReportIsOfLink, OnlyOurLinkIsAsked

LEMMA IntervalInvariant == Spec => []IntervalInv
<1>1. IntervalInv /\ [Next]_vars => IntervalInv'
  <2> SUFFICES ASSUME IntervalInv, [Next]_vars PROVE IntervalInv'
    OBVIOUS
  <2>1. TypeOK'
    BY TypeCorrectStep DEF IntervalInv, ReportIsOfLink
  <2>2. QED
    BY <2>1, KernelStep, ReadingStep, DrainedStep, CheckStep, OtherStep DEF Next
<1>2. QED BY <1>1, IntervalInitially, PTL DEF Spec

\* A report names an interval that the connection of the socket had, and calls the
\* request confirmed only when that is the one asked for: Connection::observe
\* takes no update of another handle or another connection for ours.
THEOREM ReportsAreOfOurLink == Spec => []ReportIsOfLink
<1>1. IntervalInv => ReportIsOfLink
  BY DEF IntervalInv
<1>2. QED BY <1>1, IntervalInvariant, PTL

\* The command goes out only for the connection of the socket, in which the bridge
\* is the central: Observer::request asks the socket after the drain.
THEOREM NoOtherLinkIsAsked == Spec => []OnlyOurLinkIsAsked
<1>1. IntervalInv => OnlyOurLinkIsAsked
  BY DEF IntervalInv
<1>2. QED BY <1>1, IntervalInvariant, PTL
=============================================================================
