-------------------------- MODULE UsbSessionProofs --------------------------
(***************************************************************************)
(* Proofs about UrbEngine and UsbSession, for every capacity of the queue, *)
(* keepalive period, set of transfer lengths and number of URBs.           *)
(*                                                                         *)
(* Of the engine: all rests on one inductive invariant, IInv.  OneFate alone*)
(* is not inductive: an answer must be known to go to an URB that is queued*)
(* once.  NothingLeftWaiting only speaks of the time between two handlers; *)
(* DrainProgress extends it into the drain loop: every URB the cursor has  *)
(* passed cannot be answered, which stays true since the drain consumes    *)
(* what it answers with (the dirty flag, the queued responses) and the end *)
(* of the loop gives it for all URBs.  ReportBookkeeping relates the dirty *)
(* flag and report clock of the engine to what the host was shown.         *)
(*                                                                         *)
(* Of the session: it takes only steps of the engine, so IInv holds of it; *)
(* what the host is told is ordered and true, and nothing is kept from it  *)
(* while the session waits.  Both need what each phase of a round knows    *)
(* (Round): before the outputs are taken the replies are written, the      *)
(* outputs that are taken are of answered URBs, and a round that returns to*)
(* the select has drained the queue and written all replies.               *)
(***************************************************************************)
EXTENDS UsbSession, Integers, SequenceTheorems, TLAPS

\* The tuples of variables that the actions leave unchanged together.
USE DEF device, unlinks, statistics, reportState

-----------------------------------------------------------------------------
(* Sequences. *)

\* Removing the element at index i keeps the others in their order.
LEMMA RemoveAtKeepsOthers ==
  ASSUME NEW S, NEW s \in Seq(S), NEW i \in 1..Len(s)
  PROVE  /\ RemoveAt(s, i) \in Seq(S)
         /\ Len(RemoveAt(s, i)) = Len(s) - 1
         /\ \A j \in 1..(Len(s) - 1) :
              RemoveAt(s, i)[j] = IF j < i THEN s[j] ELSE s[j + 1]
<1> DEFINE a == SubSeq(s, 1, i - 1)
           b == SubSeq(s, i + 1, Len(s))
<1>0. Len(s) \in Nat /\ \A j \in 1..Len(s) : s[j] \in S
  BY ElementOfSeq, LenProperties
<1>1. /\ a \in Seq(S) /\ Len(a) = i - 1
      /\ \A j \in 1..(i - 1) : a[j] = s[j]
  <2>1. 1 \in Int /\ i - 1 \in Int /\ \A j \in 1..(i - 1) : s[j] \in S
    BY <1>0
  <2>2. QED BY <2>1, <1>0, SubSeqProperties
<1>2. /\ b \in Seq(S) /\ Len(b) = Len(s) - i
      /\ \A j \in 1..(Len(s) - i) : b[j] = s[j + i]
  <2>1. i + 1 \in Int /\ Len(s) \in Int /\ \A j \in (i + 1)..Len(s) : s[j] \in S
    BY <1>0
  <2>2. QED BY <2>1, <1>0, SubSeqProperties
<1> HIDE DEF a, b
<1>3. /\ a \o b \in Seq(S)
      /\ Len(a \o b) = Len(a) + Len(b)
      /\ \A j \in 1..(Len(a) + Len(b)) :
           (a \o b)[j] = IF j <= Len(a) THEN a[j] ELSE b[j - Len(a)]
  BY <1>1, <1>2, ConcatProperties
<1>4. RemoveAt(s, i) = a \o b
  BY DEF RemoveAt, a, b
<1>5. ASSUME NEW j \in 1..(Len(s) - 1)
      PROVE  (a \o b)[j] = IF j < i THEN s[j] ELSE s[j + 1]
  <2>1. CASE j < i
    BY <2>1, <1>0, <1>1, <1>2, <1>3
  <2>2. CASE ~(j < i)
    <3>1. j - (i - 1) \in 1..(Len(s) - i) /\ ~(j <= Len(a))
      BY <2>2, <1>0, <1>1
    <3>2. (a \o b)[j] = b[j - (i - 1)]
      BY <3>1, <1>0, <1>1, <1>2, <1>3
    <3>3. b[j - (i - 1)] = s[j - (i - 1) + i] /\ j - (i - 1) + i = j + 1
      BY <3>1, <1>0, <1>2
    <3>4. QED BY <2>2, <3>2, <3>3
  <2>3. QED BY <2>1, <2>2
<1>6. Len(a \o b) = Len(s) - 1
  BY <1>0, <1>1, <1>2, <1>3
<1>7. QED BY <1>3, <1>4, <1>5, <1>6

-----------------------------------------------------------------------------
(* The type invariant. *)

\* Removing one URB from the queue leaves a queue of URBs, one shorter.
LEMMA PendingRemoval ==
  ASSUME TypeOK, NEW i \in 1..Len(pending), pending' = RemoveAt(pending, i)
  PROVE  /\ pending' \in Seq(Urb)
         /\ Len(pending') = Len(pending) - 1 /\ Len(pending) \in Nat
         /\ \A j \in 1..Len(pending') :
              pending'[j] = IF j < i THEN pending[j] ELSE pending[j + 1]
  BY RemoveAtKeepsOthers, LenProperties DEF TypeOK

\* Counting one more reply of an URB keeps the type of `answers'.
LEMMA ReplyType ==
  ASSUME TypeOK, NEW s \in 1..MaxUrbs, Reply(s)
  PROVE  /\ answers' \in [1..MaxUrbs -> Nat]
         /\ answers'[s] = answers[s] + 1
         /\ \A t \in 1..MaxUrbs : t # s => answers'[t] = answers[t]
  BY DEF TypeOK, Reply

\* What reading the response at the head does to the queue and to the stream.
LEMMA ReadBulkEffect ==
  ASSUME TypeOK, StreamContiguous, NEW n \in Nat, n > 0, CanRead(n), ReadBulk(n)
  PROVE  /\ bulk' \in Seq(Response) /\ received' \in Nat /\ produced' = produced
         /\ StreamContiguous'
<1> DEFINE r == bulk[1]
           end == IF r.to - r.from > n THEN r.from + n ELSE r.to
<1>1. bulk # <<>> /\ bulk \in Seq(Response)
  BY DEF CanRead, TypeOK
<1>2. /\ r \in Response /\ 1 \in 1..Len(bulk) /\ Len(bulk) \in Nat
      /\ \A i \in 1..Len(bulk) : bulk[i] \in Response
  BY <1>1, ElementOfSeq, EmptySeq, LenProperties
<1>3. /\ r.from \in Nat /\ r.to \in Nat /\ r.from < r.to
      /\ end \in Nat /\ r.from < end /\ end <= r.to
  BY <1>2 DEF Response, StreamContiguous
<1>4. CASE r.to - r.from > n
  <2> DEFINE tail == [bulk EXCEPT ![1].from = end]
  <2>1. bulk' = tail /\ received' = end /\ produced' = produced
    BY <1>4 DEF ReadBulk
  <2>2. end < r.to
    BY <1>3, <1>4
  <2>3. [r EXCEPT !.from = end] \in Response
    BY <1>2, <1>3 DEF Response
  <2>4. tail \in Seq(Response) /\ Len(tail) = Len(bulk)
    BY <1>1, <1>2, <2>3, ExceptSeq
  <2>5. \A j \in 1..Len(bulk) : /\ tail[j].to = bulk[j].to
                                /\ j # 1 => tail[j].from = bulk[j].from
    BY <1>1, <1>2, LenProperties DEF Response
  <2>6. tail[1].from = end
    BY <1>1, <1>2, LenProperties DEF Response
  <2> HIDE DEF tail
  <2>7. tail # <<>>
    BY <1>2, <2>4, EmptySeq
  <2>8. StreamContiguous'
    BY <1>1, <1>2, <1>3, <2>1, <2>2, <2>4, <2>5, <2>6, <2>7 DEF StreamContiguous
  <2>9. QED BY <1>3, <2>1, <2>4, <2>8
<1>5. CASE ~(r.to - r.from > n)
  <2>1. bulk' = Tail(bulk) /\ received' = r.to /\ produced' = produced /\ end = r.to
    BY <1>5 DEF ReadBulk
  <2>2. /\ bulk' \in Seq(Response) /\ Len(bulk') = Len(bulk) - 1
        /\ \A j \in 1..Len(bulk') : bulk'[j] = bulk[j + 1]
    BY <1>1, <2>1, HeadTailProperties
  <2>3. CASE Len(bulk) = 1
    <3>1. bulk' = <<>>
      BY <2>2, <2>3, EmptySeq
    <3>2. received' = produced'
      BY <1>1, <2>1, <2>3 DEF StreamContiguous
    <3>3. QED BY <1>3, <2>1, <2>2, <3>1, <3>2 DEF StreamContiguous
  <2>4. CASE Len(bulk) # 1
    <3>1. bulk' # <<>> /\ Len(bulk') \in Nat /\ 1 \in 1..Len(bulk')
      BY <1>2, <2>2, <2>4, EmptySeq
    <3>2. bulk'[1].from = received'
      BY <1>1, <1>2, <2>1, <2>2, <2>4, <3>1 DEF StreamContiguous
    <3>3. bulk'[Len(bulk')].to = produced'
      BY <1>1, <1>2, <2>1, <2>2, <2>4, <3>1 DEF StreamContiguous
    <3>4. \A j \in 1..Len(bulk') : bulk'[j].from < bulk'[j].to
      BY <1>1, <1>2, <2>2, <3>1 DEF StreamContiguous
    <3>5. \A j \in 1..Len(bulk') - 1 : bulk'[j].to = bulk'[j + 1].from
      BY <1>1, <1>2, <2>2, <3>1, SMTT(20) DEF StreamContiguous
    <3>6. QED
      BY <1>3, <2>1, <2>2, <3>1, <3>2, <3>3, <3>4, <3>5 DEF StreamContiguous
  <2>5. QED BY <2>3, <2>4
<1>6. QED BY <1>4, <1>5

-----------------------------------------------------------------------------
(* How the handlers change the fates of URBs. *)

\* An URB in the queue was submitted and has no other fate yet.
LEMMA WaitingUrb ==
  ASSUME TypeOK, OneFate, NEW i \in 1..Len(pending)
  PROVE  /\ pending[i] \in Urb /\ pending[i].seq \in PendingSeqs
         /\ pending[i].seq \in 1..lastSeq /\ pending[i].seq \in 1..MaxUrbs
         /\ answers[pending[i].seq] = 0 /\ pending[i].seq \notin unlinked
<1>1. pending[i] \in Urb /\ pending[i].seq \in PendingSeqs
  BY ElementOfSeq DEF TypeOK, PendingSeqs
<1>2. /\ pending[i].seq \in 1..MaxUrbs /\ MaxUrbs \in Nat
      /\ lastSeq \in Nat
  <2>1. pending[i].seq \in 1..MaxUrbs
    BY <1>1 DEF Urb
  <2>2. lastSeq \in 0..MaxUrbs /\ MaxUrbs \in Nat
    BY EngineAssumption DEF TypeOK
  <2>3. QED BY <2>1, <2>2
<1>3. QED BY <1>1, <1>2 DEF OneFate

\* A new URB put at the end of the queue has the fate of waiting (submit).
LEMMA FateOfQueued ==
  ASSUME TypeOK, OneFate, Submit, NEW ep \in {1, 2}, NEW n \in Nat,
         Len(pending) < MaxPending, Enqueue(ep, n), UNCHANGED <<answers, unlinks>>
  PROVE  /\ pending' \in Seq(Urb) /\ Len(pending') = Len(pending) + 1
         /\ pending'[Len(pending) + 1] = [seq |-> lastSeq + 1, ep |-> ep, len |-> n]
         /\ \A i \in 1..Len(pending) : pending'[i] = pending[i]
         /\ OneFate'
<1> DEFINE u == [seq |-> lastSeq + 1, ep |-> ep, len |-> n]
<1>1. /\ lastSeq \in Nat /\ MaxUrbs \in Nat /\ lastSeq + 1 \in 1..MaxUrbs
      /\ lastSeq' = lastSeq + 1
  BY EngineAssumption DEF TypeOK, Submit
<1>2. u \in Urb /\ u.seq = lastSeq + 1
  BY <1>1 DEF Urb
<1>3. /\ pending' \in Seq(Urb) /\ Len(pending') = Len(pending) + 1
      /\ pending'[Len(pending) + 1] = u
      /\ \A i \in 1..Len(pending) : pending'[i] = pending[i]
      /\ Len(pending) \in Nat
  BY <1>2, LenProperties DEF TypeOK, Enqueue
<1> HIDE DEF u
<1>4. \A i \in 1..Len(pending) : pending[i].seq \in 1..lastSeq
  BY WaitingUrb
<1>5. PendingSeqs' = PendingSeqs \cup {lastSeq + 1}
  BY <1>2, <1>3 DEF PendingSeqs
<1>6. \A i, j \in 1..Len(pending') : pending'[i].seq = pending'[j].seq => i = j
  BY <1>1, <1>2, <1>3, <1>4, SMTT(20) DEF OneFate
<1>7. ASSUME NEW s \in 1..MaxUrbs
      PROVE  /\ s > lastSeq' => /\ s \notin PendingSeqs' /\ s \notin unlinked'
                                /\ answers'[s] = 0
             /\ s \in PendingSeqs' => s \notin unlinked' /\ answers'[s] = 0
             /\ s \in unlinked' => answers'[s] = 0
             /\ s <= lastSeq' /\ s \notin PendingSeqs' /\ s \notin unlinked'
                  => answers'[s] = 1
  BY <1>1, <1>5 DEF OneFate
<1>8. OneFate'
  BY <1>6, <1>7 DEF OneFate
<1>9. QED BY <1>3, <1>8 DEF u

\* A new URB answered at once has the fate of its one answer (submit).
LEMMA FateOfAnsweredAtOnce ==
  ASSUME TypeOK, OneFate, Submit, Reply(lastSeq + 1), UNCHANGED <<pending, unlinks>>
  PROVE  /\ answers' \in [1..MaxUrbs -> Nat] /\ lastSeq' \in 0..MaxUrbs
         /\ OneFate'
<1>1. /\ lastSeq \in Nat /\ MaxUrbs \in Nat /\ lastSeq + 1 \in 1..MaxUrbs
      /\ lastSeq' = lastSeq + 1
  BY EngineAssumption DEF TypeOK, Submit
<1>2. /\ answers' \in [1..MaxUrbs -> Nat]
      /\ answers'[lastSeq + 1] = answers[lastSeq + 1] + 1
      /\ \A t \in 1..MaxUrbs : t # lastSeq + 1 => answers'[t] = answers[t]
  BY <1>1, ReplyType
<1>3. PendingSeqs' = PendingSeqs
  BY DEF PendingSeqs
<1>4. lastSeq + 1 \notin PendingSeqs /\ answers[lastSeq + 1] = 0
      /\ lastSeq + 1 \notin unlinked
  BY <1>1 DEF OneFate
<1>5. \A i, j \in 1..Len(pending') : pending'[i].seq = pending'[j].seq => i = j
  BY DEF OneFate
<1>6. ASSUME NEW s \in 1..MaxUrbs
      PROVE  /\ s > lastSeq' => /\ s \notin PendingSeqs' /\ s \notin unlinked'
                                /\ answers'[s] = 0
             /\ s \in PendingSeqs' => s \notin unlinked' /\ answers'[s] = 0
             /\ s \in unlinked' => answers'[s] = 0
             /\ s <= lastSeq' /\ s \notin PendingSeqs' /\ s \notin unlinked'
                  => answers'[s] = 1
  <2>1. CASE s = lastSeq + 1
    BY <2>1, <1>1, <1>2, <1>3, <1>4
  <2>2. CASE s # lastSeq + 1
    BY <2>2, <1>1, <1>2, <1>3 DEF OneFate
  <2>3. QED BY <2>1, <2>2
<1>7. QED BY <1>1, <1>2, <1>5, <1>6 DEF OneFate

\* A URB leaves the queue: it is answered, or its unlink is confirmed.
LEMMA FateOfRemoved ==
  ASSUME TypeOK, OneFate, NEW i \in 1..Len(pending), pending' = RemoveAt(pending, i),
         lastSeq' = lastSeq,
         \/ Reply(pending[i].seq) /\ unlinked' = unlinked
         \/ answers' = answers /\ unlinked' = unlinked \cup {pending[i].seq}
  PROVE  /\ answers' \in [1..MaxUrbs -> Nat] 
         /\ OneFate'
<1> DEFINE u == pending[i].seq
<1>1. /\ u \in 1..MaxUrbs /\ u \in PendingSeqs /\ u \in 1..lastSeq
      /\ answers[u] = 0 /\ u \notin unlinked
      /\ MaxUrbs \in Nat /\ lastSeq \in Nat
  BY WaitingUrb, EngineAssumption DEF TypeOK
<1>2. /\ Len(pending') = Len(pending) - 1 /\ Len(pending) \in Nat
      /\ \A j \in 1..Len(pending') :
           pending'[j] = IF j < i THEN pending[j] ELSE pending[j + 1]
  BY PendingRemoval
<1> HIDE DEF u
<1>3. PendingSeqs' = PendingSeqs \ {u}
  <2>1. ASSUME NEW s \in PendingSeqs' PROVE s \in PendingSeqs \ {u}
    <3>1. PICK j \in 1..Len(pending') : s = pending'[j].seq
      BY DEF PendingSeqs
    <3>2. PICK k \in 1..Len(pending) : k # i /\ s = pending[k].seq
      BY <3>1, <1>2, SMTT(20)
    <3>3. QED BY <3>2 DEF PendingSeqs, OneFate, u
  <2>2. ASSUME NEW s \in PendingSeqs \ {u} PROVE s \in PendingSeqs'
    <3>1. PICK k \in 1..Len(pending) : k # i /\ s = pending[k].seq
      BY DEF PendingSeqs, u
    <3>2. CASE k < i
      BY <3>1, <3>2, <1>2 DEF PendingSeqs
    <3>3. CASE k > i
      <4>1. k - 1 \in 1..Len(pending') /\ pending'[k - 1] = pending[k]
        BY <3>3, <1>2
      <4>2. QED BY <3>1, <4>1 DEF PendingSeqs
    <3>4. QED BY <3>1, <3>2, <3>3
  <2>3. QED BY <2>1, <2>2
<1>4. \A j, k \in 1..Len(pending') : pending'[j].seq = pending'[k].seq => j = k
  <2> SUFFICES ASSUME NEW j \in 1..Len(pending'), NEW k \in 1..Len(pending'),
                      pending'[j].seq = pending'[k].seq
               PROVE  j = k
    OBVIOUS
  <2> DEFINE old(x) == IF x < i THEN x ELSE x + 1
  <2>1. /\ pending'[j] = pending[old(j)] /\ old(j) \in 1..Len(pending)
        /\ pending'[k] = pending[old(k)] /\ old(k) \in 1..Len(pending)
    BY <1>2
  <2>2. old(j) = old(k)
    BY <2>1 DEF OneFate
  <2>3. QED BY <2>2, <1>2
<1>5. \/ /\ answers' \in [1..MaxUrbs -> Nat] /\ answers'[u] = 1
         /\ \A t \in 1..MaxUrbs : t # u => answers'[t] = answers[t]
         /\ unlinked' = unlinked
      \/ answers' = answers /\ unlinked' = unlinked \cup {u}
  BY <1>1, ReplyType, SMTT(20) DEF u
<1>6. ASSUME NEW s \in 1..MaxUrbs
      PROVE  /\ s > lastSeq' => /\ s \notin PendingSeqs' /\ s \notin unlinked'
                                /\ answers'[s] = 0
             /\ s \in PendingSeqs' => s \notin unlinked' /\ answers'[s] = 0
             /\ s \in unlinked' => answers'[s] = 0
             /\ s <= lastSeq' /\ s \notin PendingSeqs' /\ s \notin unlinked'
                  => answers'[s] = 1
  <2>1. CASE s = u
    BY <2>1, <1>1, <1>3, <1>5
  <2>2. CASE s # u
    BY <2>2, <1>3, <1>5 DEF OneFate
  <2>3. QED BY <2>1, <2>2
<1>7. QED BY <1>1, <1>4, <1>5, <1>6 DEF OneFate, TypeOK

\* Steps that touch neither the queue nor an answer change no fate.
LEMMA FateUnchanged ==
  ASSUME OneFate, UNCHANGED <<pending, lastSeq, answers, unlinked>>
  PROVE  OneFate'
  BY DEF OneFate, PendingSeqs

\* Steps that leave the responses alone keep the stream contiguous.
LEMMA StreamUnchanged ==
  ASSUME StreamContiguous, UNCHANGED device
  PROVE  StreamContiguous'
  BY DEF StreamContiguous

-----------------------------------------------------------------------------
(* The inductive invariant holds initially and every action preserves it. *)

\* The engine as it is created (UrbEngine::default) satisfies the invariant.
LEMMA InitIInv == Init => IInv
<1> SUFFICES ASSUME Init PROVE IInv
  OBVIOUS
<1>1. TypeOK
  <2>1. 0 \in 0..MaxUrbs /\ 0 <= MaxPending /\ 0 \in 0..KeepaliveUs
    BY EngineAssumption
  <2>2. pending \in Seq(Urb) /\ Len(pending) = 0
    BY EmptySeq DEF Init
  <2>3. bulk \in Seq(Response) /\ outputs \in Seq(1..MaxUrbs)
    BY EmptySeq DEF Init
  <2>4. answers \in [1..MaxUrbs -> Nat]
    BY DEF Init
  <2>5. QED BY <2>1, <2>2, <2>3, <2>4 DEF Init, TypeOK, NoSample
<1>2. OneFate
  BY EngineAssumption, EmptySeq DEF Init, OneFate, PendingSeqs
<1>3. StreamContiguous
  BY EmptySeq DEF Init, StreamContiguous
<1>4. DrainProgress /\ ReportBookkeeping
  BY EmptySeq DEF Init, DrainProgress, ReportBookkeeping, NoSample
<1>5. QED BY <1>1, <1>2, <1>3, <1>4 DEF IInv

\* submit of an interrupt IN preserves the invariant.
LEMMA SubmitInterruptInStep == ASSUME IInv, SubmitInterruptIn PROVE IInv'
<1>1. /\ pending' \in Seq(Urb) /\ Len(pending') = Len(pending) + 1
      /\ pending'[Len(pending) + 1] = [seq |-> lastSeq + 1, ep |-> 1, len |-> 0]
      /\ \A i \in 1..Len(pending) : pending'[i] = pending[i]
      /\ OneFate'
  BY FateOfQueued DEF IInv, SubmitInterruptIn
<1>2. Len(pending) \in Nat /\ Len(pending) < MaxPending /\ MaxPending \in Nat
  BY LenProperties, EngineAssumption DEF IInv, TypeOK, SubmitInterruptIn
<1>3. TypeOK'
  <2>1. Len(pending') <= MaxPending
    BY <1>1, <1>2
  <2>2. lastSeq' \in 0..MaxUrbs
    BY EngineAssumption DEF IInv, TypeOK, SubmitInterruptIn, Submit
  <2>3. QED
    BY <1>1, <2>1, <2>2
    DEF IInv, TypeOK, SubmitInterruptIn, StartDrain
<1>4. DrainProgress'
  BY <1>1, <1>2 DEF IInv, DrainProgress, SubmitInterruptIn, StartDrain, Idle
<1>5. StreamContiguous' /\ ReportBookkeeping'
  BY StreamUnchanged DEF IInv, SubmitInterruptIn, ReportBookkeeping
<1>6. QED BY <1>1, <1>3, <1>4, <1>5 DEF IInv

\* submit of a bulk IN that has to wait preserves the invariant.
LEMMA SubmitBulkInStep ==
  ASSUME IInv, NEW n \in InLengths, SubmitBulkIn(n) PROVE IInv'
<1>0. n \in Nat /\ n > 0 /\ bulk = <<>>
  BY EngineAssumption DEF SubmitBulkIn, CanRead
<1>1. /\ pending' \in Seq(Urb) /\ Len(pending') = Len(pending) + 1
      /\ pending'[Len(pending) + 1] = [seq |-> lastSeq + 1, ep |-> 2, len |-> n]
      /\ \A i \in 1..Len(pending) : pending'[i] = pending[i]
      /\ OneFate'
  BY <1>0, FateOfQueued DEF IInv, SubmitBulkIn
<1>2. Len(pending) \in Nat /\ Len(pending) < MaxPending /\ MaxPending \in Nat
  BY LenProperties, EngineAssumption DEF IInv, TypeOK, SubmitBulkIn
<1>3. TypeOK'
  <2>1. Len(pending') <= MaxPending
    BY <1>1, <1>2
  <2>2. lastSeq' \in 0..MaxUrbs
    BY EngineAssumption DEF IInv, TypeOK, SubmitBulkIn, Submit
  <2>3. QED
    BY <1>1, <2>1, <2>2
    DEF IInv, TypeOK, SubmitBulkIn, StartDrain
<1>4. DrainProgress'
  BY <1>0, <1>1, <1>2, SMTT(20)
  DEF IInv, DrainProgress, SubmitBulkIn, Submit, Idle, Reportable
<1>5. StreamContiguous' /\ ReportBookkeeping'
  BY StreamUnchanged DEF IInv, SubmitBulkIn, ReportBookkeeping
<1>6. QED BY <1>1, <1>3, <1>4, <1>5 DEF IInv

\* submit that finds the queue full preserves the invariant.
LEMMA RefuseInStep ==
  ASSUME IInv, NEW ep \in {1, 2}, NEW n \in InLengths, RefuseIn(ep, n) PROVE IInv'
<1>1. answers' \in [1..MaxUrbs -> Nat] /\ lastSeq' \in 0..MaxUrbs /\ OneFate'
  BY FateOfAnsweredAtOnce DEF IInv, RefuseIn
<1>2. TypeOK'
  BY <1>1 DEF IInv, TypeOK, RefuseIn
<1>3. DrainProgress' /\ ReportBookkeeping'
  BY DEF IInv, DrainProgress, ReportBookkeeping, RefuseIn, Idle, Reportable
<1>4. StreamContiguous'
  BY StreamUnchanged DEF IInv, RefuseIn
<1>5. QED BY <1>1, <1>2, <1>3, <1>4 DEF IInv

\* submit of a bulk IN that is answered at once preserves the invariant.
LEMMA AnswerBulkInStep ==
  ASSUME IInv, NEW n \in InLengths, AnswerBulkIn(n) PROVE IInv'
<1>1. answers' \in [1..MaxUrbs -> Nat] /\ lastSeq' \in 0..MaxUrbs /\ OneFate'
  BY FateOfAnsweredAtOnce DEF IInv, AnswerBulkIn
<1>2. /\ bulk' \in Seq(Response) /\ received' \in Nat /\ produced' \in Nat
      /\ StreamContiguous'
  <2>1. CASE n = 0
    <3>1. UNCHANGED device
      BY <2>1 DEF AnswerBulkIn, ReadBulk
    <3>2. QED BY <3>1, StreamUnchanged DEF IInv, TypeOK
  <2>2. CASE n # 0
    <3>1. n \in Nat /\ n > 0
      BY <2>2, EngineAssumption
    <3>2. QED BY <3>1, ReadBulkEffect DEF IInv, AnswerBulkIn, TypeOK
  <2>3. QED BY <2>1, <2>2
<1>3. TypeOK'
  BY <1>1, <1>2 DEF IInv, TypeOK, AnswerBulkIn, StartDrain
<1>4. DrainProgress' /\ ReportBookkeeping'
  BY LenProperties
  DEF IInv, TypeOK, DrainProgress, ReportBookkeeping, AnswerBulkIn, StartDrain, Idle
<1>5. QED BY <1>1, <1>2, <1>3, <1>4 DEF IInv

\* submit of a vendor command preserves the invariant.
LEMMA SubmitBulkOutStep ==
  ASSUME IInv, NEW n \in ResponseLengths \cup {0}, NEW o \in BOOLEAN,
         SubmitBulkOut(n, o)
  PROVE  IInv'
<1> DEFINE r == [from |-> produced, to |-> produced + n]
<1>0. n \in Nat /\ lastSeq + 1 \in 1..MaxUrbs
  BY EngineAssumption DEF IInv, TypeOK, SubmitBulkOut, Submit
<1>1. answers' \in [1..MaxUrbs -> Nat] /\ lastSeq' \in 0..MaxUrbs /\ OneFate'
  BY FateOfAnsweredAtOnce DEF IInv, SubmitBulkOut
<1>2. outputs' \in Seq(1..MaxUrbs)
  <2>1. outputs' = outputs \/ outputs' = Append(outputs, lastSeq + 1)
    BY DEF SubmitBulkOut
  <2>2. outputs \in Seq(1..MaxUrbs)
    BY DEF IInv, TypeOK
  <2>3. Append(outputs, lastSeq + 1) \in Seq(1..MaxUrbs)
    BY <1>0, <2>2, AppendProperties
  <2>4. QED BY <2>1, <2>2, <2>3
<1>3. bulk' \in Seq(Response) /\ produced' \in Nat /\ StreamContiguous'
  <2>1. CASE n = 0
    <3>1. bulk' = bulk /\ produced' = produced /\ received' = received
      BY <2>1 DEF IInv, TypeOK, SubmitBulkOut
    <3>2. QED BY <3>1, StreamUnchanged DEF IInv, TypeOK
  <2>2. CASE n # 0
    <3>1. /\ bulk' = Append(bulk, r) /\ r \in Response /\ produced' = produced + n
          /\ received' = received /\ produced \in Nat /\ n > 0
          /\ bulk \in Seq(Response) /\ Len(bulk) \in Nat
          /\ \A i \in 1..Len(bulk) : bulk[i] \in Response
      <4>1. /\ produced \in Nat /\ n > 0 /\ bulk \in Seq(Response)
        BY <1>0, <2>2 DEF IInv, TypeOK
      <4>2. r \in Response
        BY <1>0, <4>1 DEF Response
      <4>3. Len(bulk) \in Nat /\ \A i \in 1..Len(bulk) : bulk[i] \in Response
        BY <4>1, LenProperties, ElementOfSeq
      <4>4. /\ bulk' = Append(bulk, r) /\ produced' = produced + n
            /\ received' = received
        BY <2>2 DEF SubmitBulkOut
      <4>5. QED BY <4>1, <4>2, <4>3, <4>4
    <3>2. /\ bulk' \in Seq(Response) /\ Len(bulk') = Len(bulk) + 1
          /\ bulk'[Len(bulk) + 1] = r /\ \A i \in 1..Len(bulk) : bulk'[i] = bulk[i]
      BY <3>1
    <3>3. r.from = produced /\ r.to = produced'
      BY <3>1
    <3> HIDE DEF r
    <3>4. bulk' # <<>>
      BY <3>1, <3>2, EmptySeq
    <3>5. bulk'[1].from = received'
      <4>1. CASE bulk = <<>>
        BY <4>1, <3>1, <3>2, <3>3, EmptySeq DEF IInv, StreamContiguous
      <4>2. CASE bulk # <<>>
        BY <4>2, <3>1, <3>2, EmptySeq DEF IInv, StreamContiguous
      <4>3. QED BY <4>1, <4>2
    <3>6. \A i \in 1..Len(bulk') : bulk'[i].from < bulk'[i].to
      <4> SUFFICES ASSUME NEW i \in 1..Len(bulk') PROVE bulk'[i].from < bulk'[i].to
        OBVIOUS
      <4>1. CASE i = Len(bulk) + 1
        BY <4>1, <1>0, <3>1, <3>2, <3>3
      <4>2. CASE i # Len(bulk) + 1
        BY <4>2, <3>1, <3>2 DEF IInv, StreamContiguous
      <4>3. QED BY <4>1, <4>2
    <3>7. \A i \in 1..Len(bulk') - 1 : bulk'[i].to = bulk'[i + 1].from
      <4> SUFFICES ASSUME NEW i \in 1..Len(bulk) PROVE bulk'[i].to = bulk'[i + 1].from
        BY <3>1, <3>2
      <4>1. CASE i = Len(bulk)
        BY <4>1, <3>1, <3>2, <3>3, EmptySeq DEF IInv, StreamContiguous
      <4>2. CASE i # Len(bulk)
        BY <4>2, <3>1, <3>2 DEF IInv, StreamContiguous
      <4>3. QED BY <4>1, <4>2
    <3>8. bulk'[Len(bulk')].to = produced'
      BY <3>1, <3>2, <3>3
    <3>9. produced' \in Nat
      BY <3>1, <1>0
    <3>10. QED
      BY <3>2, <3>4, <3>5, <3>6, <3>7, <3>8, <3>9 DEF StreamContiguous
  <2>3. QED BY <2>1, <2>2
<1>4. TypeOK'
  BY <1>1, <1>2, <1>3
  DEF IInv, TypeOK, SubmitBulkOut, StartDrain
<1>5. DrainProgress' /\ ReportBookkeeping'
  BY LenProperties
  DEF IInv, TypeOK, DrainProgress, ReportBookkeeping, SubmitBulkOut, StartDrain, Idle
<1>6. QED BY <1>1, <1>3, <1>4, <1>5 DEF IInv

\* submit of any other URB preserves the invariant.
LEMMA SubmitOtherStep ==
  ASSUME IInv, NEW o \in BOOLEAN, SubmitOther(o) PROVE IInv'
<1>1. answers' \in [1..MaxUrbs -> Nat] /\ lastSeq' \in 0..MaxUrbs /\ OneFate'
  BY FateOfAnsweredAtOnce DEF IInv, SubmitOther
<1>2. outputs' \in Seq(1..MaxUrbs)
  <2>1. lastSeq + 1 \in 1..MaxUrbs
    BY EngineAssumption DEF IInv, TypeOK, SubmitOther, Submit
  <2>2. outputs' = outputs \/ outputs' = Append(outputs, lastSeq + 1)
    BY DEF SubmitOther
  <2>3. outputs \in Seq(1..MaxUrbs)
    BY DEF IInv, TypeOK
  <2>4. Append(outputs, lastSeq + 1) \in Seq(1..MaxUrbs)
    BY <2>1, <2>3, AppendProperties
  <2>5. QED BY <2>2, <2>3, <2>4
<1>3. TypeOK'
  BY <1>1, <1>2 DEF IInv, TypeOK, SubmitOther, StartDrain
<1>4. ReportBookkeeping'
  BY DEF IInv, ReportBookkeeping, SubmitOther
<1>5. DrainProgress'
  <2>1. cursor' = 1 /\ pending' = pending /\ Len(pending) \in Nat
    BY LenProperties DEF IInv, TypeOK, SubmitOther, StartDrain
  <2>2. QED BY <2>1 DEF IInv, DrainProgress, Idle
<1>6. StreamContiguous'
  BY StreamUnchanged DEF IInv, SubmitOther
<1>7. QED BY <1>1, <1>3, <1>4, <1>5, <1>6 DEF IInv

\* unlink preserves the invariant, whether or not the URB still waits.
LEMMA UnlinkStep ==
  ASSUME IInv, NEW s \in 1..MaxUrbs, Unlink(s) PROVE IInv'
<1>1. CASE \E i \in 1..Len(pending) : /\ pending[i].seq = s
                                      /\ pending' = RemoveAt(pending, i)
                                      /\ unlinked' = unlinked \cup {s}
  <2>1. PICK i \in 1..Len(pending) : /\ pending[i].seq = s
                                     /\ pending' = RemoveAt(pending, i)
                                     /\ unlinked' = unlinked \cup {s}
    BY <1>1
  <2>2. /\ pending' \in Seq(Urb)
        /\ Len(pending') = Len(pending) - 1 /\ Len(pending) \in Nat
        /\ \A j \in 1..Len(pending') :
             pending'[j] = IF j < i THEN pending[j] ELSE pending[j + 1]
    BY <2>1, PendingRemoval DEF IInv
  <2>3. answers' \in [1..MaxUrbs -> Nat]  /\ OneFate'
    BY <2>1, FateOfRemoved DEF IInv, Unlink
  <2>4. Len(pending') <= MaxPending
    BY <2>2, EngineAssumption DEF IInv, TypeOK
  <2>5. TypeOK'
    BY <2>2, <2>3, <2>4 DEF IInv, TypeOK, Unlink
  <2>6. DrainProgress'
    <3>1. /\ cursor = 0 /\ cursor' = 0 /\ forKeepalive' = forKeepalive
          /\ Reportable' = Reportable /\ bulk' = bulk
      BY DEF Unlink, Idle, Reportable
    <3>2. ASSUME NEW j \in 1..Len(pending')
          PROVE  /\ pending'[j].ep = 2 => pending'[j].len > 0
                 /\ pending'[j].ep = 1 => ~Reportable
                 /\ pending'[j].ep = 2 => bulk = <<>>
      <4>1. PICK k \in 1..Len(pending) : pending'[j] = pending[k]
        BY <2>2
      <4>2. QED BY <3>1, <4>1 DEF IInv, DrainProgress, Idle
    <3>3. cursor' <= Len(pending') + 1
      BY <2>2, <3>1
    <3>4. QED BY <3>1, <3>2, <3>3 DEF IInv, DrainProgress, Idle
  <2>7. StreamContiguous' /\ ReportBookkeeping'
    BY StreamUnchanged DEF IInv, Unlink, ReportBookkeeping
  <2>8. QED BY <2>3, <2>5, <2>6, <2>7 DEF IInv
<1>2. CASE UNCHANGED <<pending, unlinked>>
  <2>1. OneFate' /\ StreamContiguous'
    BY <1>2, FateUnchanged, StreamUnchanged DEF IInv, Unlink
  <2>2. TypeOK' /\ DrainProgress' /\ ReportBookkeeping'
    BY <1>2
    DEF IInv, TypeOK, DrainProgress, ReportBookkeeping, Unlink, Idle, Reportable
  <2>3. QED BY <2>1, <2>2 DEF IInv
<1>3. QED BY <1>1, <1>2 DEF Unlink

\* on_sample preserves the invariant.
LEMMA OnSampleStep ==
  ASSUME IInv, NEW new \in 1..MaxSample, OnSample(new) PROVE IInv'
<1>1. OneFate' /\ StreamContiguous'
  BY FateUnchanged, StreamUnchanged DEF IInv, OnSample
<1>2. TypeOK'
  <2>1. new \in Nat
    BY EngineAssumption
  <2>2. QED BY <2>1 DEF IInv, TypeOK, OnSample, StartDrain
<1>3. DrainProgress'
  BY LenProperties DEF IInv, TypeOK, DrainProgress, OnSample, StartDrain, Idle
<1>4. ReportBookkeeping'
  BY DEF IInv, TypeOK, ReportBookkeeping, OnSample
<1>5. QED BY <1>1, <1>2, <1>3, <1>4 DEF IInv

\* on_keepalive_due preserves the invariant.
LEMMA OnKeepaliveDueStep == ASSUME IInv, OnKeepaliveDue PROVE IInv'
<1>1. OneFate' /\ StreamContiguous'
  BY FateUnchanged, StreamUnchanged DEF IInv, OnKeepaliveDue
<1>2. TypeOK'
  BY DEF IInv, TypeOK, OnKeepaliveDue, StartDrain
<1>3. DrainProgress' /\ ReportBookkeeping'
  BY LenProperties
  DEF IInv, TypeOK, DrainProgress, ReportBookkeeping, OnKeepaliveDue, StartDrain, Idle
<1>4. QED BY <1>1, <1>2, <1>3 DEF IInv

\* The drain loop answering an interrupt IN preserves the invariant.
LEMMA DrainInterruptInStep == ASSUME IInv, DrainInterruptIn PROVE IInv'
<1>0. cursor \in 1..Len(pending) /\ cursor' = cursor
  BY DEF DrainInterruptIn
<1>1. /\ pending' \in Seq(Urb)
      /\ Len(pending') = Len(pending) - 1 /\ Len(pending) \in Nat
      /\ \A j \in 1..Len(pending') :
           pending'[j] = IF j < cursor THEN pending[j] ELSE pending[j + 1]
  BY <1>0, PendingRemoval DEF IInv, DrainInterruptIn
<1>2. answers' \in [1..MaxUrbs -> Nat]  /\ OneFate'
  BY <1>0, FateOfRemoved DEF IInv, DrainInterruptIn
<1>3. Len(pending') <= MaxPending
  BY <1>1, EngineAssumption DEF IInv, TypeOK
<1>4. keepalives' \in Nat /\ inputCompletions' \in Nat /\ 0 \in 0..KeepaliveUs
  BY EngineAssumption DEF IInv, TypeOK, DrainInterruptIn
<1>5. TypeOK'
  BY <1>1, <1>2, <1>3, <1>4 DEF IInv, TypeOK, DrainInterruptIn
<1>6. DrainProgress'
  <2>1. cursor' <= Len(pending') + 1 /\ cursor' # 0
    BY <1>0, <1>1
  <2>2. ASSUME NEW j \in 1..Len(pending')
        PROVE  /\ pending'[j].ep = 2 => pending'[j].len > 0
               /\ j < cursor /\ pending'[j].ep = 2 => bulk' = <<>>
    <3>1. PICK k \in 1..Len(pending) : /\ pending'[j] = pending[k]
                                       /\ j < cursor => k < cursor
      BY <1>0, <1>1
    <3>2. QED BY <3>1 DEF IInv, DrainProgress, DrainInterruptIn
  <2>3. ~Reportable'
    <3>1. dirty' = FALSE /\ sinceReport' = 0
      BY DEF DrainInterruptIn
    <3>2. QED BY <3>1, EngineAssumption DEF Reportable
  <2>4. QED BY <1>0, <2>1, <2>2, <2>3 DEF DrainProgress, Idle
<1>7. StreamContiguous'
  BY StreamUnchanged DEF IInv, DrainInterruptIn
<1>8. ReportBookkeeping'
  BY DEF IInv, TypeOK, ReportBookkeeping, DrainInterruptIn
<1>9. QED BY <1>2, <1>5, <1>6, <1>7, <1>8 DEF IInv

\* The drain loop answering a bulk IN preserves the invariant.
LEMMA DrainBulkInStep == ASSUME IInv, DrainBulkIn PROVE IInv'
<1> DEFINE n == pending[cursor].len
<1>0. /\ cursor \in 1..Len(pending) /\ cursor' = cursor
      /\ n \in Nat /\ n > 0 /\ bulk # <<>>
  <2>1. cursor \in 1..Len(pending) /\ pending[cursor].ep = 2 /\ cursor' = cursor
    BY DEF DrainBulkIn
  <2>2. n \in Nat /\ n > 0
    BY <2>1, WaitingUrb DEF IInv, DrainProgress, Urb
  <2>3. QED BY <2>1, <2>2 DEF DrainBulkIn, CanRead
<1>1. /\ pending' \in Seq(Urb)
      /\ Len(pending') = Len(pending) - 1 /\ Len(pending) \in Nat
      /\ \A j \in 1..Len(pending') :
           pending'[j] = IF j < cursor THEN pending[j] ELSE pending[j + 1]
  BY <1>0, PendingRemoval DEF IInv, DrainBulkIn
<1>2. answers' \in [1..MaxUrbs -> Nat]  /\ OneFate'
  BY <1>0, FateOfRemoved DEF IInv, DrainBulkIn
<1>3. /\ bulk' \in Seq(Response) /\ received' \in Nat /\ produced' \in Nat
      /\ StreamContiguous'
  BY <1>0, ReadBulkEffect DEF IInv, DrainBulkIn, TypeOK
<1>4. Len(pending') <= MaxPending
  BY <1>1, EngineAssumption DEF IInv, TypeOK
<1>5. TypeOK'
  BY <1>1, <1>2, <1>3, <1>4 DEF IInv, TypeOK, DrainBulkIn
<1>6. DrainProgress'
  <2>1. cursor' <= Len(pending') + 1 /\ cursor' # 0
    BY <1>0, <1>1
  <2>2. ASSUME NEW j \in 1..Len(pending')
        PROVE  /\ pending'[j].ep = 2 => pending'[j].len > 0
               /\ j < cursor => /\ pending'[j].ep = 1 => ~Reportable
                                /\ pending'[j].ep # 2
    <3>1. PICK k \in 1..Len(pending) : /\ pending'[j] = pending[k]
                                       /\ j < cursor => k < cursor
      BY <1>0, <1>1
    <3>2. QED BY <1>0, <3>1 DEF IInv, DrainProgress
  <2>3. Reportable' = Reportable
    BY DEF DrainBulkIn, Reportable
  <2>4. QED BY <1>0, <2>1, <2>2, <2>3 DEF DrainProgress, Idle
<1>7. ReportBookkeeping'
  BY DEF IInv, ReportBookkeeping, DrainBulkIn
<1>8. QED BY <1>2, <1>3, <1>5, <1>6, <1>7 DEF IInv

\* The drain loop passing an URB that must wait preserves the invariant.
LEMMA DrainSkipStep == ASSUME IInv, DrainSkip PROVE IInv'
<1>1. OneFate' /\ StreamContiguous'
  BY FateUnchanged, StreamUnchanged DEF IInv, DrainSkip
<1>2. TypeOK' /\ ReportBookkeeping'
  BY DEF IInv, TypeOK, ReportBookkeeping, DrainSkip
<1>3. DrainProgress'
  <2>1. /\ cursor \in 1..Len(pending) /\ cursor' = cursor + 1 /\ Len(pending) \in Nat
        /\ pending' = pending /\ Reportable' = Reportable /\ bulk' = bulk
    BY LenProperties DEF IInv, TypeOK, DrainSkip, Reportable
  <2>2. /\ pending[cursor].ep = 1 => ~Reportable
        /\ pending[cursor].ep = 2 => bulk = <<>>
    BY DEF DrainSkip, CanRead
  <2>3. QED BY <2>1, <2>2 DEF IInv, DrainProgress, Idle
<1>4. QED BY <1>1, <1>2, <1>3 DEF IInv

\* The end of the drain loop preserves the invariant.
LEMMA DrainEndStep == ASSUME IInv, DrainEnd PROVE IInv'
<1>1. OneFate' /\ StreamContiguous'
  BY FateUnchanged, StreamUnchanged DEF IInv, DrainEnd
<1>2. TypeOK' /\ ReportBookkeeping'
  BY DEF IInv, TypeOK, ReportBookkeeping, DrainEnd
<1>3. DrainProgress'
  <2>1. /\ cursor > Len(pending) /\ cursor' = 0 /\ Len(pending) \in Nat /\ cursor \in Nat
        /\ pending' = pending /\ bulk' = bulk
        /\ forKeepalive' = FALSE /\ (Reportable' => Reportable)
    BY LenProperties DEF IInv, TypeOK, DrainEnd, Reportable
  <2>2. QED BY <2>1 DEF IInv, DrainProgress, Idle
<1>4. QED BY <1>1, <1>2, <1>3 DEF IInv

\* The caller taking the effects preserves the invariant.
LEMMA TakeEffectsStep == ASSUME IInv, TakeEffects PROVE IInv'
<1>1. OneFate' /\ StreamContiguous'
  BY FateUnchanged, StreamUnchanged DEF IInv, TakeEffects
<1>2. outputs' \in Seq(1..MaxUrbs)
  BY EmptySeq DEF TakeEffects
<1>3. TypeOK' /\ ReportBookkeeping' /\ DrainProgress'
  BY <1>2
  DEF IInv, TypeOK, ReportBookkeeping, DrainProgress, TakeEffects, Idle, NoSample,
      Reportable
<1>4. QED BY <1>1, <1>3 DEF IInv

\* The passing of time preserves the invariant.
LEMMA TickStep == ASSUME IInv, Tick PROVE IInv'
<1>1. OneFate' /\ StreamContiguous'
  BY FateUnchanged, StreamUnchanged DEF IInv, Tick
<1>2. sinceReport' \in 0..KeepaliveUs /\ sinceShown' \in 0..KeepaliveUs
  BY EngineAssumption DEF IInv, TypeOK, Tick, Older
<1>3. TypeOK' /\ ReportBookkeeping'
  BY <1>2 DEF IInv, TypeOK, ReportBookkeeping, Tick
<1>4. DrainProgress'
  BY DEF IInv, DrainProgress, Tick, Idle, Reportable
<1>5. QED BY <1>1, <1>3, <1>4 DEF IInv

\* Every step of the engine preserves the invariant.
LEMMA NextStep == IInv /\ [Next]_vars => IInv'
<1> SUFFICES ASSUME IInv, [Next]_vars PROVE IInv'
  OBVIOUS
<1>1. CASE HandleUrb
  BY <1>1, SubmitInterruptInStep, SubmitBulkInStep, AnswerBulkInStep, RefuseInStep,
     SubmitBulkOutStep, SubmitOtherStep, UnlinkStep DEF HandleUrb
<1>2. CASE \E new \in 1..MaxSample : OnSample(new)
  BY <1>2, OnSampleStep
<1>3. CASE OnKeepaliveDue
  BY <1>3, OnKeepaliveDueStep
<1>4. CASE Drain
  BY <1>4, DrainInterruptInStep, DrainBulkInStep, DrainSkipStep, DrainEndStep DEF Drain
<1>5. CASE TakeEffects
  BY <1>5, TakeEffectsStep
<1>6. CASE Tick
  BY <1>6, TickStep
<1>7. CASE UNCHANGED vars
  <2>1. OneFate' /\ StreamContiguous'
    BY <1>7, FateUnchanged, StreamUnchanged DEF IInv, vars
  <2>2. TypeOK' /\ ReportBookkeeping' /\ DrainProgress'
    BY <1>7 DEF IInv, TypeOK, ReportBookkeeping, DrainProgress, Idle, Reportable, vars
  <2>3. QED BY <2>1, <2>2 DEF IInv
<1>8. QED BY <1>1, <1>2, <1>3, <1>4, <1>5, <1>6, <1>7 DEF Next

-----------------------------------------------------------------------------
(* The theorems: the properties of UrbEngine for every value of its constants. *)

\* The inductive invariant holds throughout every run of the engine.
THEOREM InductiveInvariant == Spec => []IInv
<1>1. Init => IInv
  BY InitIInv
<1>2. IInv /\ [Next]_vars => IInv'
  BY NextStep
<1>3. QED BY <1>1, <1>2, PTL DEF Spec

\* Type correctness; in particular the pending queue never exceeds its capacity.
THEOREM TypeCorrect == Spec => []TypeOK
<1>1. IInv => TypeOK
  BY DEF IInv
<1>2. QED BY <1>1, InductiveInvariant, PTL

\* Every URB submitted to the engine has exactly one fate: it waits, it was
\* answered once, or it was unlinked and is never answered.
THEOREM EveryUrbHasOneFate == Spec => []OneFate
<1>1. IInv => OneFate
  BY DEF IInv
<1>2. QED BY <1>1, InductiveInvariant, PTL

LEMMA IdleAnswersAll == IInv => NothingLeftWaiting
  BY DEF IInv, DrainProgress, NothingLeftWaiting, Waiting, Reportable

\* Whenever no handler runs, no URB waits for something the engine already has.
THEOREM NoUrbLeftWaiting == Spec => []NothingLeftWaiting
  BY IdleAnswersAll, InductiveInvariant, PTL

\* The host receives the bytes of the vendor responses in order, none lost and
\* none repeated, whatever the lengths of its bulk transfers.
THEOREM ResponseStreamIntact == Spec => []StreamContiguous
<1>1. IInv => StreamContiguous
  BY DEF IInv
<1>2. QED BY <1>1, InductiveInvariant, PTL

\* Only DrainInterruptIn completes an interrupt IN URB.
LEMMA CompletionStep ==
  ASSUME IInv, [Next]_vars, inputCompletions' > inputCompletions
  PROVE  DrainInterruptIn
<1>1. inputCompletions \in Nat
  BY DEF IInv, TypeOK
<1>2. inputCompletions' # inputCompletions
  BY <1>1
<1>3. CASE HandleUrb
  BY <1>2, <1>3
  DEF HandleUrb, SubmitInterruptIn, SubmitBulkIn, RefuseIn, AnswerBulkIn,
      SubmitBulkOut, SubmitOther, Unlink
<1>4. CASE TakeEffects
  BY <1>1, <1>4 DEF TakeEffects
<1>5. CASE Drain
  BY <1>2, <1>5 DEF Drain, DrainBulkIn, DrainSkip, DrainEnd
<1>6. CASE \/ \E new \in 1..MaxSample : OnSample(new)
           \/ OnKeepaliveDue
           \/ Tick
           \/ UNCHANGED vars
  BY <1>2, <1>6 DEF OnSample, OnKeepaliveDue, Tick, vars
<1>7. QED BY <1>3, <1>4, <1>5, <1>6 DEF Next

\* Two reports of one sample are at least a keepalive period apart, and the
\* statistics count exactly the repeats as keepalives.
THEOREM RepeatsPacedAndCounted == Spec => RepeatsArePaced
<1>1. ASSUME IInv, [Next]_vars
      PROVE  [inputCompletions' > inputCompletions
                => /\ shown = sample => sinceShown >= KeepaliveUs
                   /\ keepalives' > keepalives <=> shown = sample]_vars
  <2> SUFFICES ASSUME inputCompletions' > inputCompletions
               PROVE  /\ shown = sample => sinceShown >= KeepaliveUs
                      /\ keepalives' > keepalives <=> shown = sample
    OBVIOUS
  <2>1. DrainInterruptIn
    BY <1>1, CompletionStep
  <2>2. /\ shown \in Nat /\ sample \in Nat /\ keepalives \in Nat
        /\ shown <= sample /\ (dirty <=> shown < sample) /\ sinceReport = sinceShown
    BY <1>1 DEF IInv, TypeOK, ReportBookkeeping
  <2>3. shown = sample => sinceShown >= KeepaliveUs
    BY <2>1, <2>2 DEF DrainInterruptIn, Reportable
  <2>4. keepalives' > keepalives <=> ~dirty
    <3>1. CASE dirty
      BY <3>1, <2>1, <2>2 DEF DrainInterruptIn
    <3>2. CASE ~dirty
      BY <3>2, <2>1, <2>2 DEF DrainInterruptIn
    <3>3. QED BY <3>1, <3>2
  <2>5. ~dirty <=> shown = sample
    BY <2>2
  <2>6. QED BY <2>3, <2>4, <2>5
<1>2. QED
  BY <1>1, InductiveInvariant, PTL DEF Spec, RepeatsArePaced

\* What a step does to the queue: nothing, a new URB at its end, or one removed.
LEMMA QueueSteps ==
  ASSUME IInv, [Next]_vars
  PROVE  \/ pending' = pending
         \/ \E ep \in {1, 2}, n \in Nat : Enqueue(ep, n)
         \/ \E i \in 1..Len(pending) : pending' = RemoveAt(pending, i)
<1>1. CASE HandleUrb
  <2>1. CASE SubmitInterruptIn
    BY <2>1 DEF SubmitInterruptIn
  <2>2. CASE \E n \in InLengths : SubmitBulkIn(n)
    BY <2>2, EngineAssumption DEF SubmitBulkIn
  <2>3. CASE \E s \in 1..MaxUrbs : Unlink(s)
    BY <2>3 DEF Unlink
  <2>4. CASE \/ \E n \in InLengths : AnswerBulkIn(n)
             \/ \E ep \in {1, 2}, n \in InLengths : RefuseIn(ep, n)
             \/ \E n \in ResponseLengths \cup {0}, o \in BOOLEAN : SubmitBulkOut(n, o)
             \/ \E o \in BOOLEAN : SubmitOther(o)
    BY <2>4 DEF AnswerBulkIn, RefuseIn, SubmitBulkOut, SubmitOther
  <2>5. QED BY <1>1, <2>1, <2>2, <2>3, <2>4 DEF HandleUrb
<1>2. CASE Drain
  BY <1>2 DEF Drain, DrainInterruptIn, DrainBulkIn, DrainSkip, DrainEnd
<1>3. CASE \/ \E new \in 1..MaxSample : OnSample(new)
           \/ OnKeepaliveDue \/ TakeEffects \/ Tick \/ UNCHANGED vars
  BY <1>3 DEF OnSample, OnKeepaliveDue, TakeEffects, Tick, vars
<1>4. QED BY <1>1, <1>2, <1>3 DEF Next

\* Every step keeps the queue in the order of submission.
LEMMA QueueInOrderStep ==
  ASSUME IInv, QueueInOrder, [Next]_vars PROVE QueueInOrder'
<1>0. /\ Len(pending) \in Nat /\ lastSeq \in Nat /\ pending \in Seq(Urb)
      /\ \A i \in 1..Len(pending) : pending[i].seq \in 1..lastSeq
  BY LenProperties, WaitingUrb, SMTT(20) DEF IInv, TypeOK
<1>1. CASE pending' = pending
  BY <1>1 DEF QueueInOrder
<1>2. ASSUME NEW ep \in {1, 2}, NEW n \in Nat, Enqueue(ep, n) PROVE QueueInOrder'
  <2> DEFINE u == [seq |-> lastSeq + 1, ep |-> ep, len |-> n]
  <2>1. /\ Len(pending') = Len(pending) + 1
        /\ pending'[Len(pending) + 1] = u
        /\ \A i \in 1..Len(pending) : pending'[i] = pending[i]
    BY <1>0, <1>2 DEF Enqueue
  <2>2. u.seq = lastSeq + 1
    OBVIOUS
  <2> HIDE DEF u
  <2>3. ASSUME NEW i \in 1..Len(pending'), NEW j \in 1..Len(pending'), i < j
        PROVE  pending'[i].seq < pending'[j].seq
    <3>1. i \in 1..Len(pending) /\ pending'[i] = pending[i]
      BY <1>0, <2>1, <2>3
    <3>2. CASE j = Len(pending) + 1
      BY <1>0, <2>1, <2>2, <3>1, <3>2
    <3>3. CASE j # Len(pending) + 1
      BY <1>0, <2>1, <2>3, <3>1, <3>3 DEF QueueInOrder
    <3>4. QED BY <3>2, <3>3
  <2>4. QED BY <2>3 DEF QueueInOrder
<1>3. ASSUME NEW k \in 1..Len(pending), pending' = RemoveAt(pending, k)
      PROVE  QueueInOrder'
  <2>1. /\ Len(pending') = Len(pending) - 1
        /\ \A j \in 1..Len(pending') :
             pending'[j] = IF j < k THEN pending[j] ELSE pending[j + 1]
    BY <1>3, PendingRemoval DEF IInv
  <2>2. ASSUME NEW i \in 1..Len(pending'), NEW j \in 1..Len(pending'), i < j
        PROVE  pending'[i].seq < pending'[j].seq
    <3> DEFINE old(x) == IF x < k THEN x ELSE x + 1
    <3>1. /\ old(i) \in 1..Len(pending) /\ pending'[i] = pending[old(i)]
          /\ old(j) \in 1..Len(pending) /\ pending'[j] = pending[old(j)]
      BY <1>0, <2>1
    <3>2. old(i) < old(j)
      BY <1>0, <2>1, <2>2
    <3>3. QED BY <3>1, <3>2 DEF QueueInOrder
  <2>3. QED BY <2>2 DEF QueueInOrder
<1>4. QED BY <1>1, <1>2, <1>3, QueueSteps

\* The queue is always in the order of submission.
THEOREM QueueOrdered == Spec => []QueueInOrder
<1>1. Init => QueueInOrder
  BY EmptySeq DEF Init, QueueInOrder
<1>2. IInv /\ QueueInOrder /\ [Next]_vars => QueueInOrder'
  BY QueueInOrderStep
<1>3. QED BY <1>1, <1>2, InductiveInvariant, PTL DEF Spec

\* An URB is answered when it is submitted, and then it gets no report; or by the
\* drain, when it is the one under the cursor.
LEMMA WhoIsAnswered ==
  ASSUME IInv, [Next]_vars, NEW s \in 1..MaxUrbs, answers'[s] > answers[s]
  PROVE  \/ /\ s = lastSeq + 1 /\ Submit
            /\ inputCompletions' = inputCompletions
            /\ received' = received \/ \E n \in InLengths : AnswerBulkIn(n)
         \/ /\ cursor \in 1..Len(pending) /\ s = pending[cursor].seq
            /\ DrainInterruptIn \/ DrainBulkIn
<1>1. answers'[s] # answers[s] /\ answers' # answers
  <2>1. answers[s] \in Nat
    BY DEF IInv, TypeOK
  <2>2. QED BY <2>1
<1>2. ASSUME NEW t \in 1..MaxUrbs, Reply(t) PROVE t = s
  <2>1. \A u \in 1..MaxUrbs : u # t => answers'[u] = answers[u]
    BY <1>2, ReplyType DEF IInv
  <2>2. QED BY <1>1, <2>1
<1>3. CASE HandleUrb
  <2>1. /\ Submit /\ Reply(lastSeq + 1) /\ inputCompletions' = inputCompletions
        /\ received' = received \/ \E n \in InLengths : AnswerBulkIn(n)
    BY <1>1, <1>3
    DEF HandleUrb, SubmitInterruptIn, SubmitBulkIn, AnswerBulkIn, RefuseIn,
        SubmitBulkOut, SubmitOther, Unlink
  <2>2. lastSeq + 1 \in 1..MaxUrbs
    BY <2>1, EngineAssumption DEF Submit, IInv, TypeOK
  <2>3. QED BY <1>2, <2>1, <2>2
<1>4. CASE DrainInterruptIn \/ DrainBulkIn
  <2>1. cursor \in 1..Len(pending) /\ Reply(pending[cursor].seq)
    BY <1>4 DEF DrainInterruptIn, DrainBulkIn
  <2>2. pending[cursor].seq \in 1..MaxUrbs
    BY <2>1, WaitingUrb DEF IInv
  <2>3. QED BY <1>2, <1>4, <2>1, <2>2
<1>5. ~(\/ \E new \in 1..MaxSample : OnSample(new)
        \/ OnKeepaliveDue \/ TakeEffects \/ Tick \/ UNCHANGED vars)
  BY <1>1 DEF OnSample, OnKeepaliveDue, TakeEffects, Tick, vars
<1>6. ~DrainSkip /\ ~DrainEnd
  BY <1>1 DEF DrainSkip, DrainEnd
<1>7. QED BY <1>3, <1>4, <1>5, <1>6 DEF Next, Drain

\* A report or a piece of a response goes to the URB that has waited longest for
\* it, and an URB that waits is answered with nothing less.
THEOREM AnswersServedInOrder == Spec => AnswersInOrder
<1>1. ASSUME IInv, QueueInOrder, [Next]_vars, NEW s \in 1..MaxUrbs,
             answers'[s] > answers[s]
      PROVE  /\ GivesReport => \A i \in Waiting(1) : s <= pending[i].seq
             /\ GivesResponse => \A i \in Waiting(2) : s <= pending[i].seq
             /\ s \in PendingSeqs => GivesReport \/ GivesResponse
  <2>1. /\ inputCompletions \in Nat /\ lastSeq \in Nat /\ Len(pending) \in Nat
        /\ \A i \in 1..Len(pending) :
             pending[i].seq \in 1..lastSeq /\ pending[i].ep \in {1, 2}
    <3>1. inputCompletions \in Nat /\ lastSeq \in Nat /\ Len(pending) \in Nat
      BY <1>1, LenProperties DEF IInv, TypeOK
    <3>2. ASSUME NEW i \in 1..Len(pending)
          PROVE  pending[i].seq \in 1..lastSeq /\ pending[i].ep \in {1, 2}
      BY <1>1, WaitingUrb DEF IInv, Urb
    <3>3. QED BY <3>1, <3>2
  <2>2. CASE /\ s = lastSeq + 1 /\ Submit
             /\ inputCompletions' = inputCompletions
             /\ received' = received \/ \E n \in InLengths : AnswerBulkIn(n)
    <3>1. ~GivesReport
      BY <2>1, <2>2 DEF GivesReport
    <3>2. s \notin PendingSeqs
      BY <2>1, <2>2 DEF PendingSeqs
    <3>3. ASSUME GivesResponse PROVE Waiting(2) = {}
      <4>1. PICK n \in InLengths : AnswerBulkIn(n)
        BY <2>2, <3>3 DEF GivesResponse
      <4>2. bulk # <<>>
        BY <3>3, <4>1 DEF GivesResponse, AnswerBulkIn, CanRead, ReadBulk
      <4>3. Idle
        BY <2>2 DEF Submit
      <4>4. QED BY <1>1, <4>2, <4>3 DEF IInv, DrainProgress, Waiting
    <3>4. QED BY <3>1, <3>2, <3>3
  <2>3. CASE /\ cursor \in 1..Len(pending) /\ s = pending[cursor].seq
             /\ DrainInterruptIn \/ DrainBulkIn
    <3>1. ASSUME NEW i \in 1..Len(pending), i >= cursor PROVE s <= pending[i].seq
      BY <1>1, <2>1, <2>3, <3>1 DEF QueueInOrder
    <3>2. CASE DrainInterruptIn
      <4>1. GivesReport /\ ~GivesResponse
        BY <2>1, <3>2 DEF DrainInterruptIn, GivesReport, GivesResponse
      <4>2. ASSUME NEW i \in Waiting(1) PROVE i >= cursor
        <5>1. Reportable
          BY <3>2 DEF DrainInterruptIn
        <5>2. i \in 1..Len(pending) /\ pending[i].ep = 1
          BY DEF Waiting
        <5>3. ~(i < cursor)
          BY <1>1, <5>1, <5>2 DEF IInv, DrainProgress
        <5>4. QED BY <2>1, <2>3, <5>2, <5>3
      <4>3. QED BY <3>1, <4>1, <4>2 DEF Waiting
    <3>3. CASE DrainBulkIn
      <4>1. ~GivesReport
        BY <2>1, <3>3 DEF DrainBulkIn, GivesReport
      <4>2. /\ pending[cursor].len > 0 /\ pending[cursor].len \in Nat
            /\ CanRead(pending[cursor].len) /\ ReadBulk(pending[cursor].len)
            /\ bulk # <<>>
        BY <1>1, <2>3, <3>3, WaitingUrb DEF DrainBulkIn, IInv, DrainProgress, Urb, CanRead
      <4>3. GivesResponse
        <5>1. bulk[1] \in Response /\ Len(bulk) \in Nat /\ 1 \in 1..Len(bulk)
          BY <1>1, <4>2, ElementOfSeq, EmptySeq, LenProperties DEF IInv, TypeOK
        <5>2. /\ bulk[1].from \in Nat /\ bulk[1].to \in Nat
              /\ bulk[1].from = received /\ bulk[1].from < bulk[1].to
          BY <1>1, <4>2, <5>1 DEF IInv, StreamContiguous, Response
        <5>3. QED BY <4>2, <5>2 DEF ReadBulk, GivesResponse
      <4>4. ASSUME NEW i \in Waiting(2) PROVE i >= cursor
        <5>1. i \in 1..Len(pending) /\ pending[i].ep = 2
          BY DEF Waiting
        <5>2. ~(i < cursor)
          BY <1>1, <4>2, <5>1 DEF IInv, DrainProgress
        <5>3. QED BY <2>1, <2>3, <5>1, <5>2
      <4>5. QED BY <3>1, <4>1, <4>3, <4>4 DEF Waiting
    <3>4. QED BY <2>3, <3>2, <3>3
  <2>4. QED BY <1>1, <2>2, <2>3, WhoIsAnswered
<1>2. IInv /\ QueueInOrder /\ [Next]_vars
        => [\A s \in 1..MaxUrbs : answers'[s] > answers[s] =>
              /\ GivesReport => \A i \in Waiting(1) : s <= pending[i].seq
              /\ GivesResponse => \A i \in Waiting(2) : s <= pending[i].seq
              /\ s \in PendingSeqs => GivesReport \/ GivesResponse]_vars
  BY <1>1
<1>3. QED
  BY <1>2, InductiveInvariant, QueueOrdered, PTL DEF Spec, AnswersInOrder

-----------------------------------------------------------------------------
(* The session. *)

\* Each output belongs to an URB that was answered; a round makes at most one.
OutputsAnswered ==
  /\ \A i \in 1..Len(outputs) : outputs[i] \in Answered
  /\ Len(outputs) <= 1

\* What the host was told, in relation to what the engine decided.
Told ==
  /\ written \subseteq Answered /\ actuated \subseteq written /\ acked \subseteq asked
  /\ \A s \in asked : s \in unlinked \/ s \in Answered
  /\ \A s \in acked : s \in unlinked \/ s \in written

\* What each phase of a round knows.
Round ==
  /\ phase \in {"select", "handle", "write", "settle", "ended"} /\ cancelled \in BOOLEAN
  /\ published \in 1..MaxSample
  /\ phase = "settle" => written = Answered /\ acked = asked
  /\ phase = "select" => /\ outputs = <<>> /\ Idle
                         /\ written = Answered /\ acked = asked
  /\ phase \in {"write", "settle"} => Idle

SInv == IInv /\ OutputsAnswered /\ Told /\ Round

-----------------------------------------------------------------------------
(* A session takes only steps of the engine. *)

LEMMA EngineStep ==
  published \in 1..MaxSample /\ [SessionNext]_sessionVars => [Next]_vars
<1> SUFFICES ASSUME published \in 1..MaxSample, [SessionNext]_sessionVars
             PROVE  Next \/ UNCHANGED vars
  OBVIOUS
<1>1. CASE SelectInput
  BY <1>1 DEF SelectInput, Next
<1>2. CASE SelectFrame \/ SelectTimer
  BY <1>2 DEF SelectFrame, SelectTimer, Next
<1>3. CASE Handle
  BY <1>3 DEF Handle, Next
<1>4. CASE Settle \/ TimePasses
  BY <1>4 DEF Settle, TimePasses, Next
<1>5. CASE SelectCancel \/ SelectReadError \/ WriteReplies \/ WriteAborted \/ Publish
             \/ Cancel
  BY <1>5 DEF SelectCancel, SelectReadError, WriteReplies, WriteAborted, Publish, Cancel
<1>6. CASE UNCHANGED sessionVars
  BY <1>6 DEF sessionVars
<1>7. QED
  BY <1>1, <1>2, <1>3, <1>4, <1>5, <1>6 DEF SessionNext, Loop, WriteCancelled

LEMMA PublishedInRange ==
  published \in 1..MaxSample /\ [SessionNext]_sessionVars
    => (published \in 1..MaxSample)'
<1> SUFFICES ASSUME published \in 1..MaxSample, [SessionNext]_sessionVars
             PROVE  published' \in 1..MaxSample
  OBVIOUS
<1>1. CASE Publish
  BY <1>1, EngineAssumption DEF Publish
<1>2. CASE UNCHANGED sessionVars
  BY <1>2 DEF sessionVars
<1>3. CASE ~Publish /\ SessionNext
  BY <1>3 DEF SessionNext, Loop, SelectInput, SelectFrame, SelectTimer, Handle, Settle,
     TimePasses, SelectCancel, SelectReadError, WriteReplies, WriteAborted, Cancel,
     WriteCancelled, environment
<1>4. QED BY <1>1, <1>2, <1>3

\* Every session is a run of the engine, so what is proved of it holds of sessions.
LEMMA SessionRunsEngine == SessionSpec => Spec
<1>1. SessionInit => Init /\ published \in 1..MaxSample
  BY EngineAssumption, SessionAssumption DEF SessionInit, Init
<1>2. QED
  BY <1>1, EngineStep, PublishedInRange, PTL DEF SessionSpec, Spec

-----------------------------------------------------------------------------
(* What the engine adds to the fates of URBs in a round. *)

\* An URB that is submitted and answered at once.
LEMMA AnsweredAtOnce ==
  ASSUME TypeOK, Submit, Reply(lastSeq + 1)
  PROVE  Answered' = Answered \cup {lastSeq + 1}
<1>1. lastSeq + 1 \in 1..MaxUrbs
  BY EngineAssumption DEF Submit, TypeOK
<1>2. /\ answers'[lastSeq + 1] = answers[lastSeq + 1] + 1
      /\ answers[lastSeq + 1] \in Nat
      /\ \A s \in 1..MaxUrbs : s # lastSeq + 1 => answers'[s] = answers[s]
  BY <1>1, ReplyType DEF TypeOK
<1>3. QED BY <1>1, <1>2 DEF Answered

\* An URB in the queue that is answered.
LEMMA AnsweredLater ==
  ASSUME TypeOK, NEW i \in 1..Len(pending), Reply(pending[i].seq)
  PROVE  Answered \subseteq Answered'
<1>1. pending[i].seq \in 1..MaxUrbs
  <2>1. pending[i] \in Urb
    BY ElementOfSeq DEF TypeOK
  <2>2. QED BY <2>1 DEF Urb
<1>2. /\ answers'[pending[i].seq] = answers[pending[i].seq] + 1
      /\ answers[pending[i].seq] \in Nat
      /\ \A s \in 1..MaxUrbs : s # pending[i].seq => answers'[s] = answers[s]
  BY <1>1, ReplyType DEF TypeOK
<1>3. QED BY <1>1, <1>2 DEF Answered

\* A frame adds at most one output, of an URB it answers; an unlink is confirmed,
\* or the URB was answered.
LEMMA FrameEffect ==
  ASSUME IInv, HandleUrb, \A s \in asked : s \in unlinked \/ s \in Answered
  PROVE  /\ Answered \subseteq Answered' /\ asked \subseteq asked'
         /\ unlinked \subseteq unlinked'
         /\ \A s \in asked' : s \in unlinked' \/ s \in Answered'
         /\ \/ outputs' = outputs
            \/ \E s \in Answered' : outputs' = Append(outputs, s)
<1>1. CASE SubmitInterruptIn \/ \E n \in InLengths : SubmitBulkIn(n)
  BY <1>1 DEF SubmitInterruptIn, SubmitBulkIn, unlinks, Answered
<1>2. CASE \/ \E n \in InLengths : AnswerBulkIn(n)
           \/ \E ep \in {1, 2}, n \in InLengths : RefuseIn(ep, n)
           \/ \E n \in ResponseLengths \cup {0}, o \in BOOLEAN : SubmitBulkOut(n, o)
           \/ \E o \in BOOLEAN : SubmitOther(o)
  <2>1. Submit /\ Reply(lastSeq + 1) /\ UNCHANGED unlinks
    BY <1>2 DEF AnswerBulkIn, RefuseIn, SubmitBulkOut, SubmitOther
  <2>2. outputs' = outputs \/ outputs' = Append(outputs, lastSeq + 1)
    BY <1>2 DEF AnswerBulkIn, RefuseIn, SubmitBulkOut, SubmitOther
  <2>3. Answered' = Answered \cup {lastSeq + 1}
    BY <2>1, AnsweredAtOnce DEF IInv
  <2>4. QED BY <2>1, <2>2, <2>3 DEF unlinks
<1>3. ASSUME NEW s \in 1..MaxUrbs, Unlink(s)
      PROVE  /\ Answered' = Answered /\ outputs' = outputs /\ asked \subseteq asked'
             /\ unlinked \subseteq unlinked'
             /\ \A t \in asked' : t \in unlinked' \/ t \in Answered'
  <2>1. /\ answers' = answers /\ outputs' = outputs /\ asked' = asked \cup {s}
        /\ s <= lastSeq /\ s \notin asked
    BY <1>3 DEF Unlink
  <2>2. Answered' = Answered
    BY <2>1 DEF Answered
  <2>3. CASE unlinked' = unlinked \cup {s}
    BY <2>1, <2>2, <2>3
  <2>4. CASE (\A i \in 1..Len(pending) : pending[i].seq # s) /\ UNCHANGED unlinked
    <3>1. s \notin PendingSeqs /\ s \notin unlinked
      BY <2>1, <2>4 DEF PendingSeqs, IInv, TypeOK
    <3>2. answers[s] = 1
      BY <2>1, <3>1 DEF IInv, OneFate
    <3>3. s \in Answered
      BY <3>2 DEF Answered
    <3>4. QED BY <2>1, <2>2, <2>4, <3>3
  <2>5. QED BY <1>3, <2>1, <2>2, <2>3, <2>4 DEF Unlink
<1>4. QED BY <1>1, <1>2, <1>3 DEF HandleUrb

\* Neither the drain, a sample nor the timer touches outputs or unlinks.
LEMMA DrainEffect ==
  ASSUME IInv, Drain \/ OnKeepaliveDue \/ \E new \in 1..MaxSample : OnSample(new)
  PROVE  Answered \subseteq Answered' /\ UNCHANGED <<asked, unlinked, outputs>>
<1>1. CASE DrainInterruptIn \/ DrainBulkIn
  <2>1. cursor \in 1..Len(pending) /\ Reply(pending[cursor].seq)
        /\ UNCHANGED <<asked, unlinked, outputs>>
    BY <1>1 DEF DrainInterruptIn, DrainBulkIn, unlinks
  <2>2. QED BY <2>1, AnsweredLater DEF IInv
<1>2. CASE \/ DrainSkip \/ DrainEnd \/ OnKeepaliveDue
           \/ \E new \in 1..MaxSample : OnSample(new)
  BY <1>2 DEF DrainSkip, DrainEnd, OnKeepaliveDue, OnSample, unlinks, Answered
<1>3. QED BY <1>1, <1>2 DEF Drain

-----------------------------------------------------------------------------
(* The invariant of a session. *)

LEMMA SessionInitially ==
  SessionInit => SInv
<1> SUFFICES ASSUME SessionInit PROVE SInv
  OBVIOUS
<1>1. IInv
  BY InitIInv DEF SessionInit
<1>2. published \in 1..MaxSample
  BY EngineAssumption, SessionAssumption DEF SessionInit, Init
<1>3. outputs = <<>> /\ Len(outputs) = 0 /\ asked = {}
  BY EmptySeq DEF SessionInit, Init
<1>4. OutputsAnswered
  BY <1>3 DEF OutputsAnswered
<1>5. Told
  BY <1>3 DEF SessionInit, Told
<1>6. Round
  <2>1. Answered = {} /\ Idle
    BY DEF SessionInit, Init, Answered, Idle
  <2>2. QED BY <1>2, <1>3, <2>1 DEF SessionInit, Round
<1>7. QED BY <1>1, <1>4, <1>5, <1>6 DEF SInv

\* Fewer things can be false of more answered and unlinked URBs.
LEMMA ToldGrows ==
  ASSUME Told, Answered \subseteq Answered', asked \subseteq asked',
         unlinked \subseteq unlinked', UNCHANGED <<written, acked, actuated>>,
         \A s \in asked' : s \in unlinked' \/ s \in Answered'
  PROVE  Told'
  BY DEF Told

LEMMA SessionStep ==
  SInv /\ [SessionNext]_sessionVars => SInv'
<1> SUFFICES ASSUME SInv, [SessionNext]_sessionVars PROVE SInv'
  OBVIOUS
<1>1. IInv' /\ published' \in 1..MaxSample
  BY EngineStep, PublishedInRange, NextStep DEF SInv, Round
<1>2. /\ IInv /\ TypeOK /\ Told /\ OutputsAnswered /\ Round
      /\ outputs \in Seq(1..MaxUrbs) /\ Len(outputs) \in Nat
  BY LenProperties DEF SInv, IInv, TypeOK
<1>3. ASSUME UNCHANGED vars, UNCHANGED <<written, acked, actuated>>,
             phase' \in {phase, "ended"}, cancelled' \in BOOLEAN
      PROVE  SInv'
  <2>1. Answered' = Answered /\ Idle' = Idle
    BY <1>3 DEF Answered, Idle, vars
  <2>2. OutputsAnswered' /\ Told'
    BY <1>2, <1>3, <2>1 DEF OutputsAnswered, Told, vars
  <2>3. Round'
    BY <1>1, <1>2, <1>3, <2>1 DEF Round, vars
  <2>4. QED BY <1>1, <2>2, <2>3 DEF SInv
<1>4. CASE SelectCancel \/ SelectReadError \/ WriteAborted
  BY <1>2, <1>3, <1>4 DEF SelectCancel, SelectReadError, WriteAborted, environment, wire,
     Round
<1>5. CASE SelectInput \/ SelectTimer
  <2>1. /\ OnKeepaliveDue \/ \E new \in 1..MaxSample : OnSample(new)
        /\ phase' = "handle" /\ UNCHANGED <<cancelled, written, acked, actuated>>
    BY <1>2, <1>5 DEF SelectInput, SelectTimer, environment, wire, Round
  <2>2. Answered \subseteq Answered' /\ UNCHANGED <<asked, unlinked, outputs>>
    BY <1>2, <2>1, DrainEffect
  <2>3. Told'
    <3>1. \A s \in asked' : s \in unlinked' \/ s \in Answered'
      BY <1>2, <2>2 DEF Told
    <3>2. QED BY <1>2, <2>1, <2>2, <3>1, ToldGrows
  <2>4. QED BY <1>1, <1>2, <2>1, <2>2, <2>3 DEF SInv, OutputsAnswered, Round
<1>6. CASE SelectFrame
  <2>1. /\ HandleUrb /\ phase = "select" /\ phase' = "handle"
        /\ UNCHANGED <<cancelled, written, acked, actuated>>
    BY <1>6 DEF SelectFrame, environment, wire
  <2>2. /\ Answered \subseteq Answered' /\ asked \subseteq asked'
        /\ unlinked \subseteq unlinked'
        /\ \A s \in asked' : s \in unlinked' \/ s \in Answered'
        /\ \/ outputs' = outputs
           \/ \E s \in Answered' : outputs' = Append(outputs, s)
    BY <1>2, <2>1, FrameEffect DEF Told
  <2>3. Told'
    BY <1>2, <2>1, <2>2, ToldGrows
  <2>4. outputs = <<>> /\ Len(outputs) = 0
    BY <1>2, <2>1, EmptySeq DEF Round
  <2>5. OutputsAnswered'
    <3>1. CASE outputs' = outputs
      BY <2>4, <3>1 DEF OutputsAnswered
    <3>2. ASSUME NEW s \in Answered', outputs' = Append(outputs, s) PROVE OutputsAnswered'
      <4>1. s \in 1..MaxUrbs
        BY <3>2 DEF Answered
      <4>2. Len(outputs') = 1 /\ outputs'[1] = s
        BY <1>2, <2>4, <3>2, <4>1, AppendProperties
      <4>3. QED BY <3>2, <4>2 DEF OutputsAnswered
    <3>3. QED BY <2>2, <3>1, <3>2
  <2>6. QED BY <1>1, <1>2, <2>1, <2>3, <2>5 DEF SInv, Round
<1>7. CASE Handle
  <2>1. CASE Drain /\ UNCHANGED phase
    <3>1. Answered \subseteq Answered' /\ UNCHANGED <<asked, unlinked, outputs>>
      BY <1>2, <2>1, DrainEffect
    <3>2. UNCHANGED <<cancelled, written, acked, actuated>> /\ phase = "handle"
      BY <1>7 DEF Handle, environment, wire
    <3>3. Told'
      <4>1. \A s \in asked' : s \in unlinked' \/ s \in Answered'
        BY <1>2, <3>1 DEF Told
      <4>2. QED BY <1>2, <3>1, <3>2, <4>1, ToldGrows
    <3>4. QED BY <1>1, <1>2, <2>1, <3>1, <3>2, <3>3 DEF SInv, OutputsAnswered, Round
  <2>2. CASE /\ Idle /\ UNCHANGED vars
             /\ phase' = IF RepliesPending THEN "write" ELSE "settle"
    <3>1. Answered' = Answered /\ UNCHANGED <<asked, unlinked, outputs>>
      BY <2>2 DEF Answered, vars
    <3>2. UNCHANGED <<cancelled, written, acked, actuated>>
      BY <1>7 DEF Handle, environment, wire
    <3>3. /\ phase' = "settle" => written = Answered /\ acked = asked
          /\ phase' \in {"write", "settle"}
      BY <2>2 DEF RepliesPending
    <3>4. Idle'
      BY <2>2 DEF Idle, vars
    <3>5. Round'
      BY <3>4, <1>1, <1>2, <2>2, <3>1, <3>2, <3>3 DEF Round
    <3>6. OutputsAnswered' /\ Told'
      BY <1>2, <3>1, <3>2 DEF OutputsAnswered, Told
    <3>7. QED BY <1>1, <3>5, <3>6 DEF SInv
  <2>3. QED BY <1>7, <2>1, <2>2 DEF Handle
<1>8. CASE WriteReplies
  <2>1. /\ written' = Answered /\ acked' = asked /\ phase' = "settle"
        /\ UNCHANGED <<vars, cancelled, actuated>> /\ Answered' = Answered
    BY <1>8 DEF WriteReplies, environment, vars, Answered
  <2>2. Idle'
    BY <1>2, <1>8, <2>1 DEF WriteReplies, Round, Idle, vars
  <2>3. Told'
    BY <1>2, <2>1 DEF Told, vars
  <2>4. QED BY <1>1, <1>2, <2>1, <2>2, <2>3 DEF SInv, OutputsAnswered, Round, vars
<1>9. CASE Settle
  <2>1. /\ phase = "settle" /\ phase' = "select" /\ outputs' = <<>>
        /\ actuated' = actuated \cup ToSet(outputs)
        /\ UNCHANGED <<answers, asked, unlinked, cancelled, written, acked>>
        /\ Idle'
    BY <1>9 DEF Settle, TakeEffects, Idle, unlinks, environment, wire
  <2>2. Answered' = Answered /\ written = Answered /\ acked = asked
    BY <1>2, <2>1 DEF Answered, Round
  <2>3. ToSet(outputs) \subseteq Answered
    <3>1. DOMAIN outputs = 1..Len(outputs)
      BY <1>2, LenProperties
    <3>2. QED BY <1>2, <3>1 DEF ToSet, OutputsAnswered
  <2>4. Told'
    BY <1>2, <2>1, <2>2, <2>3 DEF Told
  <2>5. Len(outputs') = 0
    BY <2>1, EmptySeq
  <2>6. OutputsAnswered'
    BY <2>5 DEF OutputsAnswered
  <2>7. QED BY <1>1, <1>2, <2>1, <2>2, <2>4, <2>6 DEF SInv, Round
<1>10. CASE Publish \/ Cancel
  BY <1>2, <1>3, <1>10 DEF Publish, Cancel, wire, Round
<1>11. CASE TimePasses
  <2>1. UNCHANGED <<answers, asked, unlinked, outputs, phase, cancelled, written, acked,
                    actuated, cursor>>
    BY <1>11 DEF TimePasses, Tick, unlinks, environment, wire
  <2>2. Answered' = Answered
    BY <2>1 DEF Answered
  <2>3. QED BY <1>1, <1>2, <2>1, <2>2 DEF SInv, OutputsAnswered, Told, Round, Idle
<1>12. CASE UNCHANGED sessionVars
  BY <1>2, <1>3, <1>12 DEF sessionVars, Round
<1>13. QED
  BY <1>4, <1>5, <1>6, <1>7, <1>8, <1>9, <1>10, <1>11, <1>12
     DEF SessionNext, Loop, WriteCancelled

LEMMA SessionInvariant ==
  SessionSpec => []SInv
  BY SessionInitially, SessionStep, PTL DEF SessionSpec

-----------------------------------------------------------------------------
\* No output acts on the controller before the host got the reply of its URB, for
\* every capacity and wherever the session is cancelled or its write fails.
THEOREM OutputsFollowReplies == SessionSpec => []AckBeforeOutput
<1>1. SInv => AckBeforeOutput
  BY DEF SInv, Told, AckBeforeOutput
<1>2. QED BY <1>1, SessionInvariant, PTL

\* A session that waits for an event has answered every URB it can answer and has
\* written every reply, also the confirmations of unlinks.
THEOREM WaitsOweNothing == SessionSpec => []WaitsOwingNothing
<1>1. SInv => WaitsOwingNothing
  <2> SUFFICES ASSUME SInv, phase = "select"
               PROVE  Idle /\ NothingLeftWaiting /\ written = Answered /\ acked = asked
    BY DEF WaitsOwingNothing
  <2>1. Idle /\ written = Answered /\ acked = asked
    BY DEF SInv, Round
  <2>2. NothingLeftWaiting
    BY IdleAnswersAll DEF SInv
  <2>3. QED BY <2>1, <2>2
<1>2. QED BY <1>1, SessionInvariant, PTL

\* An unlink is confirmed and its URB never answered, or the answer is there first.
THEOREM UnlinksAreDecided == SessionSpec => []UnlinkVerdict
<1>1. SInv => UnlinkVerdict
  <2> SUFFICES ASSUME SInv PROVE UnlinkVerdict
    OBVIOUS
  <2>1. IInv /\ TypeOK /\ OneFate /\ Told /\ OutputsAnswered /\ Round
    BY DEF SInv, IInv
  <2>2. Answered \subseteq 1..MaxUrbs /\ asked \subseteq 1..MaxUrbs
    BY <2>1 DEF Answered, TypeOK
  <2>3. Answered \subseteq 1..lastSeq
    <3> SUFFICES ASSUME NEW s \in Answered PROVE s \in 1..lastSeq
      OBVIOUS
    <3>1. s \in 1..MaxUrbs /\ answers[s] > 0 /\ answers[s] \in Nat
      BY <2>1 DEF Answered, TypeOK
    <3>2. ~(s > lastSeq)
      BY <2>1, <3>1 DEF OneFate
    <3>3. QED BY <2>1, <3>1, <3>2 DEF TypeOK
  <2>4. SessionTypeOK
    BY <2>1, <2>2, <2>3 DEF SessionTypeOK, Round, Told, OutputsAnswered
  <2>5. ASSUME NEW s \in unlinked, s \in written PROVE FALSE
    <3>1. s \in 1..MaxUrbs /\ answers[s] > 0 /\ answers[s] = 0
      BY <2>1, <2>5 DEF Told, Answered, OneFate
    <3>2. QED BY <3>1
  <2>6. QED BY <2>1, <2>4, <2>5 DEF UnlinkVerdict, Told
<1>2. QED BY <1>1, SessionInvariant, PTL
=============================================================================
