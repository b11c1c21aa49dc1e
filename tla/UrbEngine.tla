------------------------------ MODULE UrbEngine ------------------------------
(***************************************************************************)
(* The URB scheduler of the virtual controller (ns2pro-usb engine.rs) with *)
(* the part of the USB device model it schedules for: the queue of         *)
(* vendor responses read over the bulk IN endpoint (device.rs).            *)
(*                                                                         *)
(* A host submits URBs numbered 1, 2, 3, ...  Interrupt IN (endpoint 1)    *)
(* waits for an input sample or a keepalive; bulk IN (endpoint 2) waits    *)
(* for a vendor response; everything else is answered at once.  The drain  *)
(* loop that every handler ends with is modelled one iteration per step:   *)
(* while `cursor' is not 0 the engine is inside that loop and nothing else *)
(* can run, as in the single-threaded code.                                *)
(*                                                                         *)
(* Data abstracted: report bytes, control requests, the meaning of vendor  *)
(* commands.  A vendor response is the interval of positions it occupies   *)
(* in the stream of all response bytes the device ever produced.           *)
(***************************************************************************)
EXTENDS Naturals, Sequences, SequencesExt

CONSTANTS MaxPending,     \* capacity of the pending queue (256 in the code)
          KeepaliveUs,    \* keepalive period (4000 microseconds in the code)
          InLengths,      \* transfer lengths a bulk IN URB may ask for
          ResponseLengths,\* lengths of the vendor responses
          MaxUrbs, MaxSample, MaxStream    \* bounds for TLC

ASSUME EngineAssumption ==
  /\ MaxPending \in Nat \ {0}
  /\ KeepaliveUs \in Nat \ {0}
  /\ InLengths \subseteq Nat
  /\ ResponseLengths \subseteq Nat \ {0}
  /\ MaxUrbs \in Nat /\ MaxSample \in Nat /\ MaxStream \in Nat

VARIABLES
  sample,       \* seq of the input sample the engine holds
  dirty,        \* that sample has not been reported yet
  pending,      \* URBs waiting, oldest first
  sinceReport,  \* time since last_report, counted up to KeepaliveUs
  bulk,         \* vendor responses not read yet
  cursor,       \* 0, or the index the drain loop looks at next
  forKeepalive, \* the drain's `keepalive' argument
  inputCompletions, keepalives, completedSample,  \* Effects, for statistics
  outputs,      \* Effects: URBs whose OUT data became a controller output
  \* what the host has seen; the code keeps none of these
  lastSeq,      \* the last URB submitted
  answers,      \* how often each URB was answered by a RET_SUBMIT
  asked,        \* URBs the host asked to unlink (it asks once)
  unlinked,     \* those whose unlink was answered with -ECONNRESET
  shown,        \* the last sample reported
  sinceShown,   \* and the time since, counted up to KeepaliveUs
  received,     \* stream position after the last response byte received
  produced      \* stream position after the last response byte produced

device == <<bulk, produced, received>>
unlinks == <<asked, unlinked>>
statistics == <<inputCompletions, keepalives, completedSample>>
reportState == <<dirty, sinceReport, shown, sinceShown, statistics>>
vars == <<sample, dirty, pending, sinceReport, bulk, cursor, forKeepalive,
          inputCompletions, keepalives, completedSample, outputs, lastSeq,
          answers, asked, unlinked, shown, sinceShown, received, produced>>

NoSample == 0      \* `shown' before any report; the default sample is 1
Urb == [seq : 1..MaxUrbs, ep : {1, 2}, len : Nat]
Response == [from : Nat, to : Nat]

Idle == cursor = 0
Waiting(ep) == {i \in 1..Len(pending) : pending[i].ep = ep}

Init ==
  /\ sample = 1 /\ dirty = TRUE
  /\ pending = <<>>
  /\ sinceReport = 0
  /\ bulk = <<>> /\ produced = 0 /\ received = 0
  /\ cursor = 0 /\ forKeepalive = FALSE
  /\ inputCompletions = 0 /\ keepalives = 0 /\ completedSample = NoSample
  /\ outputs = <<>>
  /\ lastSeq = 0 /\ answers = [s \in 1..MaxUrbs |-> 0] 
  /\ asked = {} /\ unlinked = {}
  /\ shown = NoSample /\ sinceShown = 0

-----------------------------------------------------------------------------
(* Helpers of the handlers. *)

Submit == Idle /\ lastSeq < MaxUrbs /\ lastSeq' = lastSeq + 1
Reply(s) == answers' = [answers EXCEPT ![s] = @ + 1]

\* Fault: the queue is a stack.
EnqueueFirst(ep, n) ==
  pending' = <<[seq |-> lastSeq + 1, ep |-> ep, len |-> n]>> \o pending

Enqueue(ep, n) ==
  pending' = Append(pending, [seq |-> lastSeq + 1, ep |-> ep, len |-> n])

\* Fault: the drain begins with the second URB.
StartDrainLate(keepalive) == cursor' = 2 /\ forKeepalive' = keepalive

StartDrain(keepalive) == cursor' = 1 /\ forKeepalive' = keepalive

(* One host transfer of at most n units of the response at the head; an    *)
(* unread tail stays at the head.  A transfer of length 0 reads nothing.   *)
CanRead(n) == n = 0 \/ bulk # <<>>

\* Fault: a short transfer discards the rest of the response.
ReadBulkDropsTail(n) ==
  IF n = 0 THEN UNCHANGED device
  ELSE /\ bulk' = Tail(bulk)
       /\ received' = IF bulk[1].to - bulk[1].from > n THEN bulk[1].from + n
                      ELSE bulk[1].to
       /\ UNCHANGED produced

ReadBulk(n) ==
  IF n = 0 THEN UNCHANGED device
  ELSE LET split == bulk[1].to - bulk[1].from > n
           end == IF split THEN bulk[1].from + n ELSE bulk[1].to
       IN /\ bulk' = IF split THEN [bulk EXCEPT ![1].from = end] ELSE Tail(bulk)
          /\ received' = end
          /\ UNCHANGED produced

-----------------------------------------------------------------------------
(* UrbEngine::submit, by direction and endpoint. *)

SubmitInterruptIn ==
  /\ Submit /\ Len(pending) < MaxPending
  /\ Enqueue(1, 0)
  /\ StartDrain(FALSE)
  /\ UNCHANGED <<sample, reportState, device, outputs, answers, unlinks>>

SubmitBulkIn(n) ==
  /\ Submit /\ ~CanRead(n) /\ Len(pending) < MaxPending
  /\ Enqueue(2, n)
  /\ UNCHANGED <<sample, reportState, device, cursor, forKeepalive, outputs,
                 answers, unlinks>>

\* A full queue refuses the URB with -ENOMEM, without a drain.
RefuseIn(ep, n) ==
  /\ Submit /\ Len(pending) >= MaxPending
  /\ ep = 2 => ~CanRead(n)
  /\ Reply(lastSeq + 1)
  /\ UNCHANGED <<sample, reportState, pending, device, cursor, forKeepalive,
                 outputs, unlinks>>

AnswerBulkIn(n) ==
  /\ Submit /\ CanRead(n)
  /\ ReadBulk(n)
  /\ Reply(lastSeq + 1)
  /\ StartDrain(FALSE)
  /\ UNCHANGED <<sample, reportState, pending, outputs, unlinks>>

\* bulk_out: a command shorter than its header is acknowledged and ignored
\* (n = 0), any other queues one response of n units; player LEDs are output.
SubmitBulkOut(n, isOutput) ==
  /\ Submit
  /\ produced + n <= MaxStream
  /\ n = 0 => ~isOutput
  /\ produced' = produced + n
  /\ bulk' = IF n = 0 THEN bulk
             ELSE Append(bulk, [from |-> produced, to |-> produced + n])
  /\ outputs' = IF isOutput THEN Append(outputs, lastSeq + 1) ELSE outputs
  /\ Reply(lastSeq + 1)
  /\ StartDrain(FALSE)
  /\ UNCHANGED <<sample, reportState, pending, received, unlinks>>

\* Control requests (also the stalled ones), interrupt OUT (rumble when the
\* data are well formed) and unknown endpoints: answered at once.
SubmitOther(isOutput) ==
  /\ Submit
  /\ outputs' = IF isOutput THEN Append(outputs, lastSeq + 1) ELSE outputs
  /\ Reply(lastSeq + 1)
  /\ StartDrain(FALSE)
  /\ UNCHANGED <<sample, reportState, pending, device, unlinks>>

\* Fault: an unlinked URB is confirmed but stays in the queue.
UnlinkLeavesUrb(s) ==
  /\ Idle /\ s <= lastSeq /\ s \notin asked
  /\ asked' = asked \cup {s}
  /\ unlinked' = unlinked \cup {pending[i].seq : i \in {j \in 1..Len(pending) :
                                                        pending[j].seq = s}}
  /\ UNCHANGED <<sample, reportState, pending, device, cursor, forKeepalive,
                 outputs, lastSeq, answers>>

\* UrbEngine::unlink: -ECONNRESET when the URB still waits, else 0.
Unlink(s) ==
  /\ Idle /\ s <= lastSeq /\ s \notin asked
  /\ asked' = asked \cup {s}
  /\ \/ \E i \in 1..Len(pending) :
          /\ pending[i].seq = s
          /\ pending' = RemoveAt(pending, i)
          /\ unlinked' = unlinked \cup {s}
     \/ /\ \A i \in 1..Len(pending) : pending[i].seq # s
        /\ UNCHANGED <<pending, unlinked>>
  /\ UNCHANGED <<sample, reportState, device, cursor, forKeepalive, outputs,
                 lastSeq, answers>>

OnSample(new) ==
  /\ Idle /\ new > sample
  /\ sample' = new
  /\ dirty' = TRUE
  /\ StartDrain(FALSE)
  /\ UNCHANGED <<pending, sinceReport, shown, sinceShown, statistics, device,
                 outputs, lastSeq, answers, unlinks>>

\* Fault: the timer waits for more than the age ever counted.
KeepaliveDueNever == Waiting(1) # {} /\ sinceReport > KeepaliveUs

\* next_keepalive_at: the caller's timer, armed while an interrupt IN waits.
KeepaliveDue == Waiting(1) # {} /\ sinceReport >= KeepaliveUs

OnKeepaliveDue ==
  /\ Idle /\ KeepaliveDue
  /\ StartDrain(TRUE)
  /\ UNCHANGED <<sample, reportState, pending, device, outputs, lastSeq, answers,
                 unlinks>>

-----------------------------------------------------------------------------
(* UrbEngine::drain, one iteration of its loop per step. *)

\* Fault: a keepalive answers every URB that waits.
ReportableUnpaced == dirty \/ forKeepalive

Reportable == dirty \/ (forKeepalive /\ sinceReport >= KeepaliveUs)

DrainInterruptIn ==
  /\ cursor \in 1..Len(pending)
  /\ pending[cursor].ep = 1
  /\ Reportable
  /\ keepalives' = IF dirty THEN keepalives ELSE keepalives + 1
  /\ dirty' = FALSE
  /\ sinceReport' = 0
  /\ inputCompletions' = inputCompletions + 1
  /\ completedSample' = sample
  /\ shown' = sample /\ sinceShown' = 0
  /\ Reply(pending[cursor].seq)
  /\ pending' = RemoveAt(pending, cursor)
  /\ UNCHANGED <<sample, device, cursor, forKeepalive, outputs, lastSeq, unlinks>>

DrainBulkIn ==
  /\ cursor \in 1..Len(pending)
  /\ pending[cursor].ep = 2
  /\ CanRead(pending[cursor].len)
  /\ ReadBulk(pending[cursor].len)
  /\ Reply(pending[cursor].seq)
  /\ pending' = RemoveAt(pending, cursor)
  /\ UNCHANGED <<sample, reportState, cursor, forKeepalive, outputs, lastSeq,
                 unlinks>>

DrainSkip ==
  /\ cursor \in 1..Len(pending)
  /\ pending[cursor].ep = 1 => ~Reportable
  /\ pending[cursor].ep = 2 => ~CanRead(pending[cursor].len)
  /\ cursor' = cursor + 1
  /\ UNCHANGED <<sample, reportState, pending, device, forKeepalive, outputs,
                 lastSeq, answers, unlinks>>

DrainEnd ==
  /\ cursor > Len(pending)
  /\ cursor' = 0 /\ forKeepalive' = FALSE
  /\ UNCHANGED <<sample, reportState, pending, device, outputs, lastSeq, answers,
                 unlinks>>

Drain == DrainInterruptIn \/ DrainBulkIn \/ DrainSkip \/ DrainEnd

-----------------------------------------------------------------------------
(* The caller: it takes the effects, and its clock advances. *)

TakeEffects ==
  /\ Idle
  /\ inputCompletions' = 0 /\ keepalives' = 0 /\ completedSample' = NoSample
  /\ outputs' = <<>>
  /\ UNCHANGED <<sample, dirty, pending, sinceReport, device, cursor, forKeepalive,
                 lastSeq, answers, unlinks, shown, sinceShown>>

Older(age) == IF age < KeepaliveUs THEN age + 1 ELSE age

Tick ==
  /\ Idle
  /\ sinceReport' = Older(sinceReport)
  /\ sinceShown' = Older(sinceShown)
  /\ UNCHANGED <<sample, dirty, shown, statistics, pending, device, cursor,
                 forKeepalive, outputs, lastSeq, answers, unlinks>>

HandleUrb ==
  \/ SubmitInterruptIn
  \/ \E n \in InLengths : SubmitBulkIn(n) \/ AnswerBulkIn(n)
  \/ \E ep \in {1, 2}, n \in InLengths : RefuseIn(ep, n)
  \/ \E n \in ResponseLengths \cup {0}, o \in BOOLEAN : SubmitBulkOut(n, o)
  \/ \E o \in BOOLEAN : SubmitOther(o)
  \/ \E s \in 1..MaxUrbs : Unlink(s)

Next ==
  \/ HandleUrb
  \/ \E new \in 1..MaxSample : OnSample(new)
  \/ OnKeepaliveDue
  \/ Drain
  \/ TakeEffects
  \/ Tick

Spec == Init /\ [][Next]_vars

-----------------------------------------------------------------------------
TypeOK ==
  /\ sample \in Nat /\ dirty \in BOOLEAN
  /\ pending \in Seq(Urb) /\ Len(pending) <= MaxPending
  /\ bulk \in Seq(Response) /\ produced \in Nat /\ received \in Nat
  /\ cursor \in Nat /\ forKeepalive \in BOOLEAN
  /\ inputCompletions \in Nat /\ keepalives \in Nat /\ completedSample \in Nat
  /\ outputs \in Seq(1..MaxUrbs)
  /\ lastSeq \in 0..MaxUrbs
  /\ answers \in [1..MaxUrbs -> Nat]
  /\ asked \subseteq 1..MaxUrbs /\ unlinked \subseteq asked
  /\ shown \in Nat
  /\ sinceReport \in 0..KeepaliveUs /\ sinceShown \in 0..KeepaliveUs

PendingSeqs == {pending[i].seq : i \in 1..Len(pending)}

\* Every URB has exactly one fate.  A submitted URB either still waits (once),
\* or was answered by exactly one RET_SUBMIT, or its unlink was confirmed with
\* -ECONNRESET and it is never answered; a number not submitted has none.
OneFate ==
  /\ \A i, j \in 1..Len(pending) : pending[i].seq = pending[j].seq => i = j
  /\ \A s \in 1..MaxUrbs :
       /\ s > lastSeq => s \notin PendingSeqs /\ s \notin unlinked /\ answers[s] = 0
       /\ s \in PendingSeqs => s \notin unlinked /\ answers[s] = 0
       /\ s \in unlinked => answers[s] = 0
       /\ s <= lastSeq /\ s \notin PendingSeqs /\ s \notin unlinked
            => answers[s] = 1

\* Between two handlers nothing that could be answered is left waiting: no
\* interrupt IN waits while the sample is unreported, no bulk IN waits while a
\* response is queued.  The loop of drain must visit every URB for this.
NothingLeftWaiting ==
  Idle => /\ dirty => Waiting(1) = {}
          /\ bulk # <<>> => Waiting(2) = {}

\* The responses queued are the part of the stream the host has not received,
\* in order and without gap or overlap, also after a response was split over
\* several short transfers (read_bulk_in keeps the unread tail at the head).
StreamContiguous ==
  /\ bulk = <<>> => received = produced
  /\ bulk # <<>> => /\ bulk[1].from = received
                    /\ bulk[Len(bulk)].to = produced
  /\ \A i \in 1..Len(bulk) : bulk[i].from < bulk[i].to
  /\ \A i \in 1..Len(bulk) - 1 : bulk[i].to = bulk[i + 1].from

\* The loop of drain: the URBs it has passed cannot be answered, and outside it
\* every URB was passed.  A bulk IN that waits asks for at least one unit.
DrainProgress ==
  /\ cursor <= Len(pending) + 1
  /\ Idle => ~forKeepalive
  /\ \A i \in 1..Len(pending) : pending[i].ep = 2 => pending[i].len > 0
  /\ \A i \in 1..Len(pending) : Idle \/ i < cursor =>
       (pending[i].ep = 1 => ~Reportable) /\ (pending[i].ep = 2 => bulk = <<>>)

\* The engine's dirty flag and report clock agree with what the host was shown.
ReportBookkeeping ==
  /\ shown <= sample /\ (dirty <=> shown < sample)
  /\ sinceReport = sinceShown

\* The inductive invariant the proofs use.
IInv == /\ TypeOK /\ OneFate /\ StreamContiguous
        /\ DrainProgress /\ ReportBookkeeping

\* The queue is in the order of submission (invariant by IInv).
QueueInOrder ==
  \A i, j \in 1..Len(pending) : i < j => pending[i].seq < pending[j].seq

\* Polling pressure never floods the host: two reports of the same sample are
\* at least a keepalive period apart, however many interrupt IN URBs wait.  And
\* the statistics tell them from fresh reports: a completion counts as a
\* keepalive exactly when it repeats the sample reported before.
RepeatsArePaced ==
  [][inputCompletions' > inputCompletions
       => /\ shown = sample => sinceShown >= KeepaliveUs
          /\ keepalives' > keepalives <=> shown = sample]_vars

\* A step gives an input report, or bytes of a vendor response, to the host.
GivesReport == inputCompletions' > inputCompletions
GivesResponse == received' # received

\* What the device has to give goes to the URB that has waited for it longest:
\* no report and no piece of a response overtakes an older URB that waits at the
\* same endpoint, neither in the drain nor with an URB that is answered at once.
\* An URB that waits is answered with nothing less than that.  (A refusal, or an
\* empty answer to a transfer of length 0, does not wait for older URBs.)
AnswersInOrder ==
  [][\A s \in 1..MaxUrbs : answers'[s] > answers[s] =>
       /\ GivesReport => \A i \in Waiting(1) : s <= pending[i].seq
       /\ GivesResponse => \A i \in Waiting(2) : s <= pending[i].seq
       /\ s \in PendingSeqs => GivesReport \/ GivesResponse]_vars
==============================================================================
