-------------------------- MODULE ControllerProofs ---------------------------
(***************************************************************************)
(* Proofs about Controller, for any capacity, any pace and any number of   *)
(* outputs: no late response is taken for the answer of another command,   *)
(* and rumble is handed to the link at a pace.                             *)
(***************************************************************************)
EXTENDS Controller, SequenceTheorems, TLAPS

Busy == command \in {"write", "wait"}

\* Commands that are over, and those whose response may still be met.
Past == IF Busy THEN 1..Len(sent) - 1 ELSE 1..Len(sent)
Late(r) == r \in unanswered \/ \E i \in 1..Len(responses) : responses[i] = r

\* A command is answered at most once.
Once ==
  /\ \A i, j \in 1..Len(responses) : responses[i] = responses[j] => i = j
  /\ \A i \in 1..Len(responses) : responses[i] \notin unanswered

\* Only a read may still be answered when its caller has gone on, and the setup
\* has passed the step of every read it sent.
Asked ==
  /\ Busy => /\ sent # <<>> /\ sent[Len(sent)].kind = Kind
             /\ phase = "setup" => step <= Len(Script)
  /\ command = "write" => ~Late(Len(sent))
  /\ phase = "setup" => command # "changed"
  /\ \A r \in Past : Late(r) => sent[r].kind \in Reads
  /\ phase = "setup" =>
       \A r \in Past : sent[r].kind \in Reads =>
         \E j \in 2..5 : j < step /\ Script[j] = sent[r].kind

\* The two clocks of the rumble agree.
Paced ==
  /\ rumbleTask = "write" => untilNext = 0 /\ sinceWrite = 0
  /\ rumbleTask # "write" => untilNext + sinceWrite = Pace

\* An LED command carries a value the channel had.
LedsSent == \A r \in 1..Len(sent) : sent[r].leds <= leds

ControllerInv ==
  OwnAnswer /\ LedsSent /\ Paced /\ Once /\ (phase # "ended" => Asked)

-----------------------------------------------------------------------------
(* The commands of the setup. *)

LEMMA ScriptIs ==
  /\ Len(Script) = IF pairs THEN 11 ELSE 7
  /\ Script[1] = "leds" /\ Script[2] = "primary" /\ Script[3] = "secondary"
  /\ Script[4] = "user" /\ Script[5] = "identity" /\ Script[6] = "mask"
  /\ Script[7] = "features"
  /\ pairs => /\ Script[8] = "address" /\ Script[9] = "key"
              /\ Script[10] = "challenge" /\ Script[11] = "confirm"
  BY DEF Script, Blocks, PairingStages

\* The reads are its steps two to five, each of its own kind.
LEMMA ScriptFacts ==
  ASSUME pairs \in BOOLEAN
  PROVE  /\ Len(Script) \in {7, 11}
         /\ \A i \in 1..Len(Script) :
              /\ Script[i] \in Reads <=> i \in 2..5
              /\ Script[i] \in {"primary", "secondary", "user"} => i \in 2..4
              /\ Script[i] = "identity" => i = 5
              /\ Script[i] # "read"
         /\ \A i, j \in 2..5 : Script[i] = Script[j] => i = j
         /\ "leds" \in {Script[i] : i \in 1..Len(Script)}
<1>1. Len(Script) \in {7, 11}
  BY ScriptIs
<1>2. ASSUME NEW i \in 1..Len(Script)
      PROVE  /\ Script[i] \in Reads <=> i \in 2..5
             /\ Script[i] \in {"primary", "secondary", "user"} => i \in 2..4
             /\ Script[i] = "identity" => i = 5
             /\ Script[i] # "read"
  <2>1. i \in 1..7 \/ (pairs /\ i \in 8..11)
    BY ScriptIs
  <2>2. CASE i \in 1..7
    BY <2>2, ScriptIs DEF Reads
  <2>3. CASE pairs /\ i \in 8..11
    BY <2>3, ScriptIs DEF Reads
  <2>4. QED BY <2>1, <2>2, <2>3
<1>3. \A i, j \in 2..5 : Script[i] = Script[j] => i = j
  BY ScriptIs
<1>4. QED BY <1>1, <1>2, <1>3, ScriptIs

LEMMA ScriptFixed ==
  ASSUME pairs' = pairs
  PROVE  Script' = Script
  BY DEF Script

\* What a command may be.
LEMMA KindType ==
  ASSUME TypeOK, phase # "ended", phase = "setup" => step <= Len(Script)
  PROVE  Kind \in {Script[i] : i \in 1..Len(Script)}
<1>1. pairs \in BOOLEAN /\ step \in 1..Len(Script) + 1
  BY DEF TypeOK
<1>2. CASE phase = "run"
  BY <1>1, <1>2, ScriptFacts DEF Kind
<1>3. CASE phase # "run" /\ step <= Len(Script)
  <2>1. step \in 1..Len(Script)
    BY <1>1, <1>3, ScriptFacts
  <2>2. QED BY <1>3, <2>1 DEF Kind
<1>4. QED BY <1>2, <1>3 DEF TypeOK

Commands == [kind : {Script[i] : i \in 1..Len(Script)}, leds : Nat]

LEMMA SentLeds ==
  ASSUME TypeOK
  PROVE  \A r \in 1..Len(sent) : sent[r].leds \in Nat
<1>1. sent \in Seq(Commands)
  BY DEF TypeOK, Commands
<1>2. \A r \in 1..Len(sent) : sent[r] \in Commands
  BY <1>1, ElementOfSeq
<1>3. \A c \in Commands : c.leds \in Nat
  BY DEF Commands
<1>4. QED BY <1>2, <1>3

-----------------------------------------------------------------------------
LEMMA ControllerInitially ==
  Init => ControllerInv
<1> SUFFICES ASSUME Init PROVE ControllerInv
  OBVIOUS
<1>1. TypeOK
  BY ControllerAssumption, ScriptFacts, EmptySeq DEF Init, TypeOK
<1>2. OwnAnswer /\ LedsSent /\ Once
  BY <1>1 DEF Init, OwnAnswer, LedsSent, Once
<1>3. Paced /\ Asked
  BY ControllerAssumption DEF Init, Paced, Asked, Busy, Past
<1>4. QED BY <1>2, <1>3 DEF ControllerInv

\* Steps of the rumble task, the host and time leave the commands alone.
LEMMA CommandsUnchanged ==
  ASSUME ControllerInv, UNCHANGED <<setup, commands>>, leds' \in Nat, leds <= leds',
         phase' = phase \/ phase' = "ended"
  PROVE  /\ LedsSent' /\ Once' /\ (phase' # "ended" => Asked')
         /\ \A pair \in accepted' : pair[1] = pair[2]
<1>1. Script' = Script
  BY ScriptFixed DEF setup
<1>2. LedsSent'
  <2>1. sent' = sent /\ leds \in Nat
    BY DEF ControllerInv, OwnAnswer, TypeOK, commands
  <2>2. \A r \in 1..Len(sent) : sent[r].leds \in Nat /\ sent[r].leds <= leds
    BY SentLeds DEF ControllerInv, OwnAnswer, LedsSent
  <2>3. QED BY <2>1, <2>2 DEF LedsSent
<1>3. Once' /\ \A pair \in accepted' : pair[1] = pair[2]
  BY DEF ControllerInv, Once, OwnAnswer, commands
<1>4. ASSUME phase' # "ended" PROVE Asked'
  BY <1>1, <1>4 DEF ControllerInv, Asked, Busy, Past, Late, Kind, setup, commands
<1>5. QED BY <1>2, <1>3, <1>4

-----------------------------------------------------------------------------
(* Controller::command *)

\* What is known of the state before a step.
LEMMA Before ==
  ASSUME ControllerInv, phase # "ended"
  PROVE  /\ TypeOK /\ LedsSent /\ Paced /\ Once /\ Asked
         /\ \A pair \in accepted : pair[1] = pair[2]
         /\ \A r \in 1..Len(sent) : sent[r].leds \in Nat
         /\ Len(sent) \in Nat /\ Len(responses) \in Nat
         /\ pairs \in BOOLEAN /\ step \in Nat
         /\ \A i \in 1..Len(responses) : responses[i] \in 1..Len(sent)
<1>1. TypeOK
  BY DEF ControllerInv, OwnAnswer
<1>2. Len(sent) \in Nat /\ Len(responses) \in Nat
  BY <1>1 DEF TypeOK
<1>3. Len(Script) \in Nat /\ pairs \in BOOLEAN
  BY <1>1, ScriptFacts DEF TypeOK
<1>4. step \in Nat
  BY <1>1, <1>3 DEF TypeOK
<1>5. /\ \A i \in 1..Len(responses) : responses[i] \in 1..Len(sent)
      /\ \A r \in 1..Len(sent) : sent[r].leds \in Nat
  <2>1. responses \in Seq(1..Len(sent))
    BY <1>1 DEF TypeOK
  <2>2. QED BY <1>1, <2>1, ElementOfSeq, SentLeds
<1>6. QED BY <1>1, <1>2, <1>3, <1>4, <1>5 DEF ControllerInv, OwnAnswer

LEMMA BeginStep ==
  ASSUME ControllerInv, Begin
  PROVE  ControllerInv'
<1> DEFINE new == [kind |-> Kind, leds |-> leds]
<1>1. /\ phase # "ended" /\ Ready /\ sent' = Append(sent, new)
      /\ ledsSeen' = (ledsSeen \/ phase = "run")
      /\ responses' = <<>> /\ command' = "write"
      /\ UNCHANGED <<phase, pairs, step, identity, unanswered, accepted, ledsShown, leds,
                     rumble, rumbling>>
  BY DEF Begin, setup
<1> HIDE DEF new
<1>2. TypeOK /\ Asked /\ LedsSent /\ Paced
  BY <1>1, Before
<1>3. Script' = Script
  BY <1>1, ScriptFixed
<1>4. Len(sent) \in Nat
  BY <1>1, Before
<1>5. new \in [kind : {Script[i] : i \in 1..Len(Script)}, leds : Nat]
  <2>1. phase = "setup" => step <= Len(Script)
    BY <1>1, <1>2 DEF Ready, Asked
  <2>2. Kind \in {Script[i] : i \in 1..Len(Script)}
    BY <1>1, <1>2, <2>1, KindType
  <2>3. QED BY <2>2, <1>2 DEF TypeOK, new
<1>6. /\ sent' \in Seq([kind : {Script[i] : i \in 1..Len(Script)}, leds : Nat])
      /\ Len(sent') = Len(sent) + 1 /\ sent'[Len(sent) + 1] = new
      /\ \A r \in 1..Len(sent) : sent'[r] = sent[r]
  <2>1. sent \in Seq(Commands) /\ new \in Commands
    BY <1>2, <1>5 DEF TypeOK, Commands
  <2>2. QED BY <1>1, <2>1, AppendProperties DEF Commands
<1>7. TypeOK'
  <2>1. /\ responses' \in Seq(1..Len(sent')) /\ Len(responses') <= Capacity
        /\ unanswered' \subseteq 1..Len(sent')
        /\ accepted' \subseteq (1..Len(sent')) \X (1..Len(sent'))
    <3>1. unanswered \subseteq 1..Len(sent)
          /\ accepted \subseteq (1..Len(sent)) \X (1..Len(sent))
      BY <1>2 DEF TypeOK
    <3>2. 1..Len(sent) \subseteq 1..Len(sent')
      BY <1>4, <1>6
    <3>3. QED BY <1>1, <3>1, <3>2, EmptySeq, ControllerAssumption
  <2>2. /\ phase' \in {"setup", "run", "ended"} /\ pairs' \in BOOLEAN
        /\ step' \in 1..Len(Script') + 1
        /\ identity' \in {"pending", "fallback", "real"}
        /\ leds' \in Nat /\ ledsSeen' \in BOOLEAN /\ ledsShown' \in 0..leds'
    BY <1>1, <1>2, <1>3 DEF TypeOK
  <2>3. /\ rumble' \in Nat /\ rumbleSeen' \in BOOLEAN
        /\ rumbleTask' \in {"ready", "sleep", "write", "changed"}
        /\ value' \in 0..rumble' /\ air' \in Seq(Nat) /\ felt' \in Nat
        /\ untilNext' \in 0..Pace /\ sinceWrite' \in 0..Pace
    BY <1>1, <1>2 DEF TypeOK, rumbling
  <2>4. sent' \in Seq([kind : {Script'[i] : i \in 1..Len(Script')}, leds : Nat])
    BY <1>3, <1>6
  <2>5. command' \in {"idle", "write", "wait", "changed"}
    BY <1>1
  <2>6. QED BY <2>1, <2>2, <2>3, <2>4, <2>5 DEF TypeOK
<1>8. LedsSent'
  <2>1. leds' = leds /\ leds \in Nat /\ new.leds = leds
    BY <1>1, <1>2 DEF TypeOK, new
  <2>2. \A r \in 1..Len(sent') :
          IF r = Len(sent) + 1 THEN sent'[r] = new
          ELSE r \in 1..Len(sent) /\ sent'[r] = sent[r]
    BY <1>4, <1>6
  <2>3. \A r \in 1..Len(sent) : sent[r].leds <= leds
    BY <1>2 DEF LedsSent
  <2>4. \A r \in 1..Len(sent') : sent'[r].leds <= leds
    BY <2>1, <2>2, <2>3
  <2>5. QED BY <2>1, <2>4 DEF LedsSent
<1>9. Once' /\ Paced'
  BY <1>1, <1>2 DEF Once, Paced, rumbling
<1>10. Asked'
  <2>1. ~Busy
    BY <1>1 DEF Ready, Busy
  <2>2. Past' = Past /\ Past = 1..Len(sent)
    BY <1>1, <1>4, <1>6, <2>1 DEF Past, Busy
  <2>3. Kind' = Kind
    BY <1>1, <1>3 DEF Kind
  <2>4. sent' # <<>> /\ sent'[Len(sent')].kind = Kind'
    BY <1>4, <1>6, <2>3 DEF new
  <2>5. phase = "setup" => step <= Len(Script)
    BY <1>1, <1>2 DEF Ready, Asked
  <2>6. ASSUME NEW r, Late(r)' PROVE r \in unanswered /\ Late(r) /\ r \in 1..Len(sent)
    <3>1. r \in unanswered
      BY <1>1, <2>6 DEF Late
    <3>2. QED BY <1>2, <3>1 DEF Late, TypeOK
  <2>7. ~Late(Len(sent))'
    <3>1. Len(sent') \notin unanswered' /\ Len(responses') = 0
      BY <1>1, <1>2, <1>4, <1>6 DEF TypeOK
    <3>2. QED BY <3>1 DEF Late
  <2>8. \A r \in Past' : Late(r)' => sent'[r].kind \in Reads
    BY <1>2, <1>6, <2>2, <2>6 DEF Asked
  <2>9. phase' = "setup" =>
          \A r \in Past' : sent'[r].kind \in Reads =>
            \E j \in 2..5 : j < step' /\ Script'[j] = sent'[r].kind
    <3>1. phase = "setup" =>
            \A r \in Past : sent[r].kind \in Reads =>
              \E j \in 2..5 : j < step /\ Script[j] = sent[r].kind
      BY <1>2 DEF Asked
    <3>2. \A r \in Past : sent'[r] = sent[r]
      BY <1>6, <2>2
    <3>3. UNCHANGED <<phase, step>>
      BY <1>1
    <3>4. QED BY <1>3, <2>2, <3>1, <3>2, <3>3
  <2>10. QED BY <1>1, <1>3, <2>4, <2>5, <2>7, <2>8, <2>9 DEF Asked, Busy
<1>11. \A pair \in accepted' : pair[1] = pair[2]
  BY <1>1, Before
<1>12. QED BY <1>7, <1>8, <1>9, <1>10, <1>11 DEF ControllerInv, OwnAnswer

LEMMA WriteStep ==
  ASSUME ControllerInv, Write
  PROVE  ControllerInv'
<1>1. /\ phase # "ended" /\ command = "write" /\ command' = "wait"
      /\ unanswered' = unanswered \cup {Len(sent)}
      /\ UNCHANGED <<phase, pairs, step, identity, sent, responses, accepted, ledsShown,
                     ledsSeen, leds, rumble, rumbling>>
  BY DEF Write, setup
<1>2. TypeOK /\ Asked /\ LedsSent /\ Paced /\ Once
  BY <1>1, Before
<1>3. Script' = Script
  BY <1>1, ScriptFixed
<1>4. Len(sent) \in 1..Len(sent)
  BY <1>1, <1>2, Before, EmptySeq DEF Asked, Busy, TypeOK
<1>5. TypeOK'
  <2>1. unanswered' \subseteq 1..Len(sent')
    BY <1>1, <1>2, <1>4 DEF TypeOK
  <2>2. QED BY <1>1, <1>2, <1>3, <2>1 DEF TypeOK, rumbling
<1>6. LedsSent' /\ Paced'
  BY <1>1, <1>2 DEF LedsSent, Paced, rumbling
<1>7. Once'
  BY <1>1, <1>2 DEF Once, Asked, Late
<1>8. Asked'
  <2>1. Past' = Past /\ Past = 1..Len(sent) - 1 /\ Kind' = Kind
    BY <1>1, <1>3 DEF Past, Busy, Kind
  <2>2. \A r \in Past : Late(r)' => Late(r)
    BY <1>1, <1>4, <2>1 DEF Late
  <2>3. QED BY <1>1, <1>2, <1>3, <2>1, <2>2 DEF Asked, Busy
<1>9. QED BY <1>1, Before, <1>5, <1>6, <1>7, <1>8 DEF ControllerInv, OwnAnswer

-----------------------------------------------------------------------------
(* The end of a command. *)

\* A response was taken from the front of the channel, or none was there.
LEMMA Taken ==
  ASSUME ControllerInv, phase # "ended", sent' = sent, unanswered' = unanswered,
         responses' = responses \/ (responses # <<>> /\ responses' = Tail(responses))
  PROVE  /\ Once'
         /\ responses' \in Seq(1..Len(sent')) /\ Len(responses') <= Capacity
         /\ \A r : Late(r)' => Late(r)
         /\ responses # <<>> /\ responses' = Tail(responses)
              => \A r : r = responses[1] => ~Late(r)'
<1>1. /\ responses \in Seq(1..Len(sent)) /\ Len(responses) <= Capacity
      /\ Once /\ Capacity \in Nat
  BY Before, ControllerAssumption DEF TypeOK
<1>2. CASE responses' = responses
  <2>1. ~(responses # <<>> /\ responses' = Tail(responses))
    BY <1>1, <1>2, HeadTailProperties
  <2>2. QED BY <1>1, <1>2, <2>1 DEF Once, Late
<1>3. CASE responses # <<>> /\ responses' = Tail(responses)
  <2>1. /\ responses' \in Seq(1..Len(sent)) /\ Len(responses) \in Nat
        /\ Len(responses) > 0 /\ Len(responses') = Len(responses) - 1
        /\ \A i \in 1..Len(responses') : responses'[i] = responses[i + 1]
    BY <1>1, <1>3, HeadTailProperties, EmptySeq
  <2>2. \A i \in 1..Len(responses') :
          i + 1 \in 1..Len(responses) /\ responses'[i] = responses[i + 1]
    BY <2>1
  <2>3. /\ \A i, j \in 1..Len(responses) : responses[i] = responses[j] => i = j
        /\ \A i \in 1..Len(responses) : responses[i] \notin unanswered
    BY <1>1 DEF Once
  <2>4. Once'
    <3>1. ASSUME NEW i \in 1..Len(responses'), NEW j \in 1..Len(responses'),
                 responses'[i] = responses'[j]
          PROVE  i = j
      <4>1. i + 1 \in 1..Len(responses) /\ j + 1 \in 1..Len(responses)
            /\ responses[i + 1] = responses[j + 1]
        BY <2>1, <2>2, <3>1
      <4>2. i + 1 = j + 1
        BY <2>3, <4>1
      <4>3. QED BY <4>2, <2>1
    <3>2. \A i \in 1..Len(responses') : responses'[i] \notin unanswered'
      BY <2>2, <2>3
    <3>3. QED BY <3>1, <3>2 DEF Once
  <2>5. ASSUME NEW r, Late(r)' PROVE Late(r)
    BY <2>1, <2>5 DEF Late
  <2>6. ASSUME NEW r, r = responses[1] PROVE ~Late(r)'
    <3>1. r \notin unanswered'
      BY <2>1, <2>3, <2>6
    <3>2. ASSUME NEW i \in 1..Len(responses'), responses'[i] = r PROVE FALSE
      <4>1. i + 1 \in 1..Len(responses) /\ 1 \in 1..Len(responses) /\ i + 1 # 1
            /\ responses[i + 1] = responses[1]
        BY <2>1, <2>2, <2>6, <3>2
      <4>2. QED BY <2>3, <4>1
    <3>3. QED BY <3>1, <3>2 DEF Late
  <2>7. QED BY <1>1, <2>1, <2>4, <2>5, <2>6
<1>4. QED BY <1>2, <1>3

\* A response that Answers accepts is the current command's own.
LEMMA OwnResponse ==
  ASSUME ControllerInv, phase # "ended", command = "wait", responses # <<>>,
         Answers(responses[1])
  PROVE  responses[1] = Len(sent)
<1>1. TypeOK /\ Asked /\ Len(responses) \in Nat /\ Len(sent) \in Nat
      /\ pairs \in BOOLEAN /\ step \in Nat
  BY Before
<1>2. Len(responses) > 0
  BY <1>1, EmptySeq DEF TypeOK
<1>3. responses[1] \in 1..Len(sent) /\ Late(responses[1])
  BY <1>1, <1>2, Before DEF Late
<1> SUFFICES ASSUME responses[1] # Len(sent) PROVE FALSE
  OBVIOUS
<1> DEFINE r == responses[1]
<1>4. r \in Past /\ Busy
  BY <1>1, <1>3 DEF Past, Busy
<1>5. sent[r].kind \in Reads
  BY <1>1, <1>3, <1>4 DEF Asked
<1>6. Header(Kind) = "read"
  BY <1>5 DEF Answers, Header
<1>7. Kind \in Reads
  <2>1. Kind \in {Script[i] : i \in 1..Len(Script)}
    BY <1>1, <1>4, KindType DEF Asked
  <2>2. Kind # "read"
    BY <1>1, <2>1, ScriptFacts
  <2>3. QED BY <1>6, <2>2 DEF Header
<1>8. phase = "setup" /\ sent[r].kind = Kind
  BY <1>1, <1>7 DEF Answers, Kind, Reads, TypeOK
<1>9. step \in 2..5 /\ Kind = Script[step]
  <2>1. step \in 1..Len(Script)
    BY <1>1, <1>4, <1>8 DEF Asked, TypeOK
  <2>2. QED BY <1>1, <1>7, <1>8, <2>1, ScriptFacts DEF Kind
<1>10. PICK j \in 2..5 : j < step /\ Script[j] = sent[r].kind
  <2>1. \A n \in Past : sent[n].kind \in Reads =>
          \E j \in 2..5 : j < step /\ Script[j] = sent[n].kind
    BY <1>1, <1>8 DEF Asked
  <2>2. QED BY <1>4, <1>5, <2>1
<1>11. QED BY <1>1, <1>8, <1>9, <1>10, ScriptFacts, SMTT(20)

\* A command is over, and its response cannot be met any more or it was a read.
LEMMA Over ==
  ASSUME ControllerInv, phase # "ended", Busy,
         sent' = sent, phase' = phase, pairs' = pairs,
         \A r : Late(r)' => Late(r),
         command' = IF phase = "setup" THEN "idle" ELSE "changed",
         phase = "setup" => step' > step /\ step' \in Nat,
         Kind \in Reads \/ \A r : r = Len(sent) => ~Late(r)'
  PROVE  Asked'
<1>1. TypeOK /\ Asked /\ Len(sent) \in Nat /\ pairs \in BOOLEAN /\ step \in Nat
  BY Before
<1>2. Script' = Script
  BY ScriptFixed
<1>3. Past = 1..Len(sent) - 1 /\ Past' = 1..Len(sent) /\ ~Busy'
  BY DEF Past, Busy
<1>4. sent[Len(sent)].kind = Kind
  BY <1>1 DEF Asked
<1>5. ASSUME NEW r \in Past', Late(r)' PROVE sent'[r].kind \in Reads
  <2>1. CASE r = Len(sent)
    BY <1>4, <1>5, <2>1
  <2>2. CASE r # Len(sent)
    BY <1>1, <1>3, <1>5, <2>2 DEF Asked
  <2>3. QED BY <2>1, <2>2
<1>6. ASSUME NEW r \in Past', phase = "setup", sent[r].kind \in Reads
      PROVE  \E j \in 2..5 : j < step' /\ Script[j] = sent[r].kind
  <2>1. CASE r = Len(sent)
    <3>1. step \in 1..Len(Script) /\ Kind = Script[step]
      BY <1>1, <1>6 DEF Asked, Kind, TypeOK
    <3>2. step \in 2..5
      BY <1>1, <1>4, <1>6, <2>1, <3>1, ScriptFacts
    <3>3. QED BY <1>4, <1>6, <2>1, <3>1, <3>2
  <2>2. CASE r # Len(sent)
    <3>1. r \in Past
      BY <1>1, <1>3, <2>2
    <3>2. PICK j \in 2..5 : j < step /\ Script[j] = sent[r].kind
      BY <1>1, <1>6, <3>1 DEF Asked
    <3>3. QED BY <1>1, <1>6, <3>2
  <2>3. QED BY <2>1, <2>2
<1>7. QED BY <1>2, <1>3, <1>5, <1>6 DEF Asked, Busy

LEMMA SucceedStep ==
  ASSUME ControllerInv, Succeed
  PROVE  ControllerInv'
<1>1. /\ phase # "ended" /\ command = "wait" /\ responses # <<>> /\ Answers(responses[1])
      /\ responses' = Tail(responses)
      /\ accepted' = accepted \cup {<<Len(sent), responses[1]>>}
      /\ identity' = IF Kind = "identity" THEN "real" ELSE identity
      /\ step' = IF phase = "setup" THEN step + 1 ELSE step
      /\ command' = IF phase = "setup" THEN "idle" ELSE "changed"
      /\ UNCHANGED <<phase, pairs, sent, unanswered, ledsShown, ledsSeen, leds, rumble,
                     rumbling>>
  BY DEF Succeed
<1>2. TypeOK /\ Asked /\ LedsSent /\ Paced /\ Len(sent) \in Nat /\ step \in Nat
      /\ pairs \in BOOLEAN
  BY <1>1, Before
<1>3. Script' = Script
  BY <1>1, ScriptFixed
<1>4. Busy
  BY <1>1 DEF Busy
<1>5. responses[1] = Len(sent)
  BY <1>1, OwnResponse
<1>6. /\ Once' /\ responses' \in Seq(1..Len(sent')) /\ Len(responses') <= Capacity
      /\ \A r : Late(r)' => Late(r)
      /\ \A r : r = responses[1] => ~Late(r)'
  BY <1>1, Taken
<1>7. Asked'
  BY <1>1, <1>2, <1>4, <1>5, <1>6, Over
<1>8. \A pair \in accepted' : pair[1] = pair[2]
  BY <1>1, <1>5, Before
<1>9. TypeOK'
  <2>1. step' \in 1..Len(Script) + 1
    <3>1. Len(Script) \in Nat /\ step \in 1..Len(Script) + 1
      BY <1>2, ScriptFacts DEF TypeOK
    <3>2. phase = "setup" => step <= Len(Script)
      BY <1>2, <1>4 DEF Asked
    <3>3. QED BY <1>1, <3>1, <3>2
  <2>2. Len(sent) \in 1..Len(sent)
    BY <1>2, <1>4, EmptySeq DEF Asked, TypeOK
  <2>3. accepted' \subseteq (1..Len(sent')) \X (1..Len(sent'))
    <3>1. accepted \subseteq (1..Len(sent)) \X (1..Len(sent))
      BY <1>2 DEF TypeOK
    <3>2. QED BY <1>1, <1>5, <2>2, <3>1
  <2>4. QED BY <1>1, <1>2, <1>3, <1>6, <2>1, <2>3 DEF TypeOK, rumbling
<1>10. LedsSent' /\ Paced'
  BY <1>1, <1>2 DEF LedsSent, Paced, rumbling
<1>11. QED BY <1>6, <1>7, <1>8, <1>9, <1>10 DEF ControllerInv, OwnAnswer

\* A command fails, by a response of which it is not the answer or by time.
LEMMA FailStep ==
  ASSUME ControllerInv, Reject \/ TimeOut
  PROVE  ControllerInv'
<1>1. /\ phase # "ended" /\ Busy /\ Fails
      /\ responses' = responses \/ (responses # <<>> /\ responses' = Tail(responses))
      /\ UNCHANGED <<pairs, sent, unanswered, accepted, ledsShown, ledsSeen, leds,
                     rumble, rumbling>>
  BY DEF Reject, TimeOut, Busy
<1>2. TypeOK /\ Asked /\ LedsSent /\ Paced /\ Len(sent) \in Nat /\ step \in Nat
      /\ pairs \in BOOLEAN
  BY <1>1, Before
<1>3. Script' = Script
  BY <1>1, ScriptFixed
<1>4. /\ Once' /\ responses' \in Seq(1..Len(sent')) /\ Len(responses') <= Capacity
      /\ \A r : Late(r)' => Late(r)
  BY <1>1, Taken
<1>5. CASE Kind \notin Reads
  <2>1. phase' = "ended" /\ UNCHANGED <<identity, step, command>>
    BY <1>1, <1>5 DEF Fails, Reads
  <2>2. TypeOK'
    BY <1>1, <1>2, <1>3, <1>4, <2>1 DEF TypeOK, rumbling
  <2>3. LedsSent' /\ Paced'
    BY <1>1, <1>2 DEF LedsSent, Paced, rumbling
  <2>4. QED BY <1>1, <1>4, <2>1, <2>2, <2>3, Before DEF ControllerInv, OwnAnswer
<1>6. CASE Kind \in Reads
  <2>1. phase = "setup" /\ Kind = Script[step] /\ step \in 1..Len(Script)
    BY <1>1, <1>2, <1>6 DEF Kind, Reads, Asked, TypeOK
  <2>2. /\ phase' = phase /\ command' = "idle" /\ step' \in {5, 6} /\ step' > step
        /\ identity' \in {identity, "fallback"}
    <3>1. CASE Kind \in {"primary", "secondary", "user"}
      <4>1. step \in 2..4
        BY <1>2, <2>1, <3>1, ScriptFacts
      <4>2. QED BY <1>1, <3>1, <4>1 DEF Fails, IdentityStep, Reads
    <3>2. CASE Kind = "identity"
      <4>1. step = 5
        BY <1>2, <2>1, <3>2, ScriptFacts
      <4>2. QED BY <1>1, <3>2, <4>1 DEF Fails, Reads
    <3>3. QED BY <1>6, <3>1, <3>2 DEF Reads
  <2>3. Asked'
    BY <1>1, <1>4, <1>6, <2>1, <2>2, Over
  <2>4. TypeOK'
    <3>1. step' \in 1..Len(Script) + 1
      BY <1>2, <2>2, ScriptFacts
    <3>2. QED BY <1>1, <1>2, <1>3, <1>4, <2>2, <3>1 DEF TypeOK, rumbling
  <2>5. LedsSent' /\ Paced'
    BY <1>1, <1>2 DEF LedsSent, Paced, rumbling
  <2>6. QED BY <1>1, <1>4, <2>3, <2>4, <2>5, Before DEF ControllerInv, OwnAnswer
<1>7. QED BY <1>5, <1>6

-----------------------------------------------------------------------------
(* The other steps. *)

LEMMA AnswerStep ==
  ASSUME ControllerInv, NEW n \in 1..Len(sent), Answer(n)
  PROVE  ControllerInv'
<1>1. /\ phase # "ended" /\ n \in unanswered /\ unanswered' = unanswered \ {n}
      /\ responses' = IF Len(responses) < Capacity THEN Append(responses, n)
                      ELSE responses
      /\ ledsShown' = IF sent[n].kind = "leds" THEN sent[n].leds ELSE ledsShown
      /\ UNCHANGED <<phase, pairs, step, identity, command, sent, accepted, ledsSeen,
                     leds, rumble, rumbling>>
  BY DEF Answer, setup
<1>2. /\ TypeOK /\ Asked /\ LedsSent /\ Paced /\ Once /\ Capacity \in Nat
      /\ responses \in Seq(1..Len(sent)) /\ Len(responses) \in Nat
  BY <1>1, Before, ControllerAssumption DEF TypeOK
<1>3. Script' = Script
  BY <1>1, ScriptFixed
<1>4. /\ responses' \in Seq(1..Len(sent')) /\ Len(responses') <= Capacity
      /\ Once' /\ \A r : Late(r)' => Late(r)
  <2>1. CASE Len(responses) < Capacity
    <3>1. /\ responses' \in Seq(1..Len(sent)) /\ Len(responses') = Len(responses) + 1
          /\ responses'[Len(responses) + 1] = n
          /\ \A i \in 1..Len(responses) : responses'[i] = responses[i]
      BY <1>1, <1>2, <2>1, AppendProperties
    <3>2. \A i \in 1..Len(responses) : responses[i] # n
      BY <1>1, <1>2 DEF Once
    <3>3. Once'
      <4>1. \A i \in 1..Len(responses') :
              IF i = Len(responses) + 1 THEN responses'[i] = n
              ELSE i \in 1..Len(responses) /\ responses'[i] = responses[i]
        BY <1>2, <3>1
      <4>2. \A i, j \in 1..Len(responses') : responses'[i] = responses'[j] => i = j
        BY <1>2, <3>2, <4>1 DEF Once
      <4>3. \A i \in 1..Len(responses') : responses'[i] \notin unanswered'
        BY <1>1, <1>2, <4>1 DEF Once
      <4>4. QED BY <4>2, <4>3 DEF Once
    <3>4. ASSUME NEW r, Late(r)' PROVE Late(r)
      BY <1>1, <1>2, <3>1, <3>4 DEF Late
    <3>5. QED BY <1>1, <1>2, <2>1, <3>1, <3>3, <3>4
  <2>2. CASE ~(Len(responses) < Capacity)
    BY <1>1, <1>2, <2>2 DEF Once, Late, TypeOK
  <2>3. QED BY <2>1, <2>2
<1>5. Asked'
  <2>1. Busy' = Busy /\ Past' = Past /\ Kind' = Kind
    BY <1>1, <1>3 DEF Busy, Past, Kind
  <2>2. command' = "write" => ~Late(Len(sent))'
    BY <1>1, <1>2, <1>4 DEF Asked
  <2>3. QED BY <1>1, <1>2, <1>3, <1>4, <2>1, <2>2 DEF Asked
<1>6. TypeOK'
  <2>1. sent[n].leds \in Nat /\ sent[n].leds <= leds /\ leds \in Nat
    BY <1>1, <1>2, Before DEF LedsSent, TypeOK
  <2>2. ledsShown' \in 0..leds'
    <3>1. ledsShown \in 0..leds
      BY <1>2 DEF TypeOK
    <3>2. sent[n].leds \in 0..leds
      BY <2>1
    <3>3. QED BY <1>1, <3>1, <3>2
  <2>3. QED BY <1>1, <1>2, <1>3, <1>4, <2>2 DEF TypeOK, rumbling
<1>7. LedsSent' /\ Paced'
  BY <1>1, <1>2 DEF LedsSent, Paced, rumbling
<1>8. QED BY <1>1, <1>4, <1>5, <1>6, <1>7, Before DEF ControllerInv, OwnAnswer

LEMMA StartRunStep ==
  ASSUME ControllerInv, StartRun
  PROVE  ControllerInv'
<1>1. /\ phase = "setup" /\ step > Len(Script) /\ phase' = "run"
      /\ ledsSeen' = TRUE /\ rumbleSeen' = TRUE
      /\ UNCHANGED <<pairs, step, identity, command, sent, responses, unanswered, accepted,
                     ledsShown, leds, rumble, rumbleTask, value, untilNext,
                     sinceWrite, air, felt>>
  BY DEF StartRun, setup
<1>2. TypeOK /\ Asked /\ LedsSent /\ Paced /\ Once /\ pairs \in BOOLEAN /\ step \in Nat
  BY <1>1, Before
<1>3. Script' = Script
  BY <1>1, ScriptFixed
<1>4. ~Busy
  BY <1>1, <1>2, ScriptFacts DEF Asked
<1>5. Asked'
  BY <1>1, <1>2, <1>4 DEF Asked, Busy, Past, Late
<1>6. TypeOK'
  BY <1>1, <1>2, <1>3 DEF TypeOK
<1>7. LedsSent' /\ Paced' /\ Once'
  BY <1>1, <1>2 DEF LedsSent, Paced, Once
<1>8. QED BY <1>1, <1>5, <1>6, <1>7, Before DEF ControllerInv, OwnAnswer

\* What taking the value of the channel does, and when.
LEMMA TakeEffect ==
  ASSUME TypeOK, Paced, ReadRumble \/ Wake
  PROVE  /\ value' = rumble /\ rumbleSeen' = TRUE /\ UNCHANGED <<rumble, untilNext, felt>>
         /\ rumbleTask \in {"ready", "changed", "sleep"}
         /\ \/ /\ rumbleTask' \in {"sleep", "changed"}
               /\ UNCHANGED <<sinceWrite, air>>
            \/ /\ rumbleTask' = "write" /\ untilNext = 0 /\ sinceWrite = Pace
               /\ sinceWrite' = 0 /\ air' = Append(air, rumble)
<1>1. /\ rumbleTask \in {"ready", "changed", "sleep"} /\ UNCHANGED <<rumble, untilNext, felt>>
      /\ \/ untilNext = 0 /\ Take
         \/ /\ rumbleTask' = "sleep" /\ value' = rumble /\ rumbleSeen' = TRUE
            /\ UNCHANGED <<sinceWrite, air>>
  BY DEF ReadRumble, Wake
<1>2. untilNext = 0 => sinceWrite = Pace
  <2>1. untilNext + sinceWrite = Pace /\ sinceWrite \in Nat /\ Pace \in Nat
    BY <1>1, ControllerAssumption DEF Paced, TypeOK
  <2>2. QED BY <2>1
<1>3. QED BY <1>1, <1>2 DEF Take

LEMMA RumbleStep ==
  ASSUME ControllerInv, Vibrate \/ Arrive \/ Tick \/ HostRumble
  PROVE  ControllerInv'
<1>1. phase # "ended" /\ UNCHANGED <<phase, setup, commands, leds>>
  BY DEF Vibrate, ReadRumble, Wake, RumbleWritten, Arrive, Tick, HostRumble
<1>2. TypeOK /\ Paced
  BY <1>1, Before
<1>3. /\ leds \in Nat /\ rumble \in Nat /\ value \in 0..rumble
      /\ air \in Seq(Nat) /\ felt \in Nat
      /\ rumbleSeen \in BOOLEAN /\ rumbleTask \in {"ready", "sleep", "write", "changed"}
      /\ untilNext \in 0..Pace /\ sinceWrite \in 0..Pace /\ Pace \in Nat
  BY <1>2, ControllerAssumption DEF TypeOK
<1>4. Script' = Script
  BY <1>1, ScriptFixed DEF setup
<1>5. /\ rumble' \in Nat /\ value' \in 0..rumble' /\ air' \in Seq(Nat) /\ felt' \in Nat
      /\ rumbleSeen' \in BOOLEAN /\ rumbleTask' \in {"ready", "sleep", "write", "changed"}
      /\ untilNext' \in 0..Pace /\ sinceWrite' \in 0..Pace /\ Paced'
  <2>1. CASE ReadRumble \/ Wake
    <3>1. /\ value' = rumble /\ rumbleSeen' = TRUE /\ UNCHANGED <<rumble, untilNext, felt>>
          /\ rumbleTask \in {"ready", "changed", "sleep"}
          /\ \/ /\ rumbleTask' \in {"sleep", "changed"}
                /\ UNCHANGED <<sinceWrite, air>>
             \/ /\ rumbleTask' = "write" /\ untilNext = 0 /\ sinceWrite = Pace
                /\ sinceWrite' = 0 /\ air' = Append(air, rumble)
      BY <1>2, <2>1, TakeEffect
    <3>2. Append(air, rumble) \in Seq(Nat)
      BY <1>3, AppendProperties
    <3>3. Paced'
      BY <1>2, <1>3, <3>1 DEF Paced
    <3>4. value' \in 0..rumble' /\ rumble' \in Nat /\ felt' \in Nat /\ untilNext' \in 0..Pace
      BY <1>3, <3>1
    <3>5. air' \in Seq(Nat) /\ sinceWrite' \in 0..Pace
      BY <1>3, <3>1, <3>2
    <3>6. rumbleTask' \in {"ready", "sleep", "write", "changed"} /\ rumbleSeen' \in BOOLEAN
      BY <3>1
    <3>7. QED BY <3>3, <3>4, <3>5, <3>6
  <2>2. CASE RumbleWritten
    BY <1>2, <1>3, <2>2 DEF RumbleWritten, Paced
  <2>3. CASE Tick
    BY <1>2, <1>3, <2>3 DEF Tick, Paced
  <2>4. CASE HostRumble
    <3>1. /\ rumble' = rumble + 1 /\ rumbleSeen' = FALSE
          /\ UNCHANGED <<rumbleTask, value, untilNext, sinceWrite, air, felt>>
      BY <2>4 DEF HostRumble
    <3>2. value' \in 0..rumble' /\ rumble' \in Nat
      BY <1>3, <3>1
    <3>3. QED BY <1>2, <1>3, <3>1, <3>2 DEF Paced
  <2>5. CASE Arrive
    <3>1. /\ air # <<>> /\ felt' = Head(air) /\ air' = Tail(air)
          /\ UNCHANGED <<rumble, rumbleSeen, rumbleTask, value, untilNext, sinceWrite>>
      BY <2>5 DEF Arrive
    <3>2. air' \in Seq(Nat) /\ felt' \in Nat
      BY <1>3, <3>1, HeadTailProperties
    <3>3. QED BY <1>2, <1>3, <3>1, <3>2 DEF Paced
  <2>6. QED BY <2>1, <2>2, <2>3, <2>4, <2>5 DEF Vibrate
<1>6. TypeOK'
  BY <1>1, <1>2, <1>4, <1>5 DEF TypeOK, setup, commands
<1>7. LedsSent' /\ Once' /\ Asked' /\ \A pair \in accepted' : pair[1] = pair[2]
  BY <1>1, <1>3, CommandsUnchanged
<1>8. QED BY <1>5, <1>6, <1>7 DEF ControllerInv, OwnAnswer

LEMMA ControllerStep ==
  ControllerInv /\ [Next]_vars => ControllerInv'
<1> SUFFICES ASSUME ControllerInv, [Next]_vars PROVE ControllerInv'
  OBVIOUS
<1>1. CASE Command
  BY <1>1, BeginStep, WriteStep, SucceedStep, FailStep DEF Command
<1>2. CASE StartRun
  BY <1>2, StartRunStep
<1>3. ASSUME NEW n \in 1..Len(sent), Answer(n) PROVE ControllerInv'
  BY <1>3, AnswerStep
<1>4. CASE Vibrate \/ Arrive \/ Tick \/ HostRumble
  BY <1>4, RumbleStep
<1>5. CASE HostLeds
  <2>1. /\ phase # "ended" /\ leds' = leds + 1 /\ ledsSeen' = FALSE
        /\ UNCHANGED <<phase, pairs, step, identity, command, sent, responses, unanswered,
                       accepted, ledsShown, rumble, rumbling>>
    BY <1>5 DEF HostLeds, setup
  <2>2. TypeOK /\ LedsSent /\ Paced /\ Once /\ Asked /\ Script' = Script
        /\ leds \in Nat /\ ledsShown \in 0..leds /\ Len(sent) \in Nat
    BY <2>1, Before, ScriptFixed DEF TypeOK
  <2>3. TypeOK'
    <3>1. leds' \in Nat /\ ledsShown' \in 0..leds'
      BY <2>1, <2>2
    <3>2. QED BY <2>1, <2>2, <3>1 DEF TypeOK, rumbling
  <2>4. LedsSent'
    <3>1. \A r \in 1..Len(sent) : sent[r].leds \in Nat /\ sent[r].leds <= leds
      BY <2>1, <2>2, Before DEF LedsSent
    <3>2. QED BY <2>1, <2>2, <3>1 DEF LedsSent
  <2>5. Paced' /\ Once'
    BY <2>1, <2>2 DEF Paced, Once, rumbling
  <2>6. Asked'
    BY <2>1, <2>2 DEF Asked, Busy, Past, Late, Kind
  <2>7. QED BY <2>1, <2>3, <2>4, <2>5, <2>6, Before DEF ControllerInv, OwnAnswer
<1>6. CASE End
  <2>1. phase' = "ended" /\ UNCHANGED <<setup, commands, leds, rumble, rumbling>>
    BY <1>6 DEF End
  <2>2. TypeOK /\ Paced /\ Script' = Script
    BY <1>6, <2>1, Before, ScriptFixed DEF End, setup
  <2>3. TypeOK' /\ Paced'
    BY <2>1, <2>2 DEF TypeOK, Paced, setup, commands, rumbling
  <2>4. LedsSent' /\ Once' /\ \A pair \in accepted' : pair[1] = pair[2]
    BY <2>1, <2>2, CommandsUnchanged DEF TypeOK
  <2>5. QED BY <2>1, <2>3, <2>4 DEF ControllerInv, OwnAnswer
<1>7. CASE UNCHANGED vars
  <2>1. Script' = Script
    BY <1>7, ScriptFixed DEF vars, setup
  <2>2. OwnAnswer' /\ LedsSent' /\ Paced' /\ Once'
    BY <1>7, <2>1 DEF ControllerInv, OwnAnswer, TypeOK, LedsSent, Paced, Once, vars, setup,
       commands, rumbling
  <2>3. phase' # "ended" => Asked'
    BY <1>7, <2>1 DEF ControllerInv, Asked, Busy, Past, Late, Kind, vars, setup, commands
  <2>4. QED BY <2>2, <2>3 DEF ControllerInv
<1>8. QED
  BY <1>1, <1>2, <1>3, <1>4, <1>5, <1>6, <1>7 DEF Next

LEMMA ControllerInvariant ==
  Spec => []ControllerInv
  BY ControllerInitially, ControllerStep, PTL DEF Spec

-----------------------------------------------------------------------------
\* A response is only ever taken as the answer of the command it answers,
\* whatever times out and however late the controller answers.
THEOREM AnswersAreOwn == Spec => []OwnAnswer
<1>1. ControllerInv => OwnAnswer
  BY DEF ControllerInv
<1>2. QED BY <1>1, ControllerInvariant, PTL

\* A vibration is handed to the link only when none is being written and a pace has
\* passed since the last was, and it is the newest output of the host.
THEOREM VibrationIsPaced == Spec => RumblePaced
<1>1. ControllerInv /\ [Next]_vars
        => [Len(air') > Len(air) => sinceWrite = Pace /\ air'[Len(air')] = rumble]_vars
  <2> SUFFICES ASSUME ControllerInv, Next, Len(air') > Len(air)
               PROVE  sinceWrite = Pace /\ air'[Len(air')] = rumble
    OBVIOUS
  <2>1. TypeOK /\ Paced /\ air \in Seq(Nat) /\ Len(air) \in Nat /\ rumble \in Nat
    BY LenProperties DEF ControllerInv, OwnAnswer, TypeOK
  <2>2. CASE ReadRumble \/ Wake
    <3>1. \/ air' = air
          \/ sinceWrite = Pace /\ air' = Append(air, rumble)
      BY <2>1, <2>2, TakeEffect
    <3>2. air' # air
      BY <2>1
    <3>3. QED BY <2>1, <3>1, <3>2, AppendProperties
  <2>3. CASE Arrive
    <3>1. Len(air') = Len(air) - 1
      BY <2>1, <2>3, HeadTailProperties DEF Arrive
    <3>2. QED BY <2>1, <3>1
  <2>4. CASE Command \/ StartRun \/ RumbleWritten \/ HostLeds \/ HostRumble \/ End \/ Tick
    BY <2>1, <2>4 DEF Command, Begin, Write, Succeed, Reject, TimeOut, StartRun,
       RumbleWritten, HostLeds, HostRumble, End, Tick, rumbling
  <2>5. ASSUME NEW n \in 1..Len(sent), Answer(n)
        PROVE  sinceWrite = Pace /\ air'[Len(air')] = rumble
    BY <2>1, <2>5 DEF Answer, rumbling
  <2>6. QED BY <2>2, <2>3, <2>4, <2>5 DEF Next, Vibrate
<1>2. QED BY <1>1, ControllerInvariant, PTL DEF Spec, RumblePaced
=============================================================================
