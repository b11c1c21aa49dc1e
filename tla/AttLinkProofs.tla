--------------------------- MODULE AttLinkProofs ----------------------------
(***************************************************************************)
(* Proofs about Discovery and AttLink, for every number of handles,        *)
(* concurrent calls and notifications, set of characteristics and size of  *)
(* responses.                                                              *)
(*                                                                         *)
(* Of the discovery: whatever the peer answers, the handles stay bounded by*)
(* their services, and the discovery moves on.  HandlesBounded is not      *)
(* inductive: it does not say that what was found lies before the handle   *)
(* that is asked for next.  Bookkeeping adds what each stage knows; for    *)
(* characteristics, the last one is enough.                                *)
(*                                                                         *)
(* Of the link: no call gets the reply of another, and open runs the       *)
(* discovery as it is specified, so that what is proved of the discovery   *)
(* holds of the link.  A reply carries no tag, so NoCrossedReply rests on  *)
(* where the packets are: while the link is open, a request or reply on its*)
(* way belongs to the call that holds the lock and waits, whose sender is  *)
(* pending.  A call that gives up earlier closes the link.                 *)
(***************************************************************************)
EXTENDS AttLink, Integers, SequenceTheorems, TLAPS

(* Sequences. *)

\* A function on 1..n is a sequence of length n.
LEMMA FunctionIsSeq ==
  ASSUME NEW S, NEW n \in Nat, NEW f \in [1..n -> S]
  PROVE  f \in Seq(S) /\ Len(f) = n
<1>1. f \in Seq(S)
  BY SeqDef
<1>2. DOMAIN f = 1..Len(f) /\ Len(f) \in Nat
  BY <1>1, LenProperties
<1>3. 1..n = 1..Len(f)
  BY <1>2
<1>4. QED BY <1>1, <1>2, <1>3

\* Removing another element keeps the first one.
LEMMA RemoveAtKeepsFirst ==
  ASSUME NEW S, NEW s \in Seq(S), NEW i \in 1..Len(s)
  PROVE  /\ RemoveAt(s, i) \in Seq(S)
         /\ i # 1 => RemoveAt(s, i)[1] = s[1] /\ RemoveAt(s, i) # <<>>
<1> DEFINE a == SubSeq(s, 1, i - 1)
           b == SubSeq(s, i + 1, Len(s))
<1>1. Len(s) \in Nat /\ \A j \in 1..Len(s) : s[j] \in S
  BY ElementOfSeq, LenProperties
<1>2. a \in Seq(S) /\ Len(a) = i - 1 /\ \A j \in 1..(i - 1) : a[j] = s[j]
  <2>1. 1 \in Int /\ i - 1 \in Int /\ \A j \in 1..(i - 1) : s[j] \in S
    BY <1>1
  <2>2. QED BY <2>1, <1>1, SubSeqProperties
<1>3. b \in Seq(S)
  <2>1. i + 1 \in Int /\ Len(s) \in Int /\ \A j \in (i + 1)..Len(s) : s[j] \in S
    BY <1>1
  <2>2. QED BY <2>1, SubSeqProperties
<1> HIDE DEF a, b
<1>4. /\ a \o b \in Seq(S) /\ Len(a \o b) = Len(a) + Len(b) /\ Len(b) \in Nat
      /\ \A j \in 1..(Len(a) + Len(b)) : j <= Len(a) => (a \o b)[j] = a[j]
  BY <1>2, <1>3, ConcatProperties, LenProperties
<1>5. ASSUME i # 1 PROVE (a \o b)[1] = s[1] /\ a \o b # <<>>
  <2>1. 1 \in 1..(i - 1) /\ 1 \in 1..(Len(a) + Len(b)) /\ 1 <= Len(a)
    BY <1>1, <1>2, <1>4, <1>5
  <2>2. Len(a \o b) # 0
    BY <1>4, <2>1
  <2>3. QED BY <1>2, <1>4, <2>1, <2>2, EmptySeq
<1>6. RemoveAt(s, i) = a \o b
  BY DEF RemoveAt, a, b
<1>7. QED BY <1>4, <1>5, <1>6

-----------------------------------------------------------------------------
(* The discovery. *)

Stages == [at : {"mtu", "services", "characteristics", "descriptors", "done"},
           s : Nat, c : Nat, start : Handle]

\* Services are ranges of handles.
Ranges(srv) == \A s \in 1..Len(srv) : 0 < srv[s].start /\ srv[s].start <= srv[s].end

\* DeclarationsBounded, of any services and declarations.
Within(srv, decl) ==
  \A s \in 1..Len(decl) : \A c \in 1..Len(decl[s]) :
    LET d == decl[s][c]
    IN /\ 0 < d.handle /\ srv[s].start <= d.handle
       /\ d.handle < d.value /\ d.value <= srv[s].end
       /\ d.cccd # 0 => d.value < d.cccd /\ d.cccd <= srv[s].end
       /\ c < Len(decl[s]) => LET next == decl[s][c + 1].handle
                              IN d.handle < next /\ d.cccd < next

\* All services are known, and for each of them some declarations.
Structure(srv, decl) ==
  /\ srv \in Seq(Service) /\ decl \in Seq(Seq(Declaration))
  /\ Len(decl) = Len(srv)
  /\ Ranges(srv) /\ Within(srv, decl)

\* A stage after that of the services asks for a part of the right service.
Position(st, srv, decl) ==
  /\ st.at = "characteristics" =>
       /\ st.s \in 1..Len(srv)
       /\ srv[st.s].start <= st.start /\ st.start <= srv[st.s].end
  /\ st.at = "descriptors" =>
       /\ st.s \in 1..Len(srv) /\ st.c \in 1..Len(decl[st.s])
       /\ decl[st.s][st.c].value < st.start
       /\ st.start <= DescriptorEnd(srv, decl, st.s, st.c)

\* While characteristics are asked for: no CCCD is known, nothing of the services
\* to come, and the last characteristic of this one lies before the next request.
Fresh(st, decl) ==
  st.at = "characteristics" =>
    \A s \in 1..Len(decl) :
      /\ s > st.s => Len(decl[s]) = 0
      /\ \A c \in 1..Len(decl[s]) : /\ decl[s][c].cccd = 0
                                    /\ s = st.s /\ c = Len(decl[s]) =>
                                         decl[s][c].handle < st.start

Bookkeeping ==
  /\ stage.at \in {"mtu", "services"} => declarations = <<>>
  /\ stage.at = "services" => 0 < stage.start /\ stage.s = 0 /\ stage.c = 0
  /\ stage.at \notin {"mtu", "services"} => Structure(services, declarations)
  /\ Ranges(services) /\ Within(services, declarations)
  /\ Position(stage, services, declarations) /\ Fresh(stage, declarations)

DInv == DiscoveryTypeOK /\ Bookkeeping

-----------------------------------------------------------------------------
(* Handles and responses. *)

\* Handles are numbers.
LEMMA HandleIsNat ==
  /\ \A h \in Handle : h \in Nat /\ h <= MaxHandle
  /\ MaxHandle \in Nat /\ MaxHandle \in Handle
  BY DiscoveryAssumption DEF Handle

\* A response holds entries, one at least.
LEMMA ResponseIsSeq ==
  ASSUME NEW S, NEW e \in Responses(S)
  PROVE  /\ e \in Seq(S) /\ Len(e) \in Nat /\ 1 <= Len(e)
         /\ \A i \in 1..Len(e) : e[i] \in S
         /\ Last(e) \in S /\ Last(e) = e[Len(e)]
<1>1. PICK n \in 1..MaxEntries : e \in [1..n -> S]
  BY DEF Responses
<1>2. n \in Nat /\ 1 <= n
  BY DiscoveryAssumption
<1>3. e \in Seq(S) /\ Len(e) = n
  BY <1>1, <1>2, FunctionIsSeq
<1>4. QED BY <1>1, <1>2, <1>3 DEF Last

\* The handles between two declarations, and to the end of the service.
LEMMA DescriptorEndBounds ==
  ASSUME NEW srv, NEW decl, Structure(srv, decl),
         NEW s \in 1..Len(srv), NEW c \in 1..Len(decl[s])
  PROVE  /\ DescriptorEnd(srv, decl, s, c) \in Handle
         /\ DescriptorEnd(srv, decl, s, c) <= srv[s].end
         /\ c < Len(decl[s]) => DescriptorEnd(srv, decl, s, c) < decl[s][c + 1].handle
         /\ srv[s] \in Service /\ decl[s] \in Seq(Declaration)
         /\ decl[s][c] \in Declaration
<1>1. srv[s] \in Service /\ decl[s] \in Seq(Declaration) /\ s \in 1..Len(decl)
  BY ElementOfSeq DEF Structure
<1>2. decl[s][c] \in Declaration /\ Len(decl[s]) \in Nat
  BY <1>1, ElementOfSeq, LenProperties
<1>3. CASE c < Len(decl[s])
  <2> DEFINE d == decl[s][c + 1]
  <2>1. c + 1 \in 1..Len(decl[s])
    BY <1>2, <1>3
  <2>2. d \in Declaration
    BY <2>1, <1>1, ElementOfSeq
  <2>3. 0 < d.handle /\ d.handle < d.value /\ d.value <= srv[s].end
    BY <2>1, <1>1 DEF Structure, Within
  <2>4. d.handle \in Nat /\ srv[s].end \in Handle /\ d.value \in Nat /\ d.handle <= MaxHandle
    <3>1. d.handle \in Handle /\ d.value \in Handle
      BY <2>2 DEF Declaration
    <3>2. srv[s].end \in Handle
      BY <1>1 DEF Service
    <3> HIDE DEF d
    <3>3. QED BY <3>1, <3>2, HandleIsNat
  <2>5. DescriptorEnd(srv, decl, s, c) = d.handle - 1
    BY <1>3, <2>3, <2>4 DEF DescriptorEnd, Pred
  <2> HIDE DEF d
  <2>6. /\ d.handle - 1 \in Handle /\ d.handle - 1 <= srv[s].end /\ d.handle - 1 < d.handle
    <3>1. srv[s].end \in Nat /\ MaxHandle \in Nat
      BY <2>4, HandleIsNat
    <3>2. d.handle - 1 \in 0..MaxHandle
      BY <2>3, <2>4, <3>1
    <3>3. d.handle - 1 <= srv[s].end /\ d.handle - 1 < d.handle
      BY <2>3, <2>4, <3>1
    <3>4. QED BY <3>2, <3>3 DEF Handle
  <2>7. QED BY <1>1, <1>2, <2>5, <2>6 DEF d
<1>4. CASE ~(c < Len(decl[s]))
  BY <1>1, <1>2, <1>4, DiscoveryAssumption DEF DescriptorEnd, Service, Handle
<1>5. QED BY <1>3, <1>4

-----------------------------------------------------------------------------
(* The stages that come next. *)

\* Descriptors are asked for from behind the value of the next characteristic
\* that may have a CCCD, or the discovery is done.
LEMMA NextDescriptorGoesOn ==
  ASSUME NEW srv, NEW decl, Structure(srv, decl), NEW s \in Nat, NEW c \in Nat,
         NextDescriptor(srv, decl, s, c)
  PROVE  /\ stage' \in Stages /\ stage'.at \in {"descriptors", "done"}
         /\ Position(stage', srv, decl)
         /\ stage'.at = "descriptors" =>
              s < stage'.s \/ (s = stage'.s /\ c <= stage'.c)
<1>1. CASE stage' = Stage("done", 0, 0, 0)
  BY <1>1, DiscoveryAssumption DEF Stage, Stages, Position, Handle
<1>2. ASSUME NEW p \in Wanted(srv, decl), Precedes(<<s, c>>, p),
             stage' = Stage("descriptors", p[1], p[2], Succ(decl[p[1]][p[2]].value))
      PROVE  /\ stage' \in Stages /\ stage'.at \in {"descriptors", "done"}
             /\ Position(stage', srv, decl)
             /\ s < stage'.s \/ (s = stage'.s /\ c <= stage'.c)
  <2> DEFINE d == decl[p[1]][p[2]]
             end == DescriptorEnd(srv, decl, p[1], p[2])
  <2>1. PICK t \in 1..Len(srv) : p \in {t} \X (1..Len(decl[t]))
    BY DEF Wanted
  <2>2. p[1] \in 1..Len(srv) /\ p[2] \in 1..Len(decl[p[1]]) /\ d.value < end
    BY <1>2, <2>1 DEF Wanted
  <2>3. d \in Declaration /\ end \in Handle
    BY <2>2, DescriptorEndBounds
  <2>4. Len(srv) \in Nat /\ Len(decl[p[1]]) \in Nat /\ decl[p[1]] \in Seq(Declaration)
    BY <2>2, DescriptorEndBounds, LenProperties DEF Structure
  <2>5. d.value \in Nat /\ end \in Nat /\ end <= MaxHandle /\ MaxHandle \in Nat
    BY <2>3, DiscoveryAssumption DEF Declaration, Handle
  <2> HIDE DEF d, end
  <2>6. Succ(d.value) = d.value + 1 /\ d.value + 1 <= end /\ d.value + 1 \in Handle
    BY <2>2, <2>5, SMTT(20) DEF Succ, Handle
  <2>7. /\ stage'.at = "descriptors" /\ stage'.s = p[1] /\ stage'.c = p[2]
        /\ stage'.start = d.value + 1 /\ stage' \in Stages
    BY <1>2, <2>2, <2>4, <2>6 DEF Stage, Stages, d
  <2>8. Position(stage', srv, decl)
    BY <2>2, <2>5, <2>6, <2>7, SMTT(20) DEF Position, d, end
  <2>9. QED BY <1>2, <2>7, <2>8 DEF Precedes
<1>3. QED BY <1>1, <1>2 DEF NextDescriptor

\* The characteristics of the next service are asked for, from its first handle
\* on, or there are no more services.
LEMMA NextServiceGoesOn ==
  ASSUME NEW srv, NEW decl, Structure(srv, decl), NEW s \in Nat \ {0},
         NextService(srv, decl, s)
  PROVE  /\ stage' \in Stages
         /\ stage'.at \in {"characteristics", "descriptors", "done"}
         /\ Position(stage', srv, decl)
         /\ stage'.at = "characteristics" =>
              stage'.s = s /\ stage'.start = srv[s].start
<1>1. CASE s <= Len(srv) /\ stage' = Stage("characteristics", s, 0, srv[s].start)
  <2>1. s \in 1..Len(srv) /\ srv[s] \in Service
    BY <1>1, ElementOfSeq, LenProperties DEF Structure
  <2>2. /\ stage'.at = "characteristics" /\ stage'.s = s
        /\ stage'.start = srv[s].start /\ stage' \in Stages
    BY <1>1, <2>1 DEF Stage, Stages, Service
  <2>3. srv[s].start \in Nat /\ srv[s].start <= srv[s].end
    BY <2>1, DiscoveryAssumption DEF Structure, Ranges, Service, Handle
  <2>4. QED BY <2>1, <2>2, <2>3 DEF Position
<1>2. CASE NextDescriptor(srv, decl, 1, 1)
  BY <1>2, NextDescriptorGoesOn
<1>3. QED BY <1>1, <1>2 DEF NextService

\* With the services known, no declarations are, and the first stage follows.
LEMMA StartServicesGoesOn ==
  ASSUME NEW srv \in Seq(Service), Ranges(srv), StartServices(srv)
  PROVE  /\ services' = srv /\ Structure(services', declarations')
         /\ stage' \in Stages
         /\ stage'.at \in {"characteristics", "descriptors", "done"}
         /\ Position(stage', services', declarations')
         /\ Fresh(stage', declarations')
<1> DEFINE none == [s \in 1..Len(srv) |-> <<>>]
<1>1. services' = srv /\ declarations' = none /\ NextService(srv, none, 1)
  BY DEF StartServices
<1>2. Len(srv) \in Nat
  BY LenProperties
<1>3. <<>> \in Seq(Declaration) /\ Len(<<>>) = 0
  BY EmptySeq
<1>4. none \in [1..Len(srv) -> Seq(Declaration)]
  BY <1>3
<1>5. none \in Seq(Seq(Declaration)) /\ Len(none) = Len(srv)
  BY <1>2, <1>4, FunctionIsSeq
<1>6. \A s \in 1..Len(none) : Len(none[s]) = 0
  BY <1>3, <1>5
<1> HIDE DEF none
<1>7. Structure(srv, none)
  BY <1>5, <1>6 DEF Structure, Within
<1>8. /\ stage' \in Stages /\ Position(stage', srv, none)
      /\ stage'.at \in {"characteristics", "descriptors", "done"}
  BY <1>1, <1>7, NextServiceGoesOn
<1>9. Fresh(stage', none)
  BY <1>6 DEF Fresh
<1>10. QED BY <1>1, <1>7, <1>8, <1>9

-----------------------------------------------------------------------------
(* Every response preserves the invariant, and moves the discovery on. *)

LEMMA Initially ==
  DiscoveryInit => DInv
<1> SUFFICES ASSUME DiscoveryInit PROVE DInv
  OBVIOUS
<1>1. stage = Stage("mtu", 0, 0, 0) /\ services = <<>> /\ declarations = <<>>
  BY DEF DiscoveryInit
<1>2. /\ <<>> \in Seq(Service) /\ <<>> \in Seq(Seq(Declaration))
      /\ Len(services) = 0 /\ Len(declarations) = 0
  BY <1>1, EmptySeq
<1>3. DiscoveryTypeOK
  BY <1>1, <1>2, HandleIsNat DEF DiscoveryTypeOK, Stage, Handle
<1>4. stage.at = "mtu"
  BY <1>1 DEF Stage
<1>5. Ranges(services) /\ Within(services, declarations)
  BY <1>2 DEF Ranges, Within
<1>6. QED BY <1>1, <1>3, <1>4, <1>5 DEF DInv, Bookkeeping, Position, Fresh

\* The bookkeeping of the stages after the services.
LEMMA Structured ==
  ASSUME Structure(services', declarations'), stage' \in Stages,
         stage'.at \in {"characteristics", "descriptors", "done"},
         Position(stage', services', declarations'), Fresh(stage', declarations')
  PROVE  DInv'
  BY DEF DInv, DiscoveryTypeOK, Bookkeeping, Structure, Stages

LEMMA MtuGoesOn ==
  ASSUME DInv, OnMtu
  PROVE  DInv' /\ Later(stage, stage')
<1>1. /\ stage.at = "mtu" /\ stage' = Stage("services", 0, 0, 1)
      /\ services' = services /\ declarations' = declarations
  BY DEF OnMtu
<1>2. 1 \in Handle
  BY DiscoveryAssumption DEF Handle
<1>3. /\ stage' \in Stages /\ stage'.at = "services" /\ stage'.start = 1
      /\ stage'.s = 0 /\ stage'.c = 0
  BY <1>1, <1>2 DEF Stage, Stages
<1>4. Later(stage, stage')
  BY <1>1, <1>3 DEF Later, Rank
<1>5. declarations = <<>> /\ Ranges(services) /\ Within(services, declarations)
  BY <1>1 DEF DInv, Bookkeeping
<1>6. DiscoveryTypeOK' /\ Bookkeeping'
  BY <1>1, <1>3, <1>5
     DEF DInv, DiscoveryTypeOK, Bookkeeping, Position, Fresh, Stages
<1>7. QED BY <1>4, <1>6 DEF DInv

LEMMA ServicesGoOn ==
  ASSUME DInv, OnServices
  PROVE  DInv' /\ Later(stage, stage')
<1> DEFINE asked == {x \in Service : stage.start <= x.start /\ x.start <= x.end}
<1>1. PICK e \in Responses(asked) :
        \/ Last(e).end = MaxHandle /\ StartServices(services \o e)
        \/ /\ Last(e).end # MaxHandle
           /\ services' = services \o e
           /\ stage' = Stage("services", 0, 0, SaturatingSucc(Last(e).end))
           /\ UNCHANGED declarations
  BY DEF OnServices
<1>2. /\ stage.at = "services" /\ 0 < stage.start /\ stage.start \in Handle
      /\ stage.s = 0 /\ stage.c = 0
  BY DEF OnServices, DInv, Bookkeeping, DiscoveryTypeOK
<1>3. /\ e \in Seq(asked) /\ Len(e) \in Nat
      /\ \A i \in 1..Len(e) : e[i] \in asked
      /\ Last(e) \in asked
  BY <1>1, ResponseIsSeq
<1>4. /\ services \in Seq(Service) /\ Len(services) \in Nat /\ Ranges(services)
      /\ declarations = <<>>
  BY <1>2, LenProperties DEF DInv, Bookkeeping, DiscoveryTypeOK
<1> HIDE DEF asked
<1>5. e \in Seq(Service)
  <2>1. asked \subseteq Service
    BY DEF asked
  <2>2. QED BY <1>3, <2>1, SeqMonotonic
<1> DEFINE srv == services \o e
<1>6. /\ srv \in Seq(Service) /\ Len(srv) = Len(services) + Len(e)
      /\ \A i \in 1..Len(srv) : srv[i] = IF i <= Len(services) THEN services[i]
                                         ELSE e[i - Len(services)]
  BY <1>4, <1>5, ConcatProperties
<1> HIDE DEF srv
<1>7. Ranges(srv)
  <2> SUFFICES ASSUME NEW i \in 1..Len(srv)
               PROVE  0 < srv[i].start /\ srv[i].start <= srv[i].end
    BY DEF Ranges
  <2>1. CASE i <= Len(services)
    <3>1. i \in 1..Len(services)
      BY <2>1, <1>4, <1>6
    <3>2. QED BY <2>1, <3>1, <1>4, <1>6 DEF Ranges
  <2>2. CASE ~(i <= Len(services))
    <3>1. i - Len(services) \in 1..Len(e) /\ srv[i] = e[i - Len(services)]
      BY <2>2, <1>3, <1>4, <1>6
    <3>2. srv[i] \in asked
      BY <3>1, <1>3
    <3>3. srv[i].start \in Handle /\ stage.start <= srv[i].start
          /\ srv[i].start <= srv[i].end
      BY <3>2 DEF asked, Service
    <3>4. srv[i].start \in Nat /\ stage.start \in Nat
      BY <3>3, <1>2, HandleIsNat
    <3>5. QED BY <3>3, <3>4, <1>2
  <2>3. QED BY <2>1, <2>2
<1>8. CASE StartServices(srv)
  <2>1. /\ Structure(services', declarations') /\ stage' \in Stages
        /\ stage'.at \in {"characteristics", "descriptors", "done"}
        /\ Position(stage', services', declarations') /\ Fresh(stage', declarations')
    BY <1>6, <1>7, <1>8, StartServicesGoesOn
  <2>2. DInv'
    BY <2>1, Structured
  <2>3. Later(stage, stage')
    BY <2>1, <1>2 DEF Later, Rank
  <2>4. QED BY <2>2, <2>3
<1>9. CASE /\ Last(e).end # MaxHandle
           /\ services' = srv
           /\ stage' = Stage("services", 0, 0, SaturatingSucc(Last(e).end))
           /\ UNCHANGED declarations
  <2> DEFINE end == Last(e).end
  <2>1. end \in Handle /\ Last(e).start \in Handle /\ stage.start <= Last(e).start
        /\ Last(e).start <= end
    BY <1>3 DEF asked, Service
  <2> HIDE DEF end
  <2>2. SaturatingSucc(end) = end + 1 /\ end + 1 \in Handle
    BY <1>9, <2>1, HandleIsNat DEF SaturatingSucc, Handle, end
  <2>3. stage.start < end + 1 /\ 0 < end + 1
    <3>1. stage.start \in Nat /\ Last(e).start \in Nat /\ end \in Nat
      BY <1>2, <2>1, HandleIsNat
    <3>2. QED BY <1>2, <2>1, <3>1
  <2>4. /\ stage'.at = "services" /\ stage'.s = 0 /\ stage'.c = 0
        /\ stage'.start = end + 1 /\ stage' \in Stages
    BY <1>9, <2>2 DEF Stage, Stages, end
  <2>5. DiscoveryTypeOK'
    BY <1>6, <1>9, <2>4 DEF DInv, DiscoveryTypeOK, Stages
  <2>6. Within(srv, <<>>)
    BY EmptySeq DEF Within
  <2>7. Bookkeeping'
    BY <1>4, <1>7, <1>9, <2>3, <2>4, <2>6 DEF Bookkeeping, Position, Fresh
  <2>8. Later(stage, stage')
    BY <1>2, <2>3, <2>4 DEF Later
  <2>9. QED BY <2>5, <2>7, <2>8 DEF DInv
<1>10. QED BY <1>1, <1>8, <1>9 DEF srv

\* What is known while characteristics are asked for.
LEMMA AtCharacteristics ==
  ASSUME DInv, stage.at = "characteristics"
  PROVE  /\ Structure(services, declarations) /\ Fresh(stage, declarations)
         /\ stage.s \in 1..Len(services) /\ stage.s \in 1..Len(declarations)
         /\ stage.s \in Nat \ {0}
         /\ declarations[stage.s] \in Seq(Declaration)
         /\ services[stage.s] \in Service /\ RequestEnd = services[stage.s].end
         /\ 0 < services[stage.s].start
         /\ services[stage.s].start <= stage.start /\ stage.start <= RequestEnd
         /\ stage.start \in Nat /\ services[stage.s].start \in Nat
         /\ RequestEnd \in Nat /\ RequestEnd <= MaxHandle
<1>1. /\ Structure(services, declarations) /\ Fresh(stage, declarations)
      /\ Position(stage, services, declarations) /\ DiscoveryTypeOK
  BY DEF DInv, Bookkeeping
<1>2. /\ stage.s \in 1..Len(services) /\ stage.s \in 1..Len(declarations)
      /\ services[stage.s].start <= stage.start /\ stage.start <= services[stage.s].end
  BY <1>1 DEF Position, Structure
<1>3. /\ declarations[stage.s] \in Seq(Declaration) /\ services[stage.s] \in Service
      /\ 0 < services[stage.s].start
  BY <1>1, <1>2, ElementOfSeq DEF Structure, Ranges
<1>4. RequestEnd = services[stage.s].end
  BY DEF RequestEnd
<1>5. /\ stage.start \in Handle /\ services[stage.s].start \in Handle
      /\ services[stage.s].end \in Handle
  BY <1>1, <1>3 DEF DiscoveryTypeOK, Service
<1>6. stage.s \in Nat \ {0}
  BY <1>2
<1>7. QED BY <1>1, <1>2, <1>3, <1>4, <1>5, <1>6, HandleIsNat

LEMMA CharacteristicsGoOn ==
  ASSUME DInv, OnCharacteristics
  PROVE  DInv' /\ Later(stage, stage')
<1> DEFINE s == stage.s
           asked == {x \in Entry : /\ stage.start <= x.handle /\ x.handle < x.value
                                   /\ x.value <= RequestEnd}
<1>1. PICK e \in Responses(asked) :
        /\ \A i \in 2..Len(e) : e[i].handle >= SaturatingSucc(e[i - 1].handle)
        /\ declarations' = [declarations EXCEPT
              ![s] = @ \o [i \in 1..Len(e) |-> Declared(e[i])]]
        /\ \/ /\ Following(Last(e).handle) >= RequestEnd
              /\ NextService(services, declarations', s + 1)
           \/ /\ Following(Last(e).handle) < RequestEnd
              /\ stage' = [stage EXCEPT !.start = Following(Last(e).handle)]
  BY DEF OnCharacteristics
<1>2. stage.at = "characteristics" /\ services' = services
  BY DEF OnCharacteristics
<1>3. /\ e \in Seq(asked) /\ Len(e) \in Nat /\ 1 <= Len(e)
      /\ \A i \in 1..Len(e) : e[i] \in asked
      /\ Last(e) = e[Len(e)]
  BY <1>1, ResponseIsSeq
<1>4. ASSUME NEW i \in 1..Len(e)
      PROVE  /\ e[i] \in Entry /\ stage.start <= e[i].handle
             /\ e[i].handle < e[i].value /\ e[i].value <= RequestEnd
             /\ e[i].handle \in Nat /\ e[i].value \in Nat
  <2>1. /\ e[i] \in Entry /\ stage.start <= e[i].handle
        /\ e[i].handle < e[i].value /\ e[i].value <= RequestEnd
    BY <1>3
  <2>2. e[i].handle \in Handle /\ e[i].value \in Handle
    BY <2>1 DEF Entry
  <2>3. QED BY <2>1, <2>2, HandleIsNat
<1>5. ASSUME NEW i \in 1..Len(e)
      PROVE  Following(e[i].handle) = e[i].handle + 1
  BY <1>2, <1>4, AtCharacteristics, HandleIsNat DEF Following, SaturatingSucc
<1>6. ASSUME NEW i \in 1..Len(e), i < Len(e)
      PROVE  e[i].handle < e[i + 1].handle
  <2>1. i + 1 \in 2..Len(e) /\ (i + 1) - 1 = i /\ i + 1 \in 1..Len(e)
    BY <1>3, <1>6
  <2>2. e[i + 1].handle >= SaturatingSucc(e[i].handle)
    BY <1>1, <2>1
  <2>3. SaturatingSucc(e[i].handle) = e[i].handle + 1
    BY <1>5 DEF Following
  <2>4. QED BY <1>4, <2>1, <2>2, <2>3
<1> HIDE DEF asked
<1> DEFINE old == declarations[s]
           added == [i \in 1..Len(e) |-> Declared(e[i])]
           all == old \o added
<1>7. /\ added \in Seq(Declaration) /\ Len(added) = Len(e)
      /\ \A i \in 1..Len(e) : added[i] = Declared(e[i])
  <2>1. \A i \in 1..Len(e) : Declared(e[i]) \in Declaration
    BY <1>4, DiscoveryAssumption DEF Declared, Declaration, Entry, Handle
  <2>2. added \in [1..Len(e) -> Declaration]
    BY <2>1
  <2>3. QED BY <1>3, <2>2, FunctionIsSeq
<1>8. old \in Seq(Declaration) /\ Len(old) \in Nat
  BY <1>2, AtCharacteristics, LenProperties
<1> HIDE DEF added, old
<1>9. /\ all \in Seq(Declaration) /\ Len(all) = Len(old) + Len(e)
      /\ \A i \in 1..Len(all) : all[i] = IF i <= Len(old) THEN old[i]
                                         ELSE Declared(e[i - Len(old)])
  <2>1. /\ all \in Seq(Declaration) /\ Len(all) = Len(old) + Len(e)
        /\ \A i \in 1..Len(all) : all[i] = IF i <= Len(old) THEN old[i]
                                           ELSE added[i - Len(old)]
    <3>1. /\ old \o added \in Seq(Declaration)
          /\ Len(old \o added) = Len(old) + Len(added)
          /\ \A i \in 1..(Len(old) + Len(added)) :
               (old \o added)[i] = IF i <= Len(old) THEN old[i] ELSE added[i - Len(old)]
      BY <1>7, <1>8, ConcatProperties
    <3>2. QED BY <1>7, <3>1
  <2>2. ASSUME NEW i \in 1..Len(all), ~(i <= Len(old))
        PROVE  i - Len(old) \in 1..Len(e)
    BY <2>1, <2>2, <1>3, <1>8
  <2>3. QED BY <1>7, <2>1, <2>2
<1> HIDE DEF all
<1>10. /\ declarations' \in Seq(Seq(Declaration))
       /\ Len(declarations') = Len(declarations)
       /\ \A t \in 1..Len(declarations) :
            declarations'[t] = IF t = s THEN all ELSE declarations[t]
  <2>1. declarations' = [declarations EXCEPT ![s] = all]
    BY <1>1 DEF all, added, old
  <2>2. declarations \in Seq(Seq(Declaration)) /\ s \in 1..Len(declarations)
    BY <1>2, AtCharacteristics DEF Structure
  <2>3. QED BY <1>9, <2>1, <2>2, ExceptSeq
<1>11. ASSUME NEW c \in 1..Len(all)
       PROVE  LET d == all[c]
              IN /\ 0 < d.handle /\ services[s].start <= d.handle
                 /\ d.handle < d.value /\ d.value <= services[s].end
                 /\ d.cccd = 0
                 /\ c < Len(all) => LET next == all[c + 1].handle
                                    IN d.handle < next /\ d.cccd < next
                 /\ c = Len(all) => d.handle = Last(e).handle
  <2>1. CASE c < Len(old)
    <3>1. c \in 1..Len(old) /\ c + 1 \in 1..Len(all) /\ c < Len(all) /\ c + 1 <= Len(old)
      BY <2>1, <1>3, <1>8, <1>9
    <3>2. all[c] = declarations[s][c] /\ all[c + 1] = declarations[s][c + 1]
      BY <3>1, <1>9 DEF old
    <3>3. s \in 1..Len(declarations) /\ Structure(services, declarations)
          /\ Fresh(stage, declarations)
      BY <1>2, AtCharacteristics
    <3>4. LET d == declarations[s][c]
          IN /\ 0 < d.handle /\ services[s].start <= d.handle
             /\ d.handle < d.value /\ d.value <= services[s].end
             /\ c < Len(declarations[s]) =>
                  LET next == declarations[s][c + 1].handle
                  IN d.handle < next /\ d.cccd < next
      BY <3>1, <3>3 DEF Structure, Within, old
    <3>5. declarations[s][c].cccd = 0
      BY <1>2, <3>1, <3>3 DEF Fresh, old
    <3>6. QED BY <2>1, <3>1, <3>2, <3>4, <3>5 DEF old
  <2>2. CASE c = Len(old)
    <3>1. c \in 1..Len(old) /\ c + 1 \in 1..Len(all) /\ c < Len(all) /\ ~(c + 1 <= Len(old))
          /\ (c + 1) - Len(old) = 1
      BY <2>2, <1>3, <1>8, <1>9
    <3>2. all[c] = declarations[s][c] /\ all[c + 1] = Declared(e[1])
      <4>1. all[c] = old[c]
        BY <2>2, <3>1, <1>9
      <4>2. all[c + 1] = Declared(e[(c + 1) - Len(old)])
        BY <3>1, <1>9
      <4>3. QED BY <3>1, <4>1, <4>2 DEF old
    <3>3. s \in 1..Len(declarations) /\ Structure(services, declarations)
          /\ Fresh(stage, declarations)
      BY <1>2, AtCharacteristics
    <3>4. LET d == declarations[s][c]
          IN /\ 0 < d.handle /\ services[s].start <= d.handle
             /\ d.handle < d.value /\ d.value <= services[s].end
      BY <3>1, <3>3 DEF Structure, Within, old
    <3>5. declarations[s][c].cccd = 0 /\ declarations[s][c].handle < stage.start
      BY <1>2, <2>2, <3>1, <3>3 DEF Fresh, old
    <3>6. Declared(e[1]).handle = e[1].handle
      BY DEF Declared
    <3>7. 1 \in 1..Len(e) /\ stage.start <= e[1].handle /\ e[1].handle \in Nat
          /\ stage.start \in Nat
      BY <1>2, <1>3, <1>4, AtCharacteristics
    <3>8. declarations[s][c] \in Declaration /\ declarations[s][c].handle \in Nat
      <4>1. declarations[s][c] \in Declaration
        BY <1>8, <3>1, ElementOfSeq DEF old
      <4>2. QED BY <4>1, HandleIsNat DEF Declaration
    <3>9. declarations[s][c].handle < e[1].handle /\ 0 < e[1].handle
      BY <3>4, <3>5, <3>7, <3>8
    <3>10. QED BY <3>1, <3>2, <3>4, <3>5, <3>6, <3>9
  <2>3. CASE c > Len(old)
    <3> DEFINE i == c - Len(old)
    <3>1. i \in 1..Len(e) /\ all[c] = Declared(e[i])
      BY <2>3, <1>3, <1>8, <1>9
    <3>2. c < Len(all) => i < Len(e) /\ all[c + 1] = Declared(e[i + 1])
      <4> SUFFICES ASSUME c < Len(all) PROVE i < Len(e) /\ all[c + 1] = Declared(e[i + 1])
        OBVIOUS
      <4>1. c + 1 \in 1..Len(all) /\ ~(c + 1 <= Len(old)) /\ (c + 1) - Len(old) = i + 1
            /\ i < Len(e)
        BY <2>3, <1>3, <1>8, <1>9
      <4>2. QED BY <4>1, <1>9
    <3>3. c = Len(all) => i = Len(e)
      BY <1>3, <1>8, <1>9
    <3> HIDE DEF i
    <3>4. /\ all[c].handle = e[i].handle /\ all[c].value = e[i].value /\ all[c].cccd = 0
      BY <3>1 DEF Declared
    <3>5. c < Len(all) => all[c + 1].handle = e[i + 1].handle /\ e[i].handle < e[i + 1].handle
      BY <3>1, <3>2, <1>6 DEF Declared
    <3>6. /\ 0 < e[i].handle /\ services[s].start <= e[i].handle
          /\ e[i].handle < e[i].value /\ e[i].value <= services[s].end
      <4>1. /\ stage.start <= e[i].handle /\ e[i].handle < e[i].value
            /\ e[i].value <= RequestEnd /\ e[i].handle \in Nat
        BY <3>1, <1>4
      <4>2. /\ 0 < services[s].start /\ services[s].start <= stage.start
            /\ stage.start \in Nat /\ services[s].start \in Nat
            /\ RequestEnd = services[s].end
        BY <1>2, AtCharacteristics
      <4>3. QED BY <4>1, <4>2
    <3>7. c < Len(all) => 0 < e[i + 1].handle
      <4> SUFFICES ASSUME c < Len(all) PROVE 0 < e[i + 1].handle
        OBVIOUS
      <4>1. i + 1 \in 1..Len(e)
        BY <3>1, <3>2, <1>3
      <4>2. e[i].handle \in Nat /\ e[i + 1].handle \in Nat
        BY <3>1, <4>1, <1>4
      <4>3. QED BY <3>5, <3>6, <4>2
    <3>8. QED BY <1>3, <3>3, <3>4, <3>5, <3>6, <3>7
  <2>4. QED BY <2>1, <2>2, <2>3, <1>8, <1>9
<1>12. Structure(services, declarations')
  <2>1. Within(services, declarations')
    <3> SUFFICES ASSUME NEW t \in 1..Len(declarations'), NEW c \in 1..Len(declarations'[t])
        PROVE  LET d == declarations'[t][c]
               IN /\ 0 < d.handle /\ services[t].start <= d.handle
                  /\ d.handle < d.value /\ d.value <= services[t].end
                  /\ d.cccd # 0 => d.value < d.cccd /\ d.cccd <= services[t].end
                  /\ c < Len(declarations'[t]) =>
                       LET next == declarations'[t][c + 1].handle
                       IN d.handle < next /\ d.cccd < next
      BY DEF Within
    <3>1. CASE t = s
      BY <3>1, <1>10, <1>11
    <3>2. CASE t # s
      <4>1. declarations'[t] = declarations[t] /\ t \in 1..Len(declarations)
        BY <3>2, <1>10
      <4>2. Within(services, declarations)
        BY <1>2, AtCharacteristics DEF Structure
      <4>3. QED BY <4>1, <4>2 DEF Within
    <3>3. QED BY <3>1, <3>2
  <2>2. QED BY <1>2, <1>10, <2>1, AtCharacteristics DEF Structure
<1>13. \A t \in 1..Len(declarations') : \A c \in 1..Len(declarations'[t]) :
         declarations'[t][c].cccd = 0
  <2> SUFFICES ASSUME NEW t \in 1..Len(declarations'), NEW c \in 1..Len(declarations'[t])
               PROVE  declarations'[t][c].cccd = 0
    OBVIOUS
  <2>1. CASE t = s
    BY <2>1, <1>10, <1>11
  <2>2. CASE t # s
    <3>1. declarations'[t] = declarations[t] /\ t \in 1..Len(declarations)
      BY <2>2, <1>10
    <3>2. Fresh(stage, declarations)
      BY <1>2, AtCharacteristics
    <3>3. QED BY <1>2, <3>1, <3>2 DEF Fresh
  <2>3. QED BY <2>1, <2>2
<1>14. \A t \in 1..Len(declarations') : t > s => Len(declarations'[t]) = 0
  <2> SUFFICES ASSUME NEW t \in 1..Len(declarations'), t > s
               PROVE  Len(declarations'[t]) = 0
    OBVIOUS
  <2>1. s \in Nat /\ Len(declarations) \in Nat
    BY <1>2, AtCharacteristics, LenProperties DEF Structure
  <2>2. declarations'[t] = declarations[t] /\ t \in 1..Len(declarations)
    BY <2>1, <1>10
  <2>3. Fresh(stage, declarations)
    BY <1>2, AtCharacteristics
  <2>4. QED BY <1>2, <2>2, <2>3 DEF Fresh
<1>15. CASE NextService(services, declarations', s + 1)
  <2>1. s \in Nat /\ s + 1 \in Nat \ {0}
    BY <1>2, AtCharacteristics
  <2>2. /\ stage' \in Stages
        /\ stage'.at \in {"characteristics", "descriptors", "done"}
        /\ Position(stage', services, declarations')
        /\ stage'.at = "characteristics" => stage'.s = s + 1
    BY <1>12, <1>15, <2>1, NextServiceGoesOn
  <2>3. Fresh(stage', declarations')
    <3> SUFFICES ASSUME stage'.at = "characteristics", NEW t \in 1..Len(declarations')
        PROVE  /\ t > stage'.s => Len(declarations'[t]) = 0
               /\ \A c \in 1..Len(declarations'[t]) :
                    /\ declarations'[t][c].cccd = 0
                    /\ t = stage'.s /\ c = Len(declarations'[t]) =>
                         declarations'[t][c].handle < stage'.start
      BY DEF Fresh
    <3>1. t >= stage'.s => Len(declarations'[t]) = 0
      BY <2>1, <2>2, <1>14
    <3>2. t = stage'.s => \A c \in 1..Len(declarations'[t]) : FALSE
      BY <2>1, <2>2, <3>1
    <3>3. t > stage'.s => Len(declarations'[t]) = 0
      BY <2>1, <2>2, <3>1
    <3>4. QED BY <1>13, <3>2, <3>3
  <2>4. DInv'
    BY <1>2, <1>12, <2>2, <2>3, Structured
  <2>5. Later(stage, stage')
    BY <1>2, <2>1, <2>2 DEF Later, Rank
  <2>6. QED BY <2>4, <2>5
<1>16. CASE /\ Following(Last(e).handle) < RequestEnd
            /\ stage' = [stage EXCEPT !.start = Following(Last(e).handle)]
  <2> DEFINE h == Last(e).handle
  <2>1. Len(e) \in 1..Len(e)
    BY <1>3
  <2>2. /\ Following(h) = h + 1 /\ h \in Nat /\ stage.start <= h
    BY <1>3, <1>4, <1>5, <2>1
  <2>3. h + 1 \in Handle /\ stage.start < h + 1 /\ h + 1 <= RequestEnd
    <3>1. stage.start \in Nat /\ RequestEnd \in Nat /\ RequestEnd <= MaxHandle /\ MaxHandle \in Nat
      BY <1>2, AtCharacteristics, HandleIsNat
    <3> HIDE DEF h
    <3>2. h + 1 <= RequestEnd
      BY <1>16, <2>2, <3>1 DEF h
    <3>3. QED BY <2>2, <3>1, <3>2 DEF Handle
  <2> HIDE DEF h
  <2>4. stage \in Stages
    BY DEF DInv, DiscoveryTypeOK, Stages
  <2>5. /\ stage' \in Stages /\ stage'.at = "characteristics" /\ stage'.s = s
        /\ stage'.c = stage.c /\ stage'.start = h + 1
    BY <1>2, <1>16, <2>2, <2>3, <2>4 DEF Stages, h
  <2>6. Position(stage', services, declarations')
    <3>1. /\ s \in 1..Len(services) /\ services[s].start <= h + 1
          /\ RequestEnd = services[s].end
      BY <1>2, <2>2, <2>3, AtCharacteristics
    <3>2. QED BY <2>3, <2>5, <3>1 DEF Position
  <2>7. Fresh(stage', declarations')
    <3>1. ASSUME NEW c \in 1..Len(all), c = Len(all)
          PROVE  all[c].handle < h + 1
      BY <1>11, <2>2, <3>1 DEF h
    <3>2. QED BY <1>10, <1>13, <1>14, <2>5, <3>1 DEF Fresh
  <2>8. DInv'
    BY <1>2, <1>12, <2>5, <2>6, <2>7, Structured
  <2>9. Later(stage, stage')
    BY <1>2, <2>3, <2>5 DEF Later
  <2>10. QED BY <2>8, <2>9
<1>17. QED BY <1>1, <1>15, <1>16

\* What is known while descriptors are asked for.
LEMMA AtDescriptors ==
  ASSUME DInv, stage.at = "descriptors"
  PROVE  /\ Structure(services, declarations)
         /\ stage.s \in 1..Len(services) /\ stage.s \in 1..Len(declarations)
         /\ stage.c \in 1..Len(declarations[stage.s])
         /\ stage.s \in Nat /\ stage.c \in Nat
         /\ declarations[stage.s] \in Seq(Declaration)
         /\ declarations[stage.s][stage.c] \in Declaration
         /\ services[stage.s] \in Service
         /\ RequestEnd = DescriptorEnd(services, declarations, stage.s, stage.c)
         /\ declarations[stage.s][stage.c].value < stage.start
         /\ services[stage.s].start <= declarations[stage.s][stage.c].value
         /\ stage.start <= RequestEnd /\ RequestEnd <= services[stage.s].end
         /\ stage.c < Len(declarations[stage.s]) =>
              RequestEnd < declarations[stage.s][stage.c + 1].handle
         /\ stage.start \in Nat /\ RequestEnd \in Nat /\ RequestEnd <= MaxHandle
         /\ services[stage.s].start \in Nat /\ services[stage.s].end \in Nat
         /\ declarations[stage.s][stage.c].value \in Nat
<1> DEFINE d == declarations[stage.s][stage.c]
<1>1. /\ Structure(services, declarations) /\ Position(stage, services, declarations)
      /\ stage.start \in Handle /\ stage.s \in Nat /\ stage.c \in Nat
  BY DEF DInv, Bookkeeping, DiscoveryTypeOK
<1>2. /\ stage.s \in 1..Len(services) /\ stage.s \in 1..Len(declarations)
      /\ stage.c \in 1..Len(declarations[stage.s])
      /\ d.value < stage.start
      /\ stage.start <= DescriptorEnd(services, declarations, stage.s, stage.c)
  BY <1>1 DEF Position, Structure
<1>3. RequestEnd = DescriptorEnd(services, declarations, stage.s, stage.c)
  BY DEF RequestEnd
<1>4. /\ RequestEnd \in Handle /\ RequestEnd <= services[stage.s].end
      /\ stage.c < Len(declarations[stage.s]) =>
           RequestEnd < declarations[stage.s][stage.c + 1].handle
      /\ services[stage.s] \in Service /\ declarations[stage.s] \in Seq(Declaration)
      /\ d \in Declaration
  BY <1>1, <1>2, <1>3, DescriptorEndBounds
<1>5. services[stage.s].start <= d.handle /\ d.handle < d.value
  BY <1>1, <1>2 DEF Structure, Within
<1>6. /\ services[stage.s].start \in Handle /\ services[stage.s].end \in Handle
      /\ d.handle \in Handle /\ d.value \in Handle
  BY <1>4 DEF Service, Declaration
<1> HIDE DEF d
<1>7. /\ services[stage.s].start \in Nat /\ services[stage.s].end \in Nat
      /\ d.handle \in Nat /\ d.value \in Nat /\ stage.start \in Nat
      /\ RequestEnd \in Nat /\ RequestEnd <= MaxHandle
  BY <1>1, <1>4, <1>6, HandleIsNat
<1>8. services[stage.s].start <= d.value
  BY <1>5, <1>7
<1>9. QED BY <1>1, <1>2, <1>3, <1>4, <1>7, <1>8 DEF d

LEMMA DescriptorsGoOn ==
  ASSUME DInv, OnDescriptors
  PROVE  DInv' /\ Later(stage, stage')
<1> DEFINE s == stage.s
           k == stage.c
           old == declarations[s][k]
           asked == {x \in Descriptor : stage.start <= x.handle /\ x.handle <= RequestEnd}
<1>1. PICK e \in Responses(asked), h \in Handle :
        /\ Cccd(e, old.cccd, h)
        /\ declarations' = [declarations EXCEPT ![s][k].cccd = h]
        /\ IF h # 0 \/ Last(e).handle = RequestEnd
           THEN NextDescriptor(services, declarations', s, k + 1)
           ELSE stage' = [stage EXCEPT !.start = Succ(Last(e).handle)]
  BY DEF OnDescriptors
<1>2. stage.at = "descriptors" /\ services' = services
  BY DEF OnDescriptors
<1>3. /\ Len(e) \in Nat /\ 1 <= Len(e) /\ \A i \in 1..Len(e) : e[i] \in asked
      /\ Last(e) \in asked
  BY <1>1, ResponseIsSeq
<1>4. h = old.cccd \/ (stage.start <= h /\ h <= RequestEnd)
  BY <1>1, <1>3 DEF Cccd
<1> DEFINE new == [old EXCEPT !.cccd = h]
<1>5. /\ new \in Declaration /\ new.handle = old.handle /\ new.value = old.value
      /\ new.cccd = h /\ old \in Declaration
  BY <1>1, <1>2, AtDescriptors DEF Declaration
<1> HIDE DEF asked, new
<1> DEFINE row == [declarations[s] EXCEPT ![k] = new]
<1>6. /\ row \in Seq(Declaration) /\ Len(row) = Len(declarations[s])
      /\ \A c \in 1..Len(declarations[s]) :
           row[c] = IF c = k THEN new ELSE declarations[s][c]
  BY <1>2, <1>5, AtDescriptors, ExceptSeq
<1>7. declarations' = [declarations EXCEPT ![s] = row]
  BY <1>1 DEF new
<1> HIDE DEF row
<1>8. /\ declarations' \in Seq(Seq(Declaration))
      /\ Len(declarations') = Len(declarations)
      /\ \A t \in 1..Len(declarations) :
           declarations'[t] = IF t = s THEN row ELSE declarations[t]
  <2>1. declarations \in Seq(Seq(Declaration)) /\ s \in 1..Len(declarations)
    BY <1>2, AtDescriptors DEF Structure
  <2>2. QED BY <1>6, <1>7, <2>1, ExceptSeq
<1> HIDE DEF old
<1>9. Within(services, declarations')
  <2>1. Within(services, declarations)
    BY <1>2, AtDescriptors DEF Structure
  <2> SUFFICES ASSUME NEW t \in 1..Len(declarations'), NEW c \in 1..Len(declarations'[t])
      PROVE  LET d == declarations'[t][c]
             IN /\ 0 < d.handle /\ services[t].start <= d.handle
                /\ d.handle < d.value /\ d.value <= services[t].end
                /\ d.cccd # 0 => d.value < d.cccd /\ d.cccd <= services[t].end
                /\ c < Len(declarations'[t]) =>
                     LET next == declarations'[t][c + 1].handle
                     IN d.handle < next /\ d.cccd < next
    BY DEF Within
  <2>2. CASE t # s
    <3>1. declarations'[t] = declarations[t] /\ t \in 1..Len(declarations)
      BY <2>2, <1>8
    <3>2. QED BY <2>1, <3>1 DEF Within
  <2>3. CASE t = s
    <3> DEFINE d == declarations[s][c]
    <3>1. /\ declarations'[t] = row /\ s \in 1..Len(declarations)
          /\ c \in 1..Len(declarations[s]) /\ Len(declarations[s]) \in Nat
      BY <2>3, <1>2, <1>6, <1>8, AtDescriptors, LenProperties
    <3>2. /\ 0 < d.handle /\ services[s].start <= d.handle
          /\ d.handle < d.value /\ d.value <= services[s].end
          /\ d.cccd # 0 => d.value < d.cccd /\ d.cccd <= services[s].end
          /\ c < Len(declarations[s]) => /\ d.handle < declarations[s][c + 1].handle
                                         /\ d.cccd < declarations[s][c + 1].handle
      BY <2>1, <3>1 DEF Within
    <3>3. c < Len(declarations[s]) =>
            row[c + 1].handle = declarations[s][c + 1].handle
      <4> SUFFICES ASSUME c < Len(declarations[s])
                   PROVE  row[c + 1].handle = declarations[s][c + 1].handle
        OBVIOUS
      <4>1. c + 1 \in 1..Len(declarations[s])
        BY <3>1
      <4>2. QED BY <4>1, <1>5, <1>6 DEF old
    <3>4. CASE c # k
      <4>1. row[c] = declarations[s][c]
        BY <3>1, <3>4, <1>6
      <4>2. QED BY <2>3, <3>1, <3>2, <3>3, <4>1, <1>6
    <3>5. CASE c = k
      <4>1. /\ row[c] = new /\ new.handle = d.handle /\ new.value = d.value
            /\ new.cccd = h
        BY <3>1, <3>5, <1>5, <1>6 DEF old
      <4>2. CASE h = old.cccd
        BY <2>3, <3>1, <3>2, <3>3, <3>5, <4>1, <4>2, <1>6 DEF old
      <4>3. CASE stage.start <= h /\ h <= RequestEnd
        <5>1. /\ d.value < stage.start /\ RequestEnd <= services[s].end
              /\ stage.start \in Nat /\ RequestEnd \in Nat /\ d.value \in Nat
              /\ services[s].end \in Nat
              /\ c < Len(declarations[s]) => RequestEnd < declarations[s][c + 1].handle
          BY <1>2, <3>5, AtDescriptors
        <5>2. h \in Nat
          BY <1>1, HandleIsNat
        <5>3. d.value < h /\ h <= services[s].end
          BY <4>3, <5>1, <5>2, SMTT(20)
        <5>4. c < Len(declarations[s]) => h < declarations[s][c + 1].handle
          <6> SUFFICES ASSUME c < Len(declarations[s])
                       PROVE  h < declarations[s][c + 1].handle
            OBVIOUS
          <6>1. c + 1 \in 1..Len(declarations[s]) /\ declarations[s] \in Seq(Declaration)
            BY <3>1, <1>2, AtDescriptors
          <6>2. declarations[s][c + 1] \in Declaration
            BY <6>1, ElementOfSeq
          <6>3. declarations[s][c + 1].handle \in Handle
            BY <6>2 DEF Declaration
          <6>4. declarations[s][c + 1].handle \in Nat
            BY <6>3, HandleIsNat
          <6>5. QED BY <4>3, <5>1, <5>2, <6>4
        <5>5. QED BY <2>3, <3>1, <3>2, <3>3, <4>1, <5>3, <5>4, <1>6
      <4>4. QED BY <1>4, <4>2, <4>3
    <3>6. QED BY <3>4, <3>5
  <2>4. QED BY <2>2, <2>3
<1>10. Structure(services, declarations')
  BY <1>2, <1>8, <1>9, AtDescriptors DEF Structure
<1>11. CASE NextDescriptor(services, declarations', s, k + 1)
  <2>1. s \in Nat /\ k \in Nat /\ k + 1 \in Nat
    BY <1>2, AtDescriptors
  <2>2. /\ stage' \in Stages /\ stage'.at \in {"descriptors", "done"}
        /\ Position(stage', services, declarations')
        /\ stage'.at = "descriptors" =>
             s < stage'.s \/ (s = stage'.s /\ k + 1 <= stage'.c)
    BY <1>10, <1>11, <2>1, NextDescriptorGoesOn
  <2>3. Fresh(stage', declarations')
    BY <2>2 DEF Fresh
  <2>4. DInv'
    BY <1>2, <1>10, <2>2, <2>3, Structured
  <2>5. stage'.at = "descriptors" => s < stage'.s \/ (s = stage'.s /\ k < stage'.c)
    BY <2>1, <2>2 DEF Stages
  <2>6. Later(stage, stage')
    BY <1>2, <2>2, <2>5 DEF Later, Rank
  <2>7. QED BY <2>4, <2>6
<1>12. CASE /\ Last(e).handle # RequestEnd
            /\ stage' = [stage EXCEPT !.start = Succ(Last(e).handle)]
  <2> DEFINE last == Last(e).handle
  <2>1. last \in Handle /\ stage.start <= last /\ last <= RequestEnd
    BY <1>3 DEF asked, Descriptor
  <2> HIDE DEF last
  <2>2. /\ stage.start \in Nat /\ RequestEnd \in Nat /\ RequestEnd <= MaxHandle
        /\ MaxHandle \in Nat /\ last \in Nat
    BY <1>2, <2>1, AtDescriptors, HandleIsNat
  <2>3. /\ Succ(last) = last + 1 /\ last + 1 \in Handle /\ last + 1 <= RequestEnd
        /\ stage.start < last + 1
    BY <1>12, <2>1, <2>2 DEF Succ, Handle, last
  <2>4. stage \in Stages
    BY DEF DInv, DiscoveryTypeOK, Stages
  <2>5. /\ stage' \in Stages /\ stage'.at = "descriptors" /\ stage'.s = s
        /\ stage'.c = k /\ stage'.start = last + 1
    BY <1>2, <1>12, <2>3, <2>4 DEF Stages, last
  <2>6. Position(stage', services, declarations')
    <3>1. /\ s \in 1..Len(services) /\ s \in 1..Len(declarations)
          /\ k \in 1..Len(declarations[s])
          /\ declarations[s][k].value < stage.start /\ declarations[s][k].value \in Nat
          /\ RequestEnd = DescriptorEnd(services, declarations, s, k)
      BY <1>2, AtDescriptors
    <3>2. /\ k \in 1..Len(declarations'[s])
          /\ declarations'[s][k].value = declarations[s][k].value
      BY <3>1, <1>5, <1>6, <1>8 DEF old
    <3>3. DescriptorEnd(services, declarations', s, k)
            = DescriptorEnd(services, declarations, s, k)
      <4>1. declarations'[s] = row /\ Len(row) = Len(declarations[s])
            /\ Len(declarations[s]) \in Nat
        BY <3>1, <1>2, <1>6, <1>8, AtDescriptors, LenProperties
      <4>2. k < Len(declarations[s]) => row[k + 1] = declarations[s][k + 1]
        <5>1. k < Len(declarations[s]) => k + 1 \in 1..Len(declarations[s]) /\ k + 1 # k
          BY <3>1, <4>1
        <5>2. QED BY <5>1, <1>6
      <4>3. QED BY <4>1, <4>2 DEF DescriptorEnd
    <3>4. declarations[s][k].value < last + 1
      <4> DEFINE value == declarations[s][k].value
      <4>1. value \in Nat /\ value < stage.start
        BY <3>1
      <4> HIDE DEF value
      <4>2. value < last + 1
        BY <2>2, <2>3, <4>1
      <4>3. QED BY <4>2 DEF value
    <3>5. QED BY <2>3, <2>5, <3>1, <3>2, <3>3, <3>4 DEF Position
  <2>7. Fresh(stage', declarations')
    BY <2>5 DEF Fresh
  <2>8. DInv'
    BY <1>2, <1>10, <2>5, <2>6, <2>7, Structured
  <2>9. Later(stage, stage')
    BY <1>2, <2>3, <2>5 DEF Later
  <2>10. QED BY <2>8, <2>9
<1>13. QED BY <1>1, <1>11, <1>12

LEMMA EndGoesOn ==
  ASSUME DInv, OnEnd
  PROVE  DInv' /\ Later(stage, stage')
<1>1. CASE stage.at = "services" /\ StartServices(services)
  <2>1. services \in Seq(Service) /\ Ranges(services)
    BY DEF DInv, DiscoveryTypeOK, Bookkeeping
  <2>2. /\ Structure(services', declarations') /\ stage' \in Stages
        /\ stage'.at \in {"characteristics", "descriptors", "done"}
        /\ Position(stage', services', declarations') /\ Fresh(stage', declarations')
    BY <1>1, <2>1, StartServicesGoesOn
  <2>3. Later(stage, stage')
    BY <1>1, <2>2 DEF Later, Rank
  <2>4. QED BY <2>2, <2>3, Structured
<1>2. CASE /\ stage.at = "characteristics"
           /\ NextService(services, declarations, stage.s + 1)
           /\ UNCHANGED <<services, declarations>>
  <2>1. /\ Structure(services, declarations) /\ Fresh(stage, declarations)
        /\ stage.s \in Nat /\ stage.s + 1 \in Nat \ {0}
    BY <1>2, AtCharacteristics
  <2>2. /\ stage' \in Stages
        /\ stage'.at \in {"characteristics", "descriptors", "done"}
        /\ Position(stage', services, declarations)
        /\ stage'.at = "characteristics" => stage'.s = stage.s + 1
    BY <1>2, <2>1, NextServiceGoesOn
  <2>3. Fresh(stage', declarations)
    <3> SUFFICES ASSUME stage'.at = "characteristics", NEW t \in 1..Len(declarations)
        PROVE  /\ t > stage'.s => Len(declarations[t]) = 0
               /\ \A c \in 1..Len(declarations[t]) :
                    /\ declarations[t][c].cccd = 0
                    /\ t = stage'.s /\ c = Len(declarations[t]) =>
                         declarations[t][c].handle < stage'.start
      BY DEF Fresh
    <3>1. t >= stage'.s => Len(declarations[t]) = 0
      BY <1>2, <2>1, <2>2 DEF Fresh
    <3>2. t = stage'.s => \A c \in 1..Len(declarations[t]) : FALSE
      BY <2>1, <2>2, <3>1
    <3>3. t > stage'.s => Len(declarations[t]) = 0
      BY <2>1, <2>2, <3>1
    <3>4. QED BY <1>2, <2>1, <3>2, <3>3 DEF Fresh
  <2>4. Later(stage, stage')
    BY <1>2, <2>1, <2>2 DEF Later, Rank
  <2>5. Structure(services', declarations') /\ Position(stage', services', declarations')
        /\ Fresh(stage', declarations')
    BY <1>2, <2>1, <2>2, <2>3
  <2>6. QED BY <2>2, <2>4, <2>5, Structured
<1>3. CASE /\ stage.at = "descriptors"
           /\ NextDescriptor(services, declarations, stage.s, stage.c + 1)
           /\ UNCHANGED <<services, declarations>>
  <2>1. /\ Structure(services, declarations)
        /\ stage.s \in Nat /\ stage.c \in Nat /\ stage.c + 1 \in Nat
    BY <1>3, AtDescriptors
  <2>2. /\ stage' \in Stages /\ stage'.at \in {"descriptors", "done"}
        /\ Position(stage', services, declarations)
        /\ stage'.at = "descriptors" =>
             stage.s < stage'.s \/ (stage.s = stage'.s /\ stage.c + 1 <= stage'.c)
    BY <1>3, <2>1, NextDescriptorGoesOn
  <2>3. stage'.at = "descriptors" =>
          stage.s < stage'.s \/ (stage.s = stage'.s /\ stage.c < stage'.c)
    BY <2>1, <2>2 DEF Stages
  <2>4. Later(stage, stage')
    BY <1>3, <2>2, <2>3 DEF Later, Rank
  <2>5. Structure(services', declarations') /\ Position(stage', services', declarations')
        /\ Fresh(stage', declarations')
    BY <1>3, <2>1, <2>2 DEF Fresh
  <2>6. QED BY <2>2, <2>4, <2>5, Structured
<1>4. QED BY <1>1, <1>2, <1>3 DEF OnEnd

LEMMA ResponseGoesOn ==
  ASSUME DInv, OnResponse
  PROVE  DInv' /\ Later(stage, stage')
  BY MtuGoesOn, ServicesGoOn, CharacteristicsGoOn, DescriptorsGoOn, EndGoesOn
     DEF OnResponse

LEMMA ForgetEnds ==
  ASSUME DInv, Forget
  PROVE  DInv' /\ (stage.at # "done" => Later(stage, stage'))
<1>1. stage' = Stage("done", 0, 0, 0) /\ services' = <<>> /\ declarations' = <<>>
  BY DEF Forget
<1>2. /\ <<>> \in Seq(Service) /\ <<>> \in Seq(Seq(Declaration))
      /\ Len(services') = 0 /\ Len(declarations') = 0
  BY <1>1, EmptySeq
<1>3. stage' \in Stages /\ stage'.at = "done"
  BY <1>1, HandleIsNat, DiscoveryAssumption DEF Stage, Stages, Handle
<1>4. Structure(services', declarations')
  BY <1>1, <1>2 DEF Structure, Ranges, Within
<1>5. Position(stage', services', declarations') /\ Fresh(stage', declarations')
  BY <1>3 DEF Position, Fresh
<1>6. DInv'
  BY <1>3, <1>4, <1>5, Structured
<1>7. stage.at # "done" => Later(stage, stage')
  BY <1>3 DEF Later, Rank, DInv, DiscoveryTypeOK
<1>8. QED BY <1>6, <1>7

LEMMA Step ==
  DInv /\ [DiscoveryNext]_discovery
    => DInv' /\ [stage.at # "done" => Later(stage, stage')]_discovery
<1> SUFFICES ASSUME DInv, [DiscoveryNext]_discovery
             PROVE  DInv' /\ [stage.at # "done" => Later(stage, stage')]_discovery
  OBVIOUS
<1>1. CASE OnResponse
  BY <1>1, ResponseGoesOn
<1>2. CASE Forget
  BY <1>2, ForgetEnds
<1>3. CASE UNCHANGED discovery
  <2>1. stage' = stage /\ services' = services /\ declarations' = declarations
    BY <1>3 DEF discovery
  <2>2. DInv'
    BY <2>1 DEF DInv, DiscoveryTypeOK, Bookkeeping, RequestEnd
  <2>3. QED BY <1>3, <2>2
<1>4. QED BY <1>1, <1>2, <1>3 DEF DiscoveryNext

\* The invariant says more than that handles are bounded.
LEMMA InvariantBounds ==
  DInv => HandlesBounded
<1> SUFFICES ASSUME DInv PROVE HandlesBounded
  OBVIOUS
<1>1. DeclarationsBounded
  BY DEF DInv, Bookkeeping, Within, DeclarationsBounded
<1>2. CASE stage.at = "services"
  <2>1. stage.start \in Handle /\ 0 < stage.start
    BY <1>2 DEF DInv, Bookkeeping, DiscoveryTypeOK
  <2>2. RequestEnd = MaxHandle
    BY <1>2 DEF RequestEnd
  <2>3. QED BY <1>2, <2>1, <2>2, HandleIsNat, <1>1
            DEF RequestBounded, HandlesBounded, DInv
<1>3. CASE stage.at = "characteristics"
  <2>1. /\ 0 < services[stage.s].start /\ services[stage.s].start <= stage.start
        /\ stage.start <= RequestEnd /\ RequestEnd = services[stage.s].end
        /\ stage.start \in Nat /\ services[stage.s].start \in Nat /\ RequestEnd \in Nat
    BY <1>3, AtCharacteristics
  <2>2. RequestBounded
    BY <1>3, <2>1 DEF RequestBounded
  <2>3. QED BY <1>1, <2>2 DEF HandlesBounded, DInv
<1>4. CASE stage.at = "descriptors"
  <2> DEFINE value == declarations[stage.s][stage.c].value
  <2>1. /\ services[stage.s].start <= value /\ value < stage.start
        /\ stage.start <= RequestEnd /\ RequestEnd <= services[stage.s].end
        /\ stage.start \in Nat /\ services[stage.s].start \in Nat /\ value \in Nat
    BY <1>4, AtDescriptors
  <2> HIDE DEF value
  <2>2. RequestBounded
    BY <1>4, <2>1 DEF RequestBounded
  <2>3. QED BY <1>1, <2>2 DEF HandlesBounded, DInv
<1>5. CASE stage.at \notin {"services", "characteristics", "descriptors"}
  BY <1>1, <1>5 DEF RequestBounded, HandlesBounded, DInv
<1>6. QED BY <1>2, <1>3, <1>4, <1>5

-----------------------------------------------------------------------------
\* Whatever the peer answers, the handles of the discovery lie in the order and in
\* the services that declare them, and every request asks for a part of a service:
\* no addition has passed the last handle, no subtraction the first.
THEOREM DiscoveryStaysBounded == DiscoverySpec => []HandlesBounded
<1>1. DiscoverySpec => []DInv
  BY Initially, Step, PTL DEF DiscoverySpec
<1>2. QED BY <1>1, InvariantBounds, PTL

\* Every response that is accepted moves the discovery on.
THEOREM DiscoveryAdvances == DiscoverySpec => Advances
<1>1. DiscoverySpec => []DInv
  BY Initially, Step, PTL DEF DiscoverySpec
<1>2. QED BY <1>1, Step, PTL DEF DiscoverySpec, Advances

-----------------------------------------------------------------------------
(* The link. *)

\* A request or a reply of call c is on its way.
Unread(c) ==
  \/ \E i \in 1..Len(wire) : wire[i] = c
  \/ \E i \in 1..Len(air) : air[i].kind = "reply" /\ air[i].of = c

\* It belongs to the call that waits for it.
UnreadAwaited ==
  ~closed => \A c \in Users :
    /\ Unread(c) => state[c] = "waiting" /\ pending = c
    /\ state[c] = "sending" => pending = c

\* A reply is handed over once, and only to a call that has sent its request.
NotYetReplied ==
  \A c \in Users : pending = c \/ state[c] \in {"new", "queued"} => reply[c] = NoCall

LInv == OneOutstanding /\ NoCrossedReply /\ UnreadAwaited /\ NotYetReplied

-----------------------------------------------------------------------------
(* What the invariant gives, and what an action must show again. *)

\* Before and after a step, the parts of LInv that an action can disturb.
LEMMA Holder ==
  ASSUME LInv, NEW c \in Users, NEW d \in Users, InFlight(c), Holds(d)
  PROVE  c = d
  BY DEF LInv, OneOutstanding, Holds

LEMMA Members ==
  NoCall \notin Users /\ Opener \in Users /\ Calls \subseteq Users
  BY AttLinkAssumption DEF Users

\* Without a step of a call, what is on its way stays.
LEMMA Quiet ==
  ASSUME LInv, UNCHANGED <<state, queue, pending, reply, closed, wire, air>>, TypeOK'
  PROVE  LInv'
  BY DEF LInv, OneOutstanding, OneUnread, UnreadAwaited, NotYetReplied, NoCrossedReply,
         Unread, InFlight, Holds

\* The link closes: nothing is pending, and nothing more is read.
LEMMA Closing ==
  ASSUME LInv, Close, UNCHANGED <<state, queue, reply>>, TypeOK'
  PROVE  LInv'
<1>1. closed' = TRUE /\ pending' = NoCall /\ NoCall \notin Users
  BY Members DEF Close
<1>2. QED BY <1>1 DEF LInv, OneOutstanding, UnreadAwaited, NotYetReplied,
                      NoCrossedReply, InFlight, Holds

\* The call that holds the lock leaves it, and closes the link.
LEMMA ClosingCall ==
  ASSUME LInv, NEW c \in Users, InFlight(c), queue' = Tail(queue), Close,
         Become(c, "failed"), UNCHANGED <<reply, sinks, closer, peer>>,
         opening' \in {"running", "open", "failed"},
         reader' \in {"recv", "confirm", "ended"}
  PROVE  LInv'
<1>1. closed' = TRUE /\ pending' = NoCall /\ NoCall \notin Users
  BY Members DEF Close
<1>2. Holds(c) /\ TypeOK
  BY DEF LInv, OneOutstanding
<1>3. queue' \in Seq(Users)
  BY <1>2, HeadTailProperties DEF TypeOK, Holds
<1>4. state' = [state EXCEPT ![c] = "failed"]
  BY DEF Become
<1>5. TypeOK'
  BY <1>1, <1>2, <1>3, <1>4 DEF TypeOK, CallStates, peer
<1>6. \A d \in Users : ~InFlight(d)'
  <2> SUFFICES ASSUME NEW d \in Users PROVE ~InFlight(d)'
    OBVIOUS
  <2>1. CASE d = c
    BY <1>2, <1>4, <2>1 DEF InFlight, TypeOK
  <2>2. CASE d # c
    <3>1. ~InFlight(d)
      BY <1>2, <2>2, Holder
    <3>2. QED BY <1>2, <1>4, <2>2, <3>1 DEF InFlight, TypeOK
  <2>3. QED BY <2>1, <2>2
<1>7. \A d \in Users : state'[d] \in {"new", "queued"} => state[d] \in {"new", "queued"}
  BY <1>2, <1>4 DEF TypeOK
<1>8. QED BY <1>1, <1>5, <1>6, <1>7 DEF LInv, OneOutstanding, UnreadAwaited,
                                       NotYetReplied, NoCrossedReply

\* A call whose reply was read has nothing on its way, and no other has.
LEMMA NothingUnread ==
  ASSUME LInv, NEW c \in Users, Replied(c)
  PROVE  pending = NoCall /\ \A d \in Users : ~Unread(d) /\ (d # c => ~InFlight(d))
<1>1. InFlight(c) /\ Holds(c) /\ ~closed /\ reply[c] # NoCall
  BY DEF Replied, InFlight, LInv, OneOutstanding
<1>2. \A d \in Users : d # c => ~InFlight(d)
  BY <1>1, Holder
<1>3. pending # c
  BY <1>1 DEF LInv, NotYetReplied
<1>4. pending = NoCall
  BY <1>2, <1>3 DEF LInv, OneOutstanding, TypeOK
<1>5. \A d \in Users : ~Unread(d)
  BY <1>1, <1>4, Members DEF LInv, UnreadAwaited
<1>6. QED BY <1>2, <1>4, <1>5

-----------------------------------------------------------------------------
(* The actions of a call. *)

LEMMA Queueing ==
  ASSUME LInv, NEW c \in Users, state[c] = "new", queue' = Append(queue, c),
         Become(c, "queued"), UNCHANGED <<pending, reply, closed, reader, closer, peer, open>>,
         sinks' \subseteq Calls
  PROVE  LInv'
<1>1. TypeOK /\ \A d \in Users : InFlight(d) => Holds(d)
  BY DEF LInv, OneOutstanding
<1>2. /\ queue' \in Seq(Users) /\ queue' # <<>>
      /\ Len(queue) \in Nat /\ \A i \in 1..Len(queue) : queue'[i] = queue[i]
  BY <1>1, AppendProperties, LenProperties DEF TypeOK
<1>3. state' = [state EXCEPT ![c] = "queued"]
  BY DEF Become
<1>4. TypeOK'
  BY <1>1, <1>2, <1>3 DEF TypeOK, CallStates, peer, open
<1>5. ASSUME NEW d \in Users
      PROVE  /\ InFlight(d)' <=> InFlight(d)
             /\ state'[d] = "waiting" <=> state[d] = "waiting"
             /\ state'[d] = "sending" <=> state[d] = "sending"
             /\ state'[d] \in {"new", "queued"} <=> state[d] \in {"new", "queued"}
  BY <1>1, <1>3 DEF InFlight, TypeOK
<1>6. ASSUME NEW d \in Users, InFlight(d)' PROVE Holds(d)'
  <2>1. Holds(d)
    BY <1>1, <1>5, <1>6
  <2>2. 1 \in 1..Len(queue)
    BY <1>1, <2>1, EmptySeq DEF Holds, TypeOK
  <2>3. QED BY <1>2, <2>1, <2>2 DEF Holds
<1>7. QED BY <1>4, <1>5, <1>6 DEF LInv, OneOutstanding, OneUnread, UnreadAwaited,
             NotYetReplied, NoCrossedReply, Unread, peer

LEMMA Locking ==
  ASSUME LInv, NEW c \in Users, Lock(c)
  PROVE  LInv'
<1>1. TypeOK /\ (\A d \in Users : InFlight(d) => Holds(d)) /\ state[c] = "queued" /\ Holds(c)
  BY DEF LInv, OneOutstanding, Lock
<1>2. state' = [state EXCEPT ![c] = "sending"] /\ pending' = c
  BY DEF Lock, Become
<1>3. TypeOK'
  BY <1>1, <1>2 DEF TypeOK, CallStates, Lock, peer, open
<1>4. \A d \in Users : ~InFlight(d)
  <2> SUFFICES ASSUME NEW d \in Users, InFlight(d) PROVE FALSE
    OBVIOUS
  <2>1. d = c
    BY <1>1, Holder
  <2>2. QED BY <1>1, <2>1 DEF InFlight
<1>5. ~closed => \A d \in Users : ~Unread(d)
  BY <1>4 DEF LInv, UnreadAwaited, InFlight
<1>6. \A d \in Users : d # c => ~InFlight(d)' /\ state'[d] = state[d]
  BY <1>1, <1>2, <1>4 DEF InFlight, TypeOK
<1>7. state'[c] = "sending"
  BY <1>1, <1>2 DEF TypeOK
<1>8. OneOutstanding'
  <2>1. \A d \in Users : InFlight(d)' => Holds(d)'
    BY <1>1, <1>6 DEF Lock, Holds
  <2>2. \A d \in Users : pending' = d => InFlight(d)'
    BY <1>2, <1>7 DEF InFlight
  <2>3. QED BY <1>3, <2>1, <2>2 DEF LInv, OneOutstanding, OneUnread, Lock, peer
<1>9. UnreadAwaited'
  <2>1. \A d \in Users : Unread(d)' <=> Unread(d)
    BY DEF Unread, Lock, peer
  <2>2. \A d \in Users : state'[d] = "sending" => d = c
    BY <1>6 DEF InFlight
  <2>3. QED BY <1>2, <1>5, <2>1, <2>2 DEF UnreadAwaited, Lock
<1>10. NotYetReplied'
  BY <1>1, <1>2, <1>6, <1>7 DEF LInv, NotYetReplied, Lock
<1>11. NoCrossedReply'
  BY DEF LInv, NoCrossedReply, Lock
<1>12. QED BY <1>8, <1>9, <1>10, <1>11 DEF LInv

LEMMA Sending ==
  ASSUME LInv, NEW c \in Users, Send(c)
  PROVE  LInv'
<1>1. /\ TypeOK /\ state[c] = "sending" /\ ~closed /\ InFlight(c) /\ Holds(c)
      /\ pending = c
  BY DEF LInv, OneOutstanding, UnreadAwaited, Send, InFlight
<1>2. state' = [state EXCEPT ![c] = "waiting"] /\ wire' = Append(wire, c)
  BY DEF Send, Become
<1>3. \A d \in Users : d # c => ~InFlight(d)
  BY <1>1, Holder
<1>4. \A d \in Users : ~Unread(d)
  <2> SUFFICES ASSUME NEW d \in Users, Unread(d) PROVE FALSE
    OBVIOUS
  <2>1. state[d] = "waiting" /\ pending = d
    BY <1>1 DEF LInv, UnreadAwaited
  <2>2. QED BY <1>1, <2>1
<1>5. /\ wire = <<>> /\ Len(wire) = 0
      /\ \A i \in 1..Len(air) : air[i].kind # "reply"
  <2>1. wire \in Seq(Users) /\ air \in Seq(Packet) /\ Len(wire) \in Nat
    BY <1>1, LenProperties DEF TypeOK
  <2>2. wire # <<>> => 1 \in 1..Len(wire) /\ wire[1] \in Users
    BY <2>1, EmptySeq, ElementOfSeq
  <2>3. wire = <<>>
    BY <1>4, <2>2 DEF Unread
  <2>4. \A i \in 1..Len(air) : air[i] \in Packet
    BY <2>1, ElementOfSeq
  <2>5. \A i \in 1..Len(air) : air[i].of \in Users
    BY <2>4, Members DEF Packet
  <2>6. QED BY <1>4, <2>3, <2>5, EmptySeq DEF Unread
<1>6. wire' \in Seq(Users) /\ Len(wire') = 1 /\ wire'[1] = c
  BY <1>1, <1>2, <1>5, AppendProperties DEF TypeOK
<1>7. TypeOK'
  BY <1>1, <1>2, <1>6 DEF TypeOK, CallStates, Send, open, discovery
<1>8. \A d \in Users : d # c => ~InFlight(d)' /\ state'[d] = state[d]
  BY <1>1, <1>2, <1>3 DEF InFlight, TypeOK
<1>9. state'[c] = "waiting"
  BY <1>1, <1>2 DEF TypeOK
<1>10. OneOutstanding'
  <2>1. \A d \in Users : InFlight(d)' => Holds(d)'
    BY <1>1, <1>8 DEF Send, Holds
  <2>2. \A d \in Users : pending' = d => InFlight(d)'
    BY <1>1, <1>9 DEF InFlight, Send
  <2>3. OneUnread'
    BY <1>5, <1>6 DEF OneUnread, Send
  <2>4. QED BY <1>7, <2>1, <2>2, <2>3 DEF OneOutstanding
<1>11. UnreadAwaited'
  <2>1. \A d \in Users : Unread(d)' => d = c
    BY <1>5, <1>6 DEF Unread, Send
  <2>2. \A d \in Users : state'[d] # "sending"
    BY <1>8, <1>9 DEF InFlight
  <2>3. QED BY <1>1, <1>9, <2>1, <2>2 DEF UnreadAwaited, Send
<1>12. NotYetReplied'
  BY <1>1, <1>8, <1>9 DEF LInv, NotYetReplied, Send
<1>13. NoCrossedReply'
  BY DEF LInv, NoCrossedReply, Send
<1>14. QED BY <1>10, <1>11, <1>12, <1>13 DEF LInv

\* A call that got its reply leaves the lock; only open begins again.
LEMMA Receiving ==
  ASSUME LInv, NEW c \in Users, Replied(c), queue' = Tail(queue),
         \/ Become(c, "ok") /\ reply' = reply
         \/ Become(c, "new") /\ reply' = [reply EXCEPT ![c] = NoCall],
         UNCHANGED <<pending, sinks, closed, reader, closer, peer, opening>>
  PROVE  LInv'
<1>1. /\ TypeOK /\ InFlight(c) /\ Holds(c) /\ ~closed
      /\ pending = NoCall
      /\ \A d \in Users : ~Unread(d) /\ (d # c => ~InFlight(d))
  BY NothingUnread DEF LInv, OneOutstanding, Replied, InFlight
<1>2. queue' \in Seq(Users)
  BY <1>1, HeadTailProperties DEF TypeOK, Holds
<1>3. /\ state'[c] \in {"ok", "new"} /\ \A d \in Users : d # c => state'[d] = state[d]
      /\ state' \in [Users -> CallStates]
  BY <1>1 DEF Become, TypeOK, CallStates
<1>4. /\ reply' \in [Users -> Users \cup {NoCall}]
      /\ state'[c] = "new" => reply'[c] = NoCall
      /\ \A d \in Users : reply'[d] = reply[d] \/ reply'[d] = NoCall
  BY <1>1 DEF Become, TypeOK, CallStates
<1>5. TypeOK'
  BY <1>1, <1>2, <1>3, <1>4 DEF TypeOK, peer
<1>6. \A d \in Users : ~InFlight(d)'
  BY <1>1, <1>3 DEF InFlight
<1>7. OneOutstanding'
  BY <1>1, <1>5, <1>6, Members DEF LInv, OneOutstanding, OneUnread, peer
<1>8. UnreadAwaited'
  BY <1>1, <1>6 DEF UnreadAwaited, Unread, InFlight, peer
<1>9. NotYetReplied'
  BY <1>1, <1>3, <1>4, Members DEF LInv, NotYetReplied
<1>10. NoCrossedReply'
  BY <1>4 DEF LInv, NoCrossedReply
<1>11. QED BY <1>7, <1>8, <1>9, <1>10 DEF LInv

\* open succeeds, or fails between two requests.
LEMMA Opening ==
  ASSUME LInv, Opened \/ OpenFails
  PROVE  LInv'
<1> DEFINE c == Opener
<1>1. TypeOK /\ state[c] = "new" /\ c \in Users
  BY Members DEF LInv, OneOutstanding, Opened, OpenFails
<1>2. PICK s \in {"ok", "failed"} : state' = [state EXCEPT ![c] = s]
  BY DEF Opened, OpenFails, Become
<1>3. /\ state' \in [Users -> CallStates] /\ state'[c] \in {"ok", "failed"}
      /\ \A d \in Users : d # c => state'[d] = state[d]
  BY <1>1, <1>2 DEF TypeOK, CallStates
<1>4. /\ UNCHANGED <<queue, reply, sinks, closer, peer>>
      /\ pending' = pending \/ pending' = NoCall
      /\ (closed' = closed /\ pending' = pending) \/ closed' = TRUE
      /\ closed' \in BOOLEAN
      /\ opening' \in {"open", "failed"} /\ reader' \in {reader, "ended"}
  BY <1>1 DEF Opened, OpenFails, Close, Gone, TypeOK
<1>5. TypeOK'
  BY <1>1, <1>3, <1>4, Members DEF TypeOK, peer
<1>6. \A d \in Users : InFlight(d)' <=> InFlight(d)
  BY <1>1, <1>3 DEF InFlight
<1>7. OneOutstanding'
  BY <1>4, <1>5, <1>6, Members DEF LInv, OneOutstanding, OneUnread, Holds, peer
<1>8. UnreadAwaited'
  BY <1>1, <1>3, <1>4 DEF LInv, UnreadAwaited, Unread, peer
<1>9. NotYetReplied'
  BY <1>1, <1>3, <1>4, Members DEF LInv, NotYetReplied
<1>10. NoCrossedReply'
  BY <1>4 DEF LInv, NoCrossedReply
<1>11. QED BY <1>7, <1>8, <1>9, <1>10 DEF LInv

LEMMA Dropping ==
  ASSUME LInv, NEW c \in Users, DropQueued(c)
  PROVE  LInv'
<1>1. TypeOK /\ state[c] = "queued" /\ \A d \in Users : InFlight(d) => Holds(d)
  BY DEF LInv, OneOutstanding, DropQueued
<1>2. PICK i \in 1..Len(queue) : queue[i] = c /\ queue' = RemoveAt(queue, i)
  BY DEF DropQueued
<1>3. /\ queue \in Seq(Users) /\ Len(queue) \in Nat
      /\ queue' \in Seq(Users)
      /\ i # 1 => queue'[1] = queue[1] /\ queue' # <<>>
  BY <1>1, <1>2, RemoveAtKeepsFirst, LenProperties DEF TypeOK
<1>4. state' = [state EXCEPT ![c] = "failed"]
  BY DEF DropQueued, Become
<1>5. TypeOK'
  BY <1>1, <1>3, <1>4 DEF TypeOK, CallStates, DropQueued, peer, open
<1>6. /\ state'[c] = "failed" /\ \A d \in Users : d # c => state'[d] = state[d]
      /\ \A d \in Users : InFlight(d)' <=> InFlight(d)
  BY <1>1, <1>4 DEF InFlight, TypeOK
<1>7. ASSUME NEW d \in Users, InFlight(d)' PROVE Holds(d)'
  <2>1. queue[1] = d /\ d # c
    BY <1>1, <1>6, <1>7 DEF Holds, InFlight
  <2>2. i # 1
    BY <1>2, <2>1
  <2>3. QED BY <1>3, <2>1, <2>2 DEF Holds
<1>8. OneOutstanding'
  BY <1>5, <1>6, <1>7 DEF LInv, OneOutstanding, OneUnread, DropQueued, peer
<1>9. UnreadAwaited'
  BY <1>1, <1>6 DEF LInv, UnreadAwaited, Unread, DropQueued, peer
<1>10. NotYetReplied'
  BY <1>1, <1>6 DEF LInv, NotYetReplied, DropQueued
<1>11. NoCrossedReply'
  BY DEF LInv, NoCrossedReply, DropQueued
<1>12. QED BY <1>8, <1>9, <1>10, <1>11 DEF LInv

-----------------------------------------------------------------------------
(* The reader and the peer. *)

\* The packet that is read is taken from the front, the others move up.
LEMMA Reading ==
  ASSUME TypeOK, air # <<>>, air' = Tail(air)
  PROVE  /\ air' \in Seq(Packet) /\ air[1] \in Packet /\ Len(air) \in Nat
         /\ 1 \in 1..Len(air) /\ Len(air') = Len(air) - 1
         /\ \A i \in 1..Len(air') : air'[i] = air[i + 1] /\ i + 1 \in 1..Len(air)
<1>1. air \in Seq(Packet)
  BY DEF TypeOK
<1>2. /\ air' \in Seq(Packet) /\ Len(air') = Len(air) - 1
      /\ \A i \in 1..Len(air') : air'[i] = air[i + 1]
  BY <1>1, HeadTailProperties
<1>3. Len(air) \in Nat /\ 1 \in 1..Len(air)
  BY <1>1, EmptySeq
<1>4. air[1] \in Packet
  BY <1>1, <1>3, ElementOfSeq
<1>5. QED BY <1>2, <1>3, <1>4

LEMMA ReadingReply ==
  ASSUME LInv, ReadReply
  PROVE  LInv'
<1> DEFINE c == air[1].of
<1>1. /\ TypeOK /\ ~closed /\ air # <<>> /\ air' = Tail(air)
      /\ air[1].kind = "reply" /\ pending' = NoCall
  BY DEF LInv, OneOutstanding, ReadReply, Reads
<1>2. /\ air' \in Seq(Packet) /\ air[1] \in Packet /\ Len(air) \in Nat
      /\ 1 \in 1..Len(air) /\ Len(air') = Len(air) - 1
      /\ \A i \in 1..Len(air') : air'[i] = air[i + 1] /\ i + 1 \in 1..Len(air)
  BY <1>1, Reading
<1>3. c \in Users /\ Unread(c)
  BY <1>1, <1>2 DEF Packet, Unread
<1>4. state[c] = "waiting" /\ pending = c
  BY <1>1, <1>3 DEF LInv, UnreadAwaited
<1>5. reply' = [reply EXCEPT ![c] = c]
  BY <1>3, <1>4, Members DEF ReadReply
<1>6. /\ reply' \in [Users -> Users \cup {NoCall}]
      /\ reply'[c] = c /\ \A d \in Users : d # c => reply'[d] = reply[d]
  BY <1>1, <1>3, <1>5 DEF TypeOK
<1>7. TypeOK'
  BY <1>1, <1>2, <1>6 DEF TypeOK, ReadReply, open, discovery
<1>8. wire' = <<>> /\ Len(wire') = 0 /\ \A i \in 1..Len(air') : air'[i].kind # "reply"
  <2>1. \A j \in 1..Len(air) : air[j].kind = "reply" => j = 1
    BY <1>1, <1>2 DEF LInv, OneOutstanding, OneUnread
  <2>2. wire = <<>>
    BY <1>1, <1>2 DEF LInv, OneOutstanding, OneUnread
  <2>3. ASSUME NEW i \in 1..Len(air') PROVE air'[i].kind # "reply"
    <3>1. air'[i] = air[i + 1] /\ i + 1 \in 1..Len(air) /\ i + 1 # 1
      BY <1>2
    <3>2. QED BY <2>1, <3>1
  <2>4. QED BY <2>2, <2>3, EmptySeq DEF ReadReply
<1>9. OneOutstanding'
  <2>1. OneUnread'
    BY <1>8 DEF OneUnread
  <2>2. QED BY <1>1, <1>7, <2>1, Members DEF LInv, OneOutstanding, ReadReply, InFlight, Holds
<1>10. UnreadAwaited'
  <2>1. \A d \in Users : ~Unread(d)'
    BY <1>8 DEF Unread
  <2>2. \A d \in Users : state[d] # "sending"
    BY <1>1, <1>4 DEF LInv, UnreadAwaited
  <2>3. QED BY <2>1, <2>2 DEF UnreadAwaited, ReadReply
<1>11. NotYetReplied'
  <2> SUFFICES ASSUME NEW d \in Users, state[d] \in {"new", "queued"}
               PROVE  reply'[d] = NoCall
    BY <1>1, Members DEF NotYetReplied, ReadReply
  <2>1. d # c
    BY <1>4
  <2>2. QED BY <1>6, <2>1 DEF LInv, NotYetReplied
<1>12. NoCrossedReply'
  BY <1>6 DEF LInv, NoCrossedReply
<1>13. QED BY <1>9, <1>10, <1>11, <1>12 DEF LInv

LEMMA ReadingNotification ==
  ASSUME LInv, NEW kind \in {"notification", "indication"}, ReadNotification(kind)
  PROVE  LInv'
<1>1. /\ TypeOK /\ air # <<>> /\ air' = Tail(air) /\ UNCHANGED local /\ UNCHANGED wire
      /\ kind # "reply" /\ air[1].kind = kind
  BY DEF LInv, OneOutstanding, ReadNotification, Reads
<1>2. /\ air' \in Seq(Packet) /\ air[1] \in Packet /\ Len(air) \in Nat
      /\ \A i \in 1..Len(air') : air'[i] = air[i + 1] /\ i + 1 \in 1..Len(air)
  BY <1>1, Reading
<1>3. TypeOK'
  <2>1. missed' \subseteq Calls
    <3>1. kind # "reply" /\ missed' = missed \cup ({air[1].of} \ sinks)
      BY <1>1 DEF ReadNotification
    <3>2. air[1].of \in Calls
      BY <1>1, <1>2 DEF Packet
    <3>3. QED BY <1>1, <3>1, <3>2 DEF TypeOK
  <2>2. QED BY <1>1, <1>2, <2>1 DEF TypeOK, ReadNotification, local, open, discovery
<1>4. ASSUME NEW d \in Users, Unread(d)' PROVE Unread(d)
  BY <1>1, <1>2, <1>4 DEF Unread
<1>5. OneOutstanding'
  <2>1. ASSUME OneUnread PROVE OneUnread'
    <3> SUFFICES ASSUME NEW i \in 1..Len(air'), air'[i].kind = "reply"
                 PROVE  wire = <<>> /\ \A j \in 1..Len(air') : air'[j].kind = "reply" => j = i
      BY <1>1, <2>1 DEF OneUnread
    <3>1. air[i + 1].kind = "reply" /\ i + 1 \in 1..Len(air)
      BY <1>2
    <3>2. wire = <<>> /\ \A j \in 1..Len(air) : air[j].kind = "reply" => j = i + 1
      BY <2>1, <3>1 DEF OneUnread
    <3>3. ASSUME NEW j \in 1..Len(air'), air'[j].kind = "reply" PROVE j = i
      <4>1. air[j + 1].kind = "reply" /\ j + 1 \in 1..Len(air)
        BY <1>2, <3>3
      <4>2. QED BY <3>2, <4>1
    <3>4. QED BY <3>2, <3>3
  <2>2. QED BY <1>1, <1>3, <2>1 DEF LInv, OneOutstanding, InFlight, Holds, local
<1>6. UnreadAwaited'
  BY <1>1, <1>4 DEF LInv, UnreadAwaited, local
<1>7. QED BY <1>1, <1>5, <1>6 DEF LInv, NotYetReplied, NoCrossedReply, local

LEMMA Answering ==
  ASSUME LInv, Answer
  PROVE  LInv'
<1> DEFINE c == wire[1]
           answer == [kind |-> "reply", of |-> c]
<1>1. /\ TypeOK /\ wire # <<>> /\ wire' = Tail(wire) /\ UNCHANGED local
      /\ air' = Append(air, answer)
  BY DEF LInv, OneOutstanding, Answer
<1>2. /\ wire' \in Seq(Users) /\ Len(wire') = Len(wire) - 1 /\ Len(wire) \in Nat
      /\ \A i \in 1..Len(wire') : wire'[i] = wire[i + 1]
      /\ 1 \in 1..Len(wire) /\ c \in Users
  <2>1. wire \in Seq(Users)
    BY <1>1 DEF TypeOK
  <2>2. 1 \in 1..Len(wire) /\ Len(wire) \in Nat
    BY <1>1, <2>1, EmptySeq
  <2>3. QED BY <1>1, <2>1, <2>2, HeadTailProperties, ElementOfSeq
<1>3. answer \in Packet
  BY <1>2 DEF Packet
<1> DEFINE n == Len(air)
<1>4. /\ air' \in Seq(Packet) /\ n \in Nat /\ Len(air') = n + 1
      /\ \A i \in 1..n : air'[i] = air[i]
      /\ air'[n + 1] = answer
  BY <1>1, <1>3, AppendProperties, LenProperties DEF TypeOK
<1>5. TypeOK'
  <2>1. enabled' \subseteq Calls
    BY <1>1 DEF Answer, TypeOK
  <2>2. QED BY <1>1, <1>2, <1>4, <2>1 DEF TypeOK, Answer, local, open, discovery
<1>6. ASSUME NEW d \in Users, Unread(d)' PROVE Unread(d)
  <2>1. CASE \E i \in 1..Len(wire') : wire'[i] = d
    <3>1. PICK i \in 1..Len(wire') : wire'[i] = d
      BY <2>1
    <3>2. i + 1 \in 1..Len(wire) /\ wire[i + 1] = d
      BY <1>2, <3>1
    <3>3. QED BY <3>2 DEF Unread
  <2>2. CASE \E i \in 1..Len(air') : air'[i].kind = "reply" /\ air'[i].of = d
    <3>1. PICK i \in 1..Len(air') : air'[i].kind = "reply" /\ air'[i].of = d
      BY <2>2
    <3>2. CASE i \in 1..n
      BY <1>4, <3>1, <3>2 DEF Unread
    <3>3. CASE i = n + 1
      BY <1>2, <1>4, <3>1, <3>3 DEF Unread
    <3>4. QED BY <1>4, <3>2, <3>3
  <2>3. QED BY <1>6, <2>1, <2>2 DEF Unread
<1>7. ASSUME OneUnread PROVE OneUnread'
  <2>1. Len(wire) = 1 /\ \A i \in 1..n : air[i].kind # "reply"
    BY <1>1, <1>2, <1>7 DEF OneUnread
  <2>2. wire' = <<>> /\ Len(wire') = 0
    BY <1>2, <2>1, EmptySeq
  <2>3. \A i \in 1..Len(air') : air'[i].kind = "reply" => i = n + 1
    BY <1>4, <2>1
  <2>4. QED BY <2>2, <2>3 DEF OneUnread
<1>8. OneOutstanding'
  BY <1>1, <1>5, <1>7 DEF LInv, OneOutstanding, InFlight, Holds, local
<1>9. UnreadAwaited'
  BY <1>1, <1>6 DEF LInv, UnreadAwaited, local
<1>10. QED BY <1>1, <1>8, <1>9 DEF LInv, NotYetReplied, NoCrossedReply, local

LEMMA Notified ==
  ASSUME LInv, NEW c \in Calls, NEW kind \in {"notification", "indication"}, Notify(c, kind)
  PROVE  LInv'
<1> DEFINE packet == [kind |-> kind, of |-> c]
           n == Len(air)
<1>1. /\ TypeOK /\ UNCHANGED local /\ UNCHANGED wire
      /\ air' = Append(air, packet)
  BY DEF LInv, OneOutstanding, Notify
<1>2. packet \in Packet /\ packet.kind # "reply"
  BY Members DEF Packet
<1>3. /\ air' \in Seq(Packet) /\ n \in Nat /\ Len(air') = n + 1
      /\ \A i \in 1..n : air'[i] = air[i]
      /\ air'[n + 1] = packet
  BY <1>1, <1>2, AppendProperties, LenProperties DEF TypeOK
<1> HIDE DEF packet
<1>4. TypeOK'
  BY <1>1, <1>3 DEF TypeOK, Notify, local, open, discovery
<1>5. \A i \in 1..Len(air') : air'[i].kind = "reply" => i \in 1..n /\ air'[i] = air[i]
  BY <1>2, <1>3
<1>6. ASSUME NEW d \in Users, Unread(d)' PROVE Unread(d)
  BY <1>1, <1>5, <1>6 DEF Unread
<1>7. OneUnread => OneUnread'
  BY <1>1, <1>5 DEF OneUnread
<1>8. OneOutstanding'
  BY <1>1, <1>4, <1>7 DEF LInv, OneOutstanding, InFlight, Holds, local
<1>9. UnreadAwaited'
  BY <1>1, <1>6 DEF LInv, UnreadAwaited, local
<1>10. QED BY <1>1, <1>8, <1>9 DEF LInv, NotYetReplied, NoCrossedReply, local

-----------------------------------------------------------------------------
(* All actions together, and the discovery under them. *)

LEMMA LinkInitially ==
  Init => LInv
<1> SUFFICES ASSUME Init PROVE LInv
  OBVIOUS
<1>1. /\ <<>> \in Seq(Users) /\ <<>> \in Seq(Packet) /\ Len(<<>>) = 0
  BY EmptySeq
<1>2. TypeOK
  BY <1>1 DEF Init, TypeOK, CallStates
<1>3. \A c \in Users : state[c] = "new" /\ reply[c] = NoCall /\ ~Unread(c) /\ pending # c
  BY <1>1, Members DEF Init, Unread
<1>4. OneUnread
  BY <1>1 DEF Init, OneUnread
<1>5. QED BY <1>2, <1>3, <1>4 DEF LInv, OneOutstanding, NoCrossedReply, UnreadAwaited,
                                  NotYetReplied, InFlight

LEMMA LinkStep ==
  LInv /\ [Next]_vars => LInv'
<1> SUFFICES ASSUME LInv, [Next]_vars PROVE LInv'
  OBVIOUS
<1>1. TypeOK /\ Opener \in Users /\ Calls \subseteq Users
  BY Members DEF LInv, OneOutstanding
<1>2. CASE BeginRequest
  BY <1>1, <1>2, Queueing DEF BeginRequest, TypeOK
<1>3. CASE ReceiveResponse
  BY <1>1, <1>3, Receiving DEF ReceiveResponse
<1>4. CASE Opened \/ OpenFails
  BY <1>4, Opening
<1>5. ASSUME NEW c \in Calls, Begin(c) PROVE LInv'
  <2>1. sinks' \subseteq Calls
    BY <1>1, <1>5 DEF Begin, TypeOK
  <2>2. QED BY <1>1, <1>5, <2>1, Queueing DEF Begin
<1>6. ASSUME NEW c \in Users, Lock(c) PROVE LInv'
  BY <1>6, Locking
<1>7. ASSUME NEW c \in Users, Send(c) PROVE LInv'
  BY <1>7, Sending
<1>8. ASSUME NEW c \in Users, Receive(c) PROVE LInv'
  BY <1>8, Receiving DEF Receive, open
<1>9. ASSUME NEW c \in Users, Reject(c) \/ Fail(c) PROVE LInv'
  <2>1. /\ InFlight(c) /\ queue' = Tail(queue) /\ Close /\ Gone(c) /\ Become(c, "failed")
        /\ UNCHANGED <<reply, sinks, closer, peer>>
    BY <1>9 DEF Reject, Fail, Replied, InFlight
  <2>2. /\ opening' \in {"running", "open", "failed"}
        /\ reader' \in {"recv", "confirm", "ended"}
    BY <1>1, <2>1 DEF Gone, TypeOK, open
  <2>3. QED BY <2>1, <2>2, ClosingCall
<1>10. ASSUME NEW c \in Users, DropQueued(c) PROVE LInv'
  BY <1>10, Dropping
<1>11. CASE ReadReply
  BY <1>11, ReadingReply
<1>12. ASSUME NEW kind \in {"notification", "indication"}, ReadNotification(kind) PROVE LInv'
  BY <1>12, ReadingNotification
<1>13. CASE Confirm \/ Joined
  <2>1. TypeOK'
    BY <1>1, <1>13 DEF TypeOK, Confirm, Joined, local, peer, open
  <2>2. QED BY <1>13, <2>1, Quiet DEF Confirm, Joined, local, peer
<1>14. CASE ReaderEnds \/ CloseLink
  <2>1. TypeOK'
    BY <1>1, <1>14 DEF TypeOK, ReaderEnds, CloseLink, Close, peer, open
  <2>2. QED BY <1>14, <2>1, Closing DEF ReaderEnds, CloseLink
<1>15. CASE Answer
  BY <1>15, Answering
<1>16. ASSUME NEW c \in Calls, NEW kind \in {"notification", "indication"}, Notify(c, kind)
       PROVE  LInv'
  BY <1>16, Notified
<1>17. CASE UNCHANGED vars
  <2>1. TypeOK'
    BY <1>1, <1>17 DEF TypeOK, vars, local, peer, open
  <2>2. QED BY <1>17, <2>1, Quiet DEF vars, local, peer
<1>18. QED
  BY <1>2, <1>3, <1>4, <1>5, <1>6, <1>7, <1>8, <1>9, <1>10, <1>11, <1>12, <1>13, <1>14,
     <1>15, <1>16, <1>17 DEF Next

LEMMA LinkInvariant ==
  Spec => []LInv
  BY LinkInitially, LinkStep, PTL DEF Spec

\* Every step of the link is one of the discovery, or leaves it alone.
LEMMA StepOfDiscovery ==
  [Next]_vars => [DiscoveryNext]_discovery
<1> SUFFICES ASSUME [Next]_vars PROVE DiscoveryNext \/ UNCHANGED discovery
  OBVIOUS
<1>1. CASE ReceiveResponse
  BY <1>1 DEF ReceiveResponse, DiscoveryNext
<1>2. CASE Opened \/ OpenFails
  BY <1>2 DEF Opened, OpenFails, Gone, DiscoveryNext
<1>3. ASSUME NEW c \in Users, Reject(c) \/ Fail(c)
      PROVE  DiscoveryNext \/ UNCHANGED discovery
  BY <1>3 DEF Reject, Fail, Gone, DiscoveryNext, open
<1>4. CASE UNCHANGED open
  BY <1>4 DEF open
<1>5. BeginRequest \/ ReadReply \/ Confirm \/ ReaderEnds \/ CloseLink \/ Joined \/ Answer
        => UNCHANGED open
  BY DEF BeginRequest, ReadReply, Confirm, ReaderEnds, CloseLink, Joined, Answer
<1>6. \A c \in Calls : Begin(c) => UNCHANGED open
  BY DEF Begin
<1>7. \A c \in Users : Lock(c) \/ Send(c) \/ Receive(c) \/ DropQueued(c) => UNCHANGED open
  BY DEF Lock, Send, Receive, DropQueued
<1>8. \A kind : ReadNotification(kind) => UNCHANGED open
  BY DEF ReadNotification
<1>9. \A c, kind : Notify(c, kind) => UNCHANGED open
  BY DEF Notify
<1>10. UNCHANGED vars => UNCHANGED open
  BY DEF vars
<1>11. QED BY <1>1, <1>2, <1>3, <1>4, <1>5, <1>6, <1>7, <1>8, <1>9, <1>10 DEF Next

-----------------------------------------------------------------------------
(* Sinks. *)

\* Whoever is being enabled, is enabled or has been notified of has a sink.
SinksFirst ==
  /\ \A c \in Calls : state[c] # "new" => c \in sinks
  /\ \A i \in 1..Len(wire) : wire[i] \in Calls => wire[i] \in sinks
  /\ enabled \subseteq sinks
  /\ \A i \in 1..Len(air) : air[i].kind # "reply" => air[i].of \in sinks
  /\ missed = {}

LEMMA SinksStep ==
  LInv /\ SinksFirst /\ [Next]_vars => SinksFirst'
<1> SUFFICES ASSUME LInv, SinksFirst, [Next]_vars PROVE SinksFirst'
  OBVIOUS
<1>1. /\ TypeOK /\ wire \in Seq(Users) /\ air \in Seq(Packet)
      /\ Len(wire) \in Nat /\ Len(air) \in Nat
  BY LenProperties DEF LInv, OneOutstanding, TypeOK
<1>2. ASSUME UNCHANGED <<sinks, peer>>,
             \A c \in Calls : state'[c] # "new" => state[c] # "new"
      PROVE  SinksFirst'
  BY <1>2 DEF SinksFirst, peer
<1>3. ASSUME NEW c \in Users, NEW s, Become(c, s), c = Opener \/ state[c] # "new"
      PROVE  \A d \in Calls : state'[d] # "new" => state[d] # "new"
  BY <1>1, <1>3, Members, AttLinkAssumption DEF Become, TypeOK
<1>4. CASE BeginRequest \/ ReceiveResponse \/ Opened \/ OpenFails
  <2>1. Become(Opener, "queued") \/ Become(Opener, "new") \/ Become(Opener, "ok")
          \/ Become(Opener, "failed")
    BY <1>4 DEF BeginRequest, ReceiveResponse, Opened, OpenFails
  <2>2. UNCHANGED <<sinks, peer>>
    BY <1>4 DEF BeginRequest, ReceiveResponse, Opened, OpenFails
  <2>3. \A d \in Calls : state'[d] # "new" => state[d] # "new"
    BY <1>3, <2>1, Members
  <2>4. QED BY <1>2, <2>2, <2>3
<1>5. ASSUME NEW c \in Calls, Begin(c) PROVE SinksFirst'
  <2>1. /\ sinks' = sinks \cup {c} /\ UNCHANGED peer
        /\ \A d \in Calls : d # c => state'[d] = state[d]
    BY <1>1, <1>5, Members DEF Begin, Become, TypeOK
  <2>2. QED BY <2>1 DEF SinksFirst, peer
<1>6. ASSUME NEW c \in Users, Lock(c) \/ Receive(c) \/ Reject(c) \/ Fail(c) \/ DropQueued(c)
      PROVE  SinksFirst'
  <2>1. \E s : Become(c, s)
    BY <1>6 DEF Lock, Receive, Reject, Fail, DropQueued
  <2>2. state[c] # "new" /\ UNCHANGED <<sinks, peer>>
    BY <1>6 DEF Lock, Receive, Reject, Fail, DropQueued, Replied, InFlight
  <2>3. QED BY <1>2, <1>3, <2>1, <2>2
<1>7. ASSUME NEW c \in Users, Send(c) PROVE SinksFirst'
  <2>1. /\ wire' = Append(wire, c) /\ UNCHANGED <<sinks, enabled, missed, air>>
        /\ state[c] = "sending" /\ Become(c, "waiting")
    BY <1>7 DEF Send
  <2>2. \A d \in Calls : state'[d] # "new" => state[d] # "new"
    BY <1>3, <2>1
  <2>3. /\ Len(wire') = Len(wire) + 1 /\ wire'[Len(wire) + 1] = c
        /\ \A i \in 1..Len(wire) : wire'[i] = wire[i]
    BY <1>1, <2>1, AppendProperties
  <2>4. c \in Calls => c \in sinks
    BY <2>1 DEF SinksFirst
  <2>5. \A i \in 1..Len(wire') : wire'[i] \in Calls => wire'[i] \in sinks
    BY <1>1, <2>3, <2>4 DEF SinksFirst
  <2>6. QED BY <2>1, <2>2, <2>5 DEF SinksFirst
<1>8. ASSUME air # <<>>, air' = Tail(air), UNCHANGED <<state, sinks, wire, enabled>>,
             missed' = missed
      PROVE  SinksFirst'
  <2>1. \A i \in 1..Len(air') : air'[i] = air[i + 1] /\ i + 1 \in 1..Len(air)
    BY <1>1, <1>8, Reading
  <2>2. QED BY <1>8, <2>1 DEF SinksFirst
<1>9. CASE ReadReply
  BY <1>8, <1>9 DEF ReadReply, Reads
<1>10. ASSUME NEW kind \in {"notification", "indication"}, ReadNotification(kind)
       PROVE  SinksFirst'
  <2>1. air # <<>> /\ air[1].kind # "reply" /\ 1 \in 1..Len(air)
    BY <1>1, <1>10, EmptySeq DEF ReadNotification, Reads
  <2>2. air[1].of \in sinks
    BY <2>1 DEF SinksFirst
  <2>3. missed' = missed
    BY <1>10, <2>2 DEF ReadNotification
  <2>4. QED BY <1>8, <1>10, <2>1, <2>3 DEF ReadNotification, local
<1>11. CASE Confirm \/ ReaderEnds \/ CloseLink \/ Joined
  BY <1>2, <1>11 DEF Confirm, ReaderEnds, CloseLink, Joined, local
<1>12. CASE Answer
  <2> DEFINE answer == [kind |-> "reply", of |-> wire[1]]
  <2>1. /\ wire # <<>> /\ wire' = Tail(wire) /\ UNCHANGED <<state, sinks, missed>>
        /\ air' = Append(air, answer) /\ enabled' = enabled \cup ({wire[1]} \cap Calls)
    BY <1>12 DEF Answer, local
  <2>2. /\ 1 \in 1..Len(wire) /\ wire[1] \in Users
        /\ \A i \in 1..Len(wire') : wire'[i] = wire[i + 1] /\ i + 1 \in 1..Len(wire)
    <3>1. 1 \in 1..Len(wire)
      BY <1>1, <2>1, EmptySeq
    <3>2. Len(wire') = Len(wire) - 1 /\ \A i \in 1..Len(wire') : wire'[i] = wire[i + 1]
      BY <1>1, <2>1, HeadTailProperties
    <3>3. QED BY <1>1, <3>1, <3>2, ElementOfSeq
  <2>3. answer \in Packet /\ answer.kind = "reply"
    BY <2>2 DEF Packet
  <2>4. /\ Len(air') = Len(air) + 1 /\ air'[Len(air) + 1] = answer
        /\ \A i \in 1..Len(air) : air'[i] = air[i]
    BY <1>1, <2>1, <2>3, AppendProperties
  <2> HIDE DEF answer
  <2>5. \A i \in 1..Len(air') : air'[i].kind # "reply" => air'[i].of \in sinks
    BY <1>1, <2>3, <2>4 DEF SinksFirst
  <2>6. QED BY <2>1, <2>2, <2>5 DEF SinksFirst
<1>13. ASSUME NEW c \in Calls, NEW kind \in {"notification", "indication"}, Notify(c, kind)
       PROVE  SinksFirst'
  <2> DEFINE packet == [kind |-> kind, of |-> c]
  <2>1. /\ c \in enabled /\ air' = Append(air, packet)
        /\ UNCHANGED <<state, sinks, wire, enabled, missed>>
    BY <1>13 DEF Notify, local
  <2>2. packet \in Packet /\ packet.of = c
    BY DEF Packet
  <2>3. /\ Len(air') = Len(air) + 1 /\ air'[Len(air) + 1] = packet
        /\ \A i \in 1..Len(air) : air'[i] = air[i]
    BY <1>1, <2>1, <2>2, AppendProperties
  <2> HIDE DEF packet
  <2>4. \A i \in 1..Len(air') : air'[i].kind # "reply" => air'[i].of \in sinks
    BY <1>1, <2>1, <2>2, <2>3 DEF SinksFirst
  <2>5. QED BY <2>1, <2>4 DEF SinksFirst
<1>14. CASE UNCHANGED vars
  BY <1>2, <1>14 DEF vars, local
<1>15. QED
  BY <1>4, <1>5, <1>6, <1>7, <1>9, <1>10, <1>11, <1>12, <1>13, <1>14 DEF Next

-----------------------------------------------------------------------------
\* No call gets the reply of another, although replies carry no tag, calls are
\* dropped or time out at any step, and the peer answers as late as it likes.
THEOREM RepliesNeverCross == Spec => []NoCrossedReply
<1>1. LInv => NoCrossedReply
  BY DEF LInv
<1>2. QED BY <1>1, LinkInvariant, PTL

\* One call at a time holds the lock, only it may be handed a reply, and while the
\* link is open at most one request or reply is on its way.
THEOREM TransactionsAreSequential == Spec => []OneOutstanding
<1>1. LInv => OneOutstanding
  BY DEF LInv
<1>2. QED BY <1>1, LinkInvariant, PTL

\* Opening a link takes only steps of the discovery.
LEMMA LinkDiscovers == Spec => DiscoverySpec
<1>1. Init => DiscoveryInit
  BY DEF Init
<1>2. QED BY <1>1, StepOfDiscovery, PTL DEF Spec, DiscoverySpec

\* So what is proved of the discovery holds while a link is opened, whatever the
\* peer answers and whenever open is dropped or the link closes.
THEOREM OpenStaysBounded == Spec => []HandlesBounded /\ Advances
  BY LinkDiscovers, DiscoveryStaysBounded, DiscoveryAdvances, PTL

\* The sink of a characteristic is in place before the peer can notify it.
THEOREM NotificationsFindTheirSink == Spec => []NoNotificationMissed
<1>1. Init => SinksFirst
  <2>1. Len(<<>>) = 0
    BY EmptySeq
  <2>2. QED BY <2>1, Members DEF Init, SinksFirst
<1>2. Spec => []SinksFirst
  BY <1>1, LinkInvariant, SinksStep, PTL DEF Spec
<1>3. SinksFirst => NoNotificationMissed
  BY DEF SinksFirst, NoNotificationMissed
<1>4. QED BY <1>2, <1>3, PTL
=============================================================================
