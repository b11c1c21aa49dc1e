------------------------------ MODULE Discovery ------------------------------
(***************************************************************************)
(* The discovery of a GATT server (proto/att.rs): which request comes      *)
(* next, and what its response adds.  It asks for the MTU, the primary     *)
(* services, the characteristics of each service, and the descriptors of   *)
(* each characteristic that notifies, until it meets the one that enables  *)
(* its notifications, the CCCD.                                            *)
(*                                                                         *)
(* The peer is not trusted: a response may hold any entries.  Entries that *)
(* break the order or the range that was asked for end the discovery.      *)
(* Abstracted: encodings and sizes, the UUIDs of the services, the value   *)
(* of the MTU.                                                             *)
(***************************************************************************)
EXTENDS Naturals, Sequences, SequencesExt

CONSTANTS MaxHandle,    \* handles are 0 .. MaxHandle, 16 bits in the code
          Kinds,        \* the characteristics the bridge requires
          Notifying,    \* those of them it subscribes to
          Unknown,      \* any other characteristic
          MaxEntries    \* bound on the entries of a response

ASSUME DiscoveryAssumption ==
  /\ MaxHandle \in Nat \ {0} /\ MaxEntries \in Nat \ {0}
  /\ Notifying \subseteq Kinds /\ Unknown \notin Kinds

VARIABLES
  stage,         \* what is asked for: at which stage, for which service (s) and
                 \* characteristic (c) of it, from which handle on
  services,      \* <<[start, end]>>
  declarations   \* of each service <<[handle, value, kind, cccd]>>, cccd 0 when
                 \* there is none yet

discovery == <<stage, services, declarations>>

Handle == 0..MaxHandle
Service == [start : Handle, end : Handle]
Entry == [handle : Handle, value : Handle, kind : Kinds \cup {Unknown}]
Declaration == [handle : Handle, value : Handle, kind : Kinds \cup {Unknown}, cccd : Handle]
Descriptor == [handle : Handle, cccd : BOOLEAN]

\* The entries of a response, one at least.
Responses(entries) == UNION {[1..n -> entries] : n \in 1..MaxEntries}

\* Handles have a fixed width: one addition saturates, the others wrap.
SaturatingSucc(h) == IF h = MaxHandle THEN h ELSE h + 1
Succ(h) == IF h = MaxHandle THEN 0 ELSE h + 1
Pred(h) == IF h = 0 THEN MaxHandle ELSE h - 1

Stage(at, s, c, start) == [at |-> at, s |-> s, c |-> c, start |-> start]

DiscoveryInit ==
  /\ stage = Stage("mtu", 0, 0, 0) /\ services = <<>> /\ declarations = <<>>

-----------------------------------------------------------------------------
(* What is asked for next. *)

\* Fault: the descriptors of a characteristic reach to the end of the service.
DescriptorEndOfService(srv, decl, s, c) == srv[s].end

\* A characteristic ends where the next one of its service is declared.
DescriptorEnd(srv, decl, s, c) ==
  IF c < Len(decl[s]) THEN Pred(decl[s][c + 1].handle) ELSE srv[s].end

Precedes(p, q) == p[1] < q[1] \/ (p[1] = q[1] /\ p[2] <= q[2])

\* Characteristics, as <<service, number>>, that may have a CCCD the bridge needs.
Wanted(srv, decl) ==
  {p \in UNION {{s} \X (1..Len(decl[s])) : s \in 1..Len(srv)} :
     LET d == decl[p[1]][p[2]]
     IN d.kind \in Notifying /\ d.value < DescriptorEnd(srv, decl, p[1], p[2])}

\* Discovery::next_descriptor: the first one wanted from number c of service s.
NextDescriptor(srv, decl, s, c) ==
  LET rest == {p \in Wanted(srv, decl) : Precedes(<<s, c>>, p)}
  IN \/ \E p \in rest :
          /\ \A q \in rest : Precedes(p, q)
          /\ stage' = Stage("descriptors", p[1], p[2], Succ(decl[p[1]][p[2]].value))
     \/ rest = {} /\ stage' = Stage("done", 0, 0, 0)

NextService(srv, decl, s) ==
  \/ s <= Len(srv) /\ stage' = Stage("characteristics", s, 0, srv[s].start)
  \/ s > Len(srv) /\ NextDescriptor(srv, decl, 1, 1)

\* All services are known.
StartServices(srv) ==
  /\ services' = srv
  /\ declarations' = [s \in 1..Len(srv) |-> <<>>]
  /\ NextService(srv, [s \in 1..Len(srv) |-> <<>>], 1)

\* The last handle that is asked for.
RequestEnd ==
  CASE stage.at = "services" -> MaxHandle
    [] stage.at = "characteristics" -> services[stage.s].end
    [] stage.at = "descriptors" -> DescriptorEnd(services, declarations, stage.s, stage.c)

-----------------------------------------------------------------------------
(* on_response *)

\* The MTU, or the error that it cannot be negotiated.
OnMtu ==
  /\ stage.at = "mtu"
  /\ stage' = Stage("services", 0, 0, 1)
  /\ UNCHANGED <<services, declarations>>

\* Services come in the order of their handles and do not overlap, but for the
\* last handle of all.
OnServices ==
  /\ stage.at = "services"
  /\ \E e \in Responses({x \in Service : stage.start <= x.start /\ x.start <= x.end}) :
       /\ \A i \in 2..Len(e) : e[i].start >= SaturatingSucc(e[i - 1].end)
       /\ \/ Last(e).end = MaxHandle /\ StartServices(services \o e)
          \/ /\ Last(e).end # MaxHandle
             /\ services' = services \o e
             /\ stage' = Stage("services", 0, 0, SaturatingSucc(Last(e).end))
             /\ UNCHANGED declarations

Declared(d) == [handle |-> d.handle, value |-> d.value, kind |-> d.kind, cccd |-> 0]

\* Fault: the next request repeats the last handle of the response.
FollowingAgain(h) == h

\* The handle the next request for characteristics begins with.
Following(h) == SaturatingSucc(h)

OnCharacteristics ==
  /\ stage.at = "characteristics"
  /\ \E e \in Responses({x \in Entry : /\ stage.start <= x.handle /\ x.handle < x.value
                                      /\ x.value <= RequestEnd}) :
       LET next == Following(Last(e).handle)
       IN /\ \A i \in 2..Len(e) : e[i].handle >= SaturatingSucc(e[i - 1].handle)
          /\ declarations' = [declarations EXCEPT
                ![stage.s] = @ \o [i \in 1..Len(e) |-> Declared(e[i])]]
          /\ \/ next >= RequestEnd /\ NextService(services, declarations', stage.s + 1)
             \/ next < RequestEnd /\ stage' = [stage EXCEPT !.start = next]
  /\ UNCHANGED services

\* h is the CCCD after the entries of a response, of which the last one counts.
Cccd(e, old, h) ==
  \/ h = old /\ \A i \in 1..Len(e) : ~e[i].cccd
  \/ \E i \in 1..Len(e) : /\ h = e[i].handle /\ e[i].cccd
                          /\ \A j \in i + 1..Len(e) : ~e[j].cccd

OnDescriptors ==
  /\ stage.at = "descriptors"
  /\ \E e \in Responses({x \in Descriptor : stage.start <= x.handle /\ x.handle <= RequestEnd}),
        h \in Handle :
       /\ \A i \in 2..Len(e) : e[i].handle > e[i - 1].handle
       /\ Cccd(e, declarations[stage.s][stage.c].cccd, h)
       /\ declarations' = [declarations EXCEPT ![stage.s][stage.c].cccd = h]
       /\ IF h # 0 \/ Last(e).handle = RequestEnd
          THEN NextDescriptor(services, declarations', stage.s, stage.c + 1)
          ELSE stage' = [stage EXCEPT !.start = Succ(Last(e).handle)]
  /\ UNCHANGED services

\* The error that no attribute is left in the range.
OnEnd ==
  \/ stage.at = "services" /\ StartServices(services)
  \/ /\ stage.at = "characteristics"
     /\ NextService(services, declarations, stage.s + 1)
     /\ UNCHANGED <<services, declarations>>
  \/ /\ stage.at = "descriptors"
     /\ NextDescriptor(services, declarations, stage.s, stage.c + 1)
     /\ UNCHANGED <<services, declarations>>

\* A response that is accepted; any other is an error, and the discovery is over.
OnResponse == OnMtu \/ OnServices \/ OnCharacteristics \/ OnDescriptors \/ OnEnd

\* The discovery is dropped: open failed, or has taken the handles from it.
Forget ==
  /\ stage' = Stage("done", 0, 0, 0)
  /\ services' = <<>> /\ declarations' = <<>>

DiscoveryNext == OnResponse \/ Forget

DiscoverySpec == DiscoveryInit /\ [][DiscoveryNext]_discovery

\* Discovery::finish takes the first declaration of each kind.
First(k, d) ==
  \E s \in 1..Len(services) : \E c \in 1..Len(declarations[s]) :
    /\ declarations[s][c] = d /\ d.kind = k
    /\ \A t \in 1..Len(services) : \A b \in 1..Len(declarations[t]) :
         declarations[t][b].kind = k => Precedes(<<s, c>>, <<t, b>>)

Finished ==
  /\ stage.at = "done"
  /\ \A k \in Kinds : \E s \in 1..Len(services) : \E c \in 1..Len(declarations[s]) :
       /\ First(k, declarations[s][c])
       /\ k \in Notifying => declarations[s][c].cccd # 0

-----------------------------------------------------------------------------
DiscoveryTypeOK ==
  /\ stage \in [at : {"mtu", "services", "characteristics", "descriptors", "done"},
                s : Nat, c : Nat, start : Handle]
  /\ services \in Seq(Service)
  /\ declarations \in Seq(Seq(Declaration))

\* "Handles are always bounded by their primary service": whatever the peer
\* answers, a value lies between its declaration and the end of the service, and
\* its CCCD between the value and the next declaration.
DeclarationsBounded ==
  \A s \in 1..Len(declarations) : \A c \in 1..Len(declarations[s]) :
    LET d == declarations[s][c]
    IN /\ 0 < d.handle /\ services[s].start <= d.handle
       /\ d.handle < d.value /\ d.value <= services[s].end
       /\ d.cccd # 0 => d.value < d.cccd /\ d.cccd <= services[s].end
       /\ c < Len(declarations[s]) => LET next == declarations[s][c + 1].handle
                                     IN d.handle < next /\ d.cccd < next

\* A request asks for handles of the service it is about, at least for one: no
\* addition has passed the last handle and no subtraction the first.
RequestBounded ==
  stage.at \in {"services", "characteristics", "descriptors"} =>
    /\ 0 < stage.start /\ stage.start <= RequestEnd
    /\ stage.at # "services" => /\ services[stage.s].start <= stage.start
                                /\ RequestEnd <= services[stage.s].end

HandlesBounded == DiscoveryTypeOK /\ DeclarationsBounded /\ RequestBounded

Rank(at) == CASE at = "mtu" -> 0 [] at = "services" -> 1 [] at = "characteristics" -> 2
              [] at = "descriptors" -> 3 [] at = "done" -> 4

\* The order in which the discovery goes through the database of the peer.
Later(old, new) ==
  \/ Rank(old.at) < Rank(new.at)
  \/ old.at = new.at /\ old.s < new.s
  \/ old.at = new.at /\ old.s = new.s /\ old.c < new.c
  \/ old.at = new.at /\ old.s = new.s /\ old.c = new.c /\ old.start < new.start

\* No peer keeps the discovery busy for ever: every response that is accepted
\* moves it on, to a later stage, service, characteristic or handle, and there
\* is an end to each.
Advances == [][stage.at # "done" => Later(stage, stage')]_discovery
==============================================================================
