--------------------------- MODULE VlanTagsProofs ---------------------------
(***************************************************************************)
(* Proofs about VlanTags for all ports, tags and bounds: type correctness, *)
(* that nothing is left on the bridge that the plugin does not know, and   *)
(* that the tag an allocation puts on a port is nobody else's.             *)
(***************************************************************************)
EXTENDS VlanTags, TLAPS, WellFoundedInduction

(* The choice of a tag *)

\* A nonempty set of tags has a first one.
LEMMA FirstIn ==
  ASSUME NEW S \in SUBSET Nat, S # {}
  PROVE  First(S) \in S
<1> DEFINE less == {ss \in Nat \X Nat : ss[1] < ss[2]}
<1>1. IsWellFoundedOn(less, Nat)
  BY NatLessThanWellFounded DEF OpToRel
<1> HIDE DEF less
<1>2. PICK x \in S : \A y \in S : ~(<<y, x>> \in less)
  BY <1>1, WFMin
<1>3. \A y \in S : <<y, x>> \in less <=> y < x
  BY DEF less
<1>4. ASSUME NEW y \in S PROVE x <= y
  <2>1. x \in Nat /\ y \in Nat /\ ~(y < x)
    BY <1>2, <1>3
  <2> QED BY <2>1
<1> QED BY <1>4 DEF First

\* Every tag is a number other than 0.
LEMMA TagsArePositive == Tags \subseteq Nat /\ 0 \notin Tags
BY VlanAssumption DEF VlanAssumption

\* What the preferred range leaves are tags that are not used.
LEMMA PreferType ==
  ASSUME NEW R \in SUBSET Tags, NEW used
  PROVE  Prefer(R, used) \subseteq Tags \ used
BY DEF Prefer

\* Every kind of request prefers a range of tags.
LEMMA RangeType == \A kind : Range(kind) \subseteq Tags
BY DEF Range, Tags

-----------------------------------------------------------------------------
(* Types and the shape of a request *)

\* What every request looks like: who it is about, what is left to do, and that
\* it has chosen the tags of its ports, none of them 0, when it sets them.
Shape(r) ==
  /\ r.kind = "none" <=> r.pc = "idle"
  /\ r.kind # "none" => r.a \in Ports
  /\ IF r.kind \in Pairs THEN r.b \in Ports ELSE r.b = "none"
  /\ r.pc \in {"look", "pick", "set"} \/ r.kind = "unplug" => r.left # {} /\ r.left \subseteq Both(r)
  /\ r.pc \in {"look", "pick"} => r.want = NoTags
  /\ r.pc \notin {"idle", "look", "pick"} /\ r.kind # "unplug" => \A p \in Both(r) : r.want[p] # 0
  /\ r.kind = "unplug" => r.pc \notin {"look", "pick"}
  /\ r.pc \in {"sync", "tunnel"} => r.kind \in {"attach", "detach"}
  /\ r.pc = "sync" => r.kind = "attach"
Shaped == \A s \in Slots : Shape(req[s])

\* A counted request, restart or fault stays within its bound.
LEMMA SpentType ==
  ASSUME TypeOK, Event \/ Bare \/ Fault \/ UNCHANGED spent
  PROVE  spent' \in [event : 0..MaxEvents, bare : 0..MaxBare, fault : 0..MaxFaults]
<1>1. spent.event \in Nat /\ spent.bare \in Nat /\ spent.fault \in Nat
  BY DEF TypeOK
<1>2. CASE Event
  <2>1. spent.event + 1 \in 0..MaxEvents
    BY <1>1, <1>2, VlanAssumption DEF Event, VlanAssumption
  <2> QED BY <1>2, <2>1 DEF Event, TypeOK
<1>3. CASE Bare
  <2>1. spent.event + 1 \in 0..MaxEvents /\ spent.bare + 1 \in 0..MaxBare
    BY <1>1, <1>3, VlanAssumption DEF Bare, VlanAssumption
  <2> QED BY <1>3, <2>1 DEF Bare, TypeOK
<1>4. CASE Fault
  <2>1. spent.fault + 1 \in 0..MaxFaults
    BY <1>1, <1>4, VlanAssumption DEF Fault, VlanAssumption
  <2> QED BY <1>4, <2>1 DEF Fault, TypeOK
<1> QED BY <1>2, <1>3, <1>4 DEF TypeOK

\* An idle slot is a request with its shape.
LEMMA IdleShape == Idle \in Req /\ Shape(Idle)
<1>1. NoTags \in [Ports -> Tags \cup {0}] /\ NoEnds \in [Containers -> Tags \cup {0}]
  BY DEF NoTags, NoEnds
<1>2. Idle \in Req
  BY <1>1 DEF Idle, Req, Step, Kinds
<1> QED BY <1>2 DEF Idle, Shape, Pairs

\* One request moves on and keeps its type and shape; the others are as before.
LEMMA Moved ==
  ASSUME TypeOK, Shaped, NEW s \in Slots, NEW r \in Req, Shape(r), req' = [req EXCEPT ![s] = r]
  PROVE  req' \in [Slots -> Req] /\ Shaped'
<1>1. req \in [Slots -> Req]
  BY DEF TypeOK
<1>2. ASSUME NEW t \in Slots PROVE req'[t] \in Req /\ Shape(req'[t])
  BY <1>1, <1>2 DEF Shaped
<1> QED BY <1>1, <1>2 DEF Shaped

\* A request ends.
LEMMA EndType ==
  ASSUME TypeOK, Shaped, NEW s \in Slots, End(s)
  PROVE  req' \in [Slots -> Req] /\ Shaped' /\ lock' \in Slots \cup {"none"}
BY IdleShape, Moved DEF End, TypeOK

\* A request goes on to its next step without anything else about it changing.
LEMMA GoType ==
  ASSUME TypeOK, Shaped, NEW s \in Slots, NEW pc \in Step \ {"idle", "look", "pick"},
         req[s].pc \notin {"idle", "look", "pick"},
         pc = "set" => req[s].left # {} /\ req[s].left \subseteq Both(req[s]),
         pc \in {"sync", "tunnel"} => req[s].kind \in {"attach", "detach"},
         pc = "sync" => req[s].kind = "attach", Go(s, pc)
  PROVE  req' \in [Slots -> Req] /\ Shaped'
<1> DEFINE r == [req[s] EXCEPT !.pc = pc]
<1>1. req[s] \in Req /\ Shape(req[s])
  BY DEF TypeOK, Shaped
<1>2. r \in Req
  BY <1>1 DEF Req
<1>3. Shape(r)
  BY <1>1 DEF Req, Shape, Both
<1>4. req' = [req EXCEPT ![s] = r]
  BY DEF Go, TypeOK
<1> HIDE DEF r
<1> QED BY <1>2, <1>3, <1>4, Moved

\* A request begins with the ports it is about still to do.
LEMMA BeginType ==
  ASSUME TypeOK, Shaped, NEW s \in Slots, NEW kind \in Kinds, NEW a \in Ports,
         NEW b \in Ports \cup {"none"}, Begin(s, kind, a, b),
         IF kind \in Pairs THEN b \in Ports ELSE b = "none",
         kind = "repair" => a \in Containers /\ track[a] # 0
  PROVE  req' \in [Slots -> Req] /\ Shaped' /\ lock' \in Slots \cup {"none"}
<1> DEFINE want == IF kind = "repair" THEN [NoTags EXCEPT ![a] = track[a]] ELSE NoTags
           was == [p \in Ports |-> IF p \in {a, b} THEN bridge[p] ELSE 0]
           r == [Idle EXCEPT !.kind = kind, !.a = a, !.b = b, !.pc = FirstStep(kind),
                             !.want = want, !.was = was, !.left = {a, b} \ {"none"}]
<1>1. NoTags \in [Ports -> Tags \cup {0}] /\ "none" \notin Ports
  BY VlanAssumption DEF NoTags, VlanAssumption
<1>2. /\ want \in [Ports -> Tags \cup {0}] /\ was \in [Ports -> Tags \cup {0}]
      /\ kind # "repair" => want = NoTags
      /\ kind = "repair" => want[a] # 0
  BY <1>1 DEF TypeOK
<1>3. /\ FirstStep(kind) \in Step
      /\ kind = "unplug" => FirstStep(kind) = "note"
      /\ kind = "repair" => FirstStep(kind) = "set"
      /\ kind \notin {"unplug", "repair"} => FirstStep(kind) = "look"
  BY DEF FirstStep, Step
<1> HIDE DEF want, was
<1>4. r \in Req
  BY <1>1, <1>2, <1>3, IdleShape DEF Idle, Req
<1>5. Shape(r)
  <2>1. /\ r.kind = kind /\ r.a = a /\ r.b = b /\ r.pc = FirstStep(kind) /\ r.want = want
        /\ r.left = {a, b} \ {"none"} /\ Both(r) = {a, b} \ {"none"}
    BY DEF Idle, Both
  <2> HIDE DEF r
  <2>2. kind = "repair" => \A q \in Both(r) : q = a
    BY <2>1 DEF Pairs
  <2>3. r.left # {} /\ r.left \subseteq Both(r)
    BY <1>1, <2>1
  <2>4. /\ IF r.kind \in Pairs THEN r.b \in Ports ELSE r.b = "none"
        /\ r.kind # "none" /\ r.a \in Ports
    BY <2>1 DEF Kinds
  <2>5. CASE kind = "unplug"
    <3>1. r.kind = "unplug" /\ r.pc = "note"
      BY <1>3, <2>1, <2>5
    <3> QED BY <2>3, <2>4, <3>1 DEF Shape
  <2>6. CASE kind = "repair"
    <3>1. r.kind = "repair" /\ r.pc = "set" /\ \A q \in Both(r) : r.want[q] # 0
      BY <1>2, <1>3, <2>1, <2>2, <2>6
    <3> QED BY <2>3, <2>4, <3>1 DEF Shape
  <2>7. CASE kind \notin {"unplug", "repair"}
    <3>1. r.kind \notin {"unplug", "repair"} /\ r.pc = "look" /\ r.want = NoTags
      BY <1>2, <1>3, <2>1, <2>7
    <3> QED BY <2>3, <2>4, <3>1 DEF Shape
  <2> QED BY <2>5, <2>6, <2>7
<1>6. req' = [req EXCEPT ![s] = r]
  BY DEF Begin, want, was
<1>7. lock' \in Slots \cup {"none"}
  BY DEF Begin, TypeOK
<1> HIDE DEF r
<1> QED BY <1>4, <1>5, <1>6, <1>7, Moved

\* Every request that is asked for keeps types and shapes.
LEMMA AskType ==
  ASSUME TypeOK, Shaped, NEW s \in Slots, Ask(s)
  PROVE  TypeOK' /\ Shaped'
<1>1. ASSUME NEW p \in Containers, Plug(s, p) \/ Unplug(s, p) \/ Repair(s, p)
      PROVE  TypeOK' /\ Shaped'
  <2>1. req' \in [Slots -> Req] /\ Shaped' /\ lock' \in Slots \cup {"none"}
    BY <1>1, BeginType DEF Plug, Unplug, Repair, Kinds, Pairs, Ports
  <2>2. spent' \in [event : 0..MaxEvents, bare : 0..MaxBare, fault : 0..MaxFaults]
    BY <1>1, SpentType DEF Plug, Unplug, Repair
  <2>3. attached' \subseteq Ports
    BY <1>1 DEF Plug, Unplug, Repair, TypeOK
  <2> QED BY <1>1, <2>1, <2>2, <2>3 DEF Plug, Unplug, Repair, TypeOK
<1>2. ASSUME NEW p \in Ports, NEW k \in {"attach", "detach"}, Overlay(s, k, p)
      PROVE  TypeOK' /\ Shaped'
  <2>1. req' \in [Slots -> Req] /\ Shaped' /\ lock' \in Slots \cup {"none"}
    BY <1>2, BeginType DEF Overlay, Kinds, Pairs
  <2>2. spent' \in [event : 0..MaxEvents, bare : 0..MaxBare, fault : 0..MaxFaults]
    BY <1>2, SpentType DEF Overlay
  <2> QED BY <1>2, <2>1, <2>2 DEF Overlay, TypeOK
<1>3. ASSUME NEW p \in Ports, NEW q \in Ports, NEW k \in Pairs, Two(s, k, p, q)
      PROVE  TypeOK' /\ Shaped'
  <2>1. req' \in [Slots -> Req] /\ Shaped' /\ lock' \in Slots \cup {"none"}
    BY <1>3, BeginType DEF Two, Kinds, Pairs
  <2>2. spent' \in [event : 0..MaxEvents, bare : 0..MaxBare, fault : 0..MaxFaults]
    BY <1>3, SpentType DEF Two
  <2> QED BY <1>3, <2>1, <2>2 DEF Two, TypeOK
<1> QED BY <1>1, <1>2, <1>3 DEF Ask

\* What is on the bridge are tags.
LEMMA OnBridgeType == TypeOK => OnBridge \subseteq Tags
BY DEF TypeOK, OnBridge

\* A look at the bridge.
LEMMA LookType ==
  ASSUME TypeOK, Shaped, NEW s \in Slots, Look(s)
  PROVE  TypeOK' /\ Shaped'
<1>1. PICK seen \in {OnBridge, {}} : req' = [req EXCEPT ![s].pc = "pick", ![s].seen = seen]
  BY DEF Look
<1> DEFINE r == [req[s] EXCEPT !.pc = "pick", !.seen = seen]
<1>2. req[s] \in Req /\ Shape(req[s]) /\ req[s].pc = "look" /\ seen \subseteq Tags
  BY <1>1, OnBridgeType DEF TypeOK, Shaped, Look
<1>3. r \in Req
  BY <1>2 DEF Req, Step
<1>4. Shape(r)
  BY <1>2 DEF Req, Shape, Both
<1>5. req' = [req EXCEPT ![s] = r]
  BY <1>1 DEF TypeOK
<1> HIDE DEF r
<1>6. req' \in [Slots -> Req] /\ Shaped'
  BY <1>3, <1>4, <1>5, Moved
<1>7. spent' \in [event : 0..MaxEvents, bare : 0..MaxBare, fault : 0..MaxFaults]
  BY SpentType DEF Look
<1> QED BY <1>6, <1>7 DEF Look, TypeOK

\* A choice of tags for the ports of a request.
LEMMA ChosenType ==
  ASSUME TypeOK, Shaped, NEW s \in Slots, req[s].pc = "pick", req[s].kind # "none",
         NEW want \in [Ports -> Tags \cup {0}], \A p \in Both(req[s]) : want[p] # 0,
         req' = [req EXCEPT ![s] = [req[s] EXCEPT !.pc = "set", !.want = want]]
  PROVE  req' \in [Slots -> Req] /\ Shaped'
<1> DEFINE r == [req[s] EXCEPT !.pc = "set", !.want = want]
<1>1. req[s] \in Req /\ Shape(req[s])
  BY DEF TypeOK, Shaped
<1>2. r \in Req
  BY <1>1 DEF Req, Step
<1>3. Shape(r)
  <2>1. /\ r.kind = req[s].kind /\ r.a = req[s].a /\ r.b = req[s].b /\ r.left = req[s].left
        /\ r.pc = "set" /\ r.want = want /\ Both(r) = Both(req[s])
    BY <1>1 DEF Req, Both
  <2> HIDE DEF r
  <2> QED BY <1>1, <2>1 DEF Shape
<1> HIDE DEF r
<1> QED BY <1>2, <1>3, Moved DEF r

\* Choosing one tag, with the pool.
LEMMA PickOneType ==
  ASSUME TypeOK, Shaped, NEW s \in Slots, PickOne(s)
  PROVE  TypeOK' /\ Shaped'
<1>1. PICK t \in Prefer(Range(req[s].kind), Used(s)) :
        /\ pool' = pool \cup {t}
        /\ req' = [req EXCEPT ![s].pc = "set", ![s].want[req[s].a] = t]
  BY DEF PickOne
<1>2. t \in Tags
  BY <1>1, PreferType, RangeType
<1> DEFINE want == [req[s].want EXCEPT ![req[s].a] = t]
<1>3. req[s] \in Req /\ Shape(req[s]) /\ req[s].pc = "pick" /\ req[s].kind \notin Pairs
  BY DEF TypeOK, Shaped, PickOne
<1>4. req[s].kind # "none" /\ req[s].a \in Ports /\ Both(req[s]) = {req[s].a}
  BY <1>3, VlanAssumption DEF Shape, Both, VlanAssumption
<1>5. want \in [Ports -> Tags \cup {0}] /\ want[req[s].a] # 0
  BY <1>2, <1>3, <1>4, TagsArePositive DEF Req
<1>6. req' = [req EXCEPT ![s] = [req[s] EXCEPT !.pc = "set", !.want = want]]
  BY <1>1, <1>3 DEF TypeOK, Req
<1> HIDE DEF want
<1>7. req' \in [Slots -> Req] /\ Shaped'
  BY <1>3, <1>4, <1>5, <1>6, ChosenType
<1>8. pool' \subseteq Tags
  BY <1>1, <1>2 DEF TypeOK
<1> QED BY <1>7, <1>8 DEF PickOne, TypeOK

\* Choosing tags for two ports, without the pool.
LEMMA PickTwoType ==
  ASSUME TypeOK, Shaped, NEW s \in Slots, PickTwo(s)
  PROVE  TypeOK' /\ Shaped'
<1> DEFINE r == req[s]
           one == Prefer(Range(r.kind), r.seen)
           two == IF r.kind = "connect" THEN one ELSE Prefer(Isolated, r.seen \cup {First(one)})
           want == [r.want EXCEPT ![r.a] = First(one), ![r.b] = First(two)]
<1>1. r \in Req /\ Shape(r) /\ r.pc = "pick" /\ r.kind \in Pairs /\ one # {} /\ two # {}
  BY DEF TypeOK, Shaped, PickTwo
<1>2. one \subseteq Tags /\ two \subseteq Tags
  BY PreferType, RangeType DEF Tags
<1>3. First(one) \in Tags /\ First(two) \in Tags
  BY <1>1, <1>2, FirstIn, TagsArePositive
<1>4. req' = [req EXCEPT ![s] = [req[s] EXCEPT !.pc = "set", !.want = want]]
  BY <1>1 DEF PickTwo, TypeOK, Req
<1> HIDE DEF one, two
<1>5. r.a \in Ports /\ r.b \in Ports /\ Both(r) = {r.a, r.b}
  BY <1>1, VlanAssumption DEF Shape, Both, VlanAssumption, Pairs
<1>6. want \in [Ports -> Tags \cup {0}] /\ \A p \in Both(r) : want[p] # 0
  BY <1>1, <1>3, <1>5, TagsArePositive DEF Req
<1> HIDE DEF want
<1>7. req' \in [Slots -> Req] /\ Shaped'
  BY <1>1, <1>4, <1>6, ChosenType DEF Pairs
<1> QED BY <1>7 DEF PickTwo, TypeOK

\* A request that finds no tag.
LEMMA PickNoneType ==
  ASSUME TypeOK, Shaped, NEW s \in Slots, PickNone(s)
  PROVE  TypeOK' /\ Shaped'
<1>1. req' \in [Slots -> Req] /\ Shaped' /\ lock' \in Slots \cup {"none"}
  BY EndType DEF PickNone, Fails
<1>2. lost' \subseteq Containers
  BY DEF PickNone, Fails, TypeOK
<1> QED BY <1>1, <1>2 DEF PickNone, TypeOK

\* The port whose turn it is is one of the request's, with a tag chosen for it.
LEMMA NextPort ==
  ASSUME TypeOK, Shaped, NEW s \in Slots, req[s].pc = "set"
  PROVE  /\ Next1(req[s]) \in Ports /\ Next1(req[s]) \in Both(req[s])
         /\ req[s].want[Next1(req[s])] \in Tags \cup {0}
         /\ req[s].kind # "unplug" => req[s].want[Next1(req[s])] # 0
         /\ req[s].kind \notin Pairs => Next1(req[s]) = req[s].a
<1> DEFINE r == req[s]
<1>1. r \in Req /\ Shape(r) /\ r.pc = "set" /\ "none" \notin Ports
  BY VlanAssumption DEF TypeOK, Shaped, VlanAssumption
<1>2. r.kind # "none" /\ r.a \in Ports /\ r.left # {} /\ r.left \subseteq Both(r)
  BY <1>1 DEF Shape
<1>3. Next1(r) \in Both(r) /\ (r.kind \notin Pairs => Next1(r) = r.a)
  BY <1>1, <1>2 DEF Next1, Both, Shape
<1>4. Next1(r) \in Ports
  BY <1>1, <1>3 DEF Both, Req
<1> QED BY <1>1, <1>3, <1>4 DEF Shape, Req

\* A port is dealt with.
LEMMA DoneType ==
  ASSUME TypeOK, Shaped, NEW s \in Slots, req[s].pc = "set", req[s].kind # "unplug",
         NEW p, Done(s, p)
  PROVE  req' \in [Slots -> Req] /\ Shaped'
<1> DEFINE left == req[s].left \ {p}
           pc == IF req[s].left = {p} THEN "note" ELSE req[s].pc
           r == [req[s] EXCEPT !.left = left, !.pc = pc]
<1>1. req[s] \in Req /\ Shape(req[s])
  BY DEF TypeOK, Shaped
<1>2. left \in SUBSET Ports /\ pc \in {"set", "note"} /\ (pc = "set" => left # {})
      /\ left \subseteq req[s].left
  BY <1>1 DEF Req, Shape
<1>3. req' = [req EXCEPT ![s] = r]
  BY <1>1 DEF Done, TypeOK, Req
<1> HIDE DEF left, pc
<1>4. r \in Req
  BY <1>1, <1>2 DEF Req, Step
<1>5. /\ r.kind = req[s].kind /\ r.a = req[s].a /\ r.b = req[s].b /\ r.left = left
      /\ r.pc = pc /\ r.want = req[s].want /\ Both(r) = Both(req[s])
  BY <1>1 DEF Req, Both
<1> HIDE DEF r
<1>6. Shape(r)
  BY <1>1, <1>2, <1>5 DEF Shape
<1> QED BY <1>3, <1>4, <1>6, Moved

\* Setting the tag of a port.
LEMMA SetPortType ==
  ASSUME TypeOK, Shaped, NEW s \in Slots, SetPort(s)
  PROVE  TypeOK' /\ Shaped'
<1>1. req' \in [Slots -> Req] /\ Shaped'
  BY DoneType DEF SetPort
<1>2. bridge' \in [Ports -> Tags \cup {0}]
  BY NextPort DEF SetPort, TypeOK
<1> QED BY <1>1, <1>2 DEF SetPort, TypeOK

\* Failing to.
LEMMA SetFailsType ==
  ASSUME TypeOK, Shaped, NEW s \in Slots, SetFails(s)
  PROVE  TypeOK' /\ Shaped'
<1> DEFINE r == req[s]
<1>1. r \in Req /\ r.pc = "set" /\ r.kind # "unplug"
  BY DEF SetFails, TypeOK
<1>2. req' \in [Slots -> Req] /\ Shaped' /\ lock' \in Slots \cup {"none"}
  <2>1. CASE r.kind = "attach" /\ Done(s, Next1(r)) /\ UNCHANGED <<lock, lost>>
    BY <1>1, <2>1, DoneType DEF TypeOK
  <2>2. CASE r.kind = "detach" /\ Go(s, "tunnel") /\ lock' = "none"
    BY <1>1, <2>2, GoType DEF Step
  <2>3. CASE Fails(s)
    BY <2>3, EndType DEF Fails
  <2> QED BY <2>1, <2>2, <2>3 DEF SetFails
<1>3. bridge' \in [Ports -> Tags \cup {0}]
  <2> DEFINE back == [bridge EXCEPT ![r.a] = IF @ = 0 THEN 0 ELSE r.was[r.a]]
  <2>1. back \in [Ports -> Tags \cup {0}]
    BY <1>1 DEF TypeOK, Req
  <2>2. bridge' = back \/ bridge' = bridge
    BY DEF SetFails
  <2> QED BY <2>1, <2>2 DEF TypeOK
<1>4. spent' \in [event : 0..MaxEvents, bare : 0..MaxBare, fault : 0..MaxFaults]
  BY SpentType DEF SetFails
<1>5. lost' \subseteq Containers
  BY DEF SetFails, Fails, TypeOK
<1> QED BY <1>2, <1>3, <1>4, <1>5 DEF SetFails, TypeOK

\* Deleting a port.
LEMMA DeletePortType ==
  ASSUME TypeOK, Shaped, NEW s \in Slots, DeletePort(s)
  PROVE  TypeOK' /\ Shaped'
<1>1. req' \in [Slots -> Req] /\ Shaped'
  BY GoType DEF DeletePort, Step
<1>2. bridge' \in [Ports -> Tags \cup {0}]
  BY DEF DeletePort, TypeOK
<1> QED BY <1>1, <1>2 DEF DeletePort, TypeOK

\* A request past its choice has a tag for each of its ports.
LEMMA WantsTag ==
  ASSUME TypeOK, Shaped, NEW s \in Slots, req[s].pc \notin {"idle", "look", "pick"},
         req[s].kind # "unplug", NEW p \in Both(req[s])
  PROVE  p \in Ports /\ req[s].want[p] \in Tags
<1>1. req[s] \in Req /\ Shape(req[s])
  BY DEF TypeOK, Shaped
<1> QED BY <1>1 DEF Req, Shape, Both

\* Telling the plugin about one port.
LEMMA NoteOneType ==
  ASSUME TypeOK, Shaped, NEW s \in Slots, NoteOne(s)
  PROVE  TypeOK' /\ Shaped'
<1> DEFINE r == req[s]
<1>1. r \in Req /\ Shape(r) /\ r.pc = "note"
  BY DEF NoteOne, TypeOK, Shaped
<1>2. req' \in [Slots -> Req] /\ Shaped' /\ lock' \in Slots \cup {"none"}
  <2>1. CASE r.kind \in {"plug", "repair", "detach"} /\ Go(s, "save") /\ UNCHANGED lock
    BY <1>1, <2>1, GoType DEF Step, TypeOK
  <2>2. CASE r.kind = "unplug" /\ Go(s, "set") /\ UNCHANGED lock
    BY <1>1, <2>2, GoType DEF Step, TypeOK, Shape
  <2>3. CASE End(s)
    BY <2>3, EndType
  <2>4. CASE r.kind = "attach" /\ Go(s, "sync") /\ UNCHANGED lock
    BY <1>1, <2>4, GoType DEF Step, TypeOK
  <2> QED BY <2>1, <2>2, <2>3, <2>4 DEF NoteOne
<1>3. track' \in [Containers -> Tags \cup {0}]
  <2>1. CASE r.kind # "unplug" /\ Record({r.a}, r)
    BY <1>1, <2>1, WantsTag DEF Record, TypeOK, Req, Ports
  <2>2. CASE track' = [track EXCEPT ![r.a] = 0] \/ track' = track
    BY <2>2 DEF TypeOK
  <2> QED BY <2>1, <2>2 DEF NoteOne
<1>4. pool' \subseteq Tags
  BY DEF NoteOne, TypeOK
<1> QED BY <1>2, <1>3, <1>4 DEF NoteOne, TypeOK

\* Telling it about two.
LEMMA NoteTwoType ==
  ASSUME TypeOK, Shaped, NEW s \in Slots, NoteTwo(s)
  PROVE  TypeOK' /\ Shaped'
<1> DEFINE r == req[s]
<1>1. r \in Req /\ Shape(r) /\ r.pc = "note" /\ r.kind \in Pairs
  BY DEF NoteTwo, TypeOK, Shaped
<1>2. req' \in [Slots -> Req] /\ Shaped'
  BY <1>1, GoType DEF NoteTwo, Step
<1>3. \A p \in Tracked(r) : r.want[p] \in Tags
  BY <1>1, WantsTag DEF Tracked, Pairs
<1>4. track' \in [Containers -> Tags \cup {0}]
  BY <1>3 DEF NoteTwo, Record, TypeOK
<1>5. pool' \subseteq Tags
  BY <1>3 DEF NoteTwo, TypeOK
<1> QED BY <1>2, <1>4, <1>5 DEF NoteTwo, TypeOK

\* Bringing the plugin into line after an attachment.
LEMMA SyncType ==
  ASSUME TypeOK, Shaped, NEW s \in Slots, Sync(s)
  PROVE  TypeOK' /\ Shaped'
<1> DEFINE r == req[s]
<1>1. r \in Req /\ Shape(r) /\ r.pc = "sync" /\ r.kind = "attach"
  BY DEF Sync, TypeOK, Shaped, Shape
<1>2. req' \in [Slots -> Req] /\ Shaped'
  BY <1>1, GoType DEF Sync, Step
<1>3. r.a \in Both(r)
  BY <1>1, VlanAssumption DEF Shape, Both, VlanAssumption
<1>4. r.want[r.a] \in Tags
  BY <1>1, <1>3, WantsTag
<1> QED BY <1>2, <1>4 DEF Sync, TypeOK

\* Saving the endpoints.
LEMMA SaveType ==
  ASSUME TypeOK, Shaped, NEW s \in Slots, Save(s)
  PROVE  TypeOK' /\ Shaped'
<1> DEFINE r == [req[s] EXCEPT !.pc = "write", !.snap = track]
<1>1. req[s] \in Req /\ Shape(req[s]) /\ req[s].pc = "save" /\ track \in [Containers -> Tags \cup {0}]
  BY DEF Save, TypeOK, Shaped
<1>2. r \in Req
  BY <1>1 DEF Req, Step
<1>3. Shape(r)
  BY <1>1 DEF Req, Shape, Both
<1>4. req' = [req EXCEPT ![s] = r]
  BY DEF Save, TypeOK
<1> HIDE DEF r
<1>5. req' \in [Slots -> Req] /\ Shaped'
  BY <1>2, <1>3, <1>4, Moved
<1> QED BY <1>5 DEF Save, TypeOK

\* The file is written.
LEMMA WriteType ==
  ASSUME TypeOK, Shaped, NEW s \in Slots, Write(s)
  PROVE  TypeOK' /\ Shaped'
<1> DEFINE r == [req[s] EXCEPT !.pc = "tunnel", !.snap = NoEnds]
<1>1. req[s] \in Req /\ Shape(req[s]) /\ req[s].pc = "write"
  BY DEF Write, TypeOK, Shaped
<1>2. req' \in [Slots -> Req] /\ Shaped' /\ lock' \in Slots \cup {"none"}
  <2>1. CASE /\ req[s].kind \in {"attach", "detach"}
             /\ req' = [req EXCEPT ![s].pc = "tunnel", ![s].snap = NoEnds] /\ lock' = "none"
    <3>1. NoEnds \in [Containers -> Tags \cup {0}]
      BY DEF NoEnds
    <3>2. r \in Req
      BY <1>1, <3>1 DEF Req, Step
    <3>3. Shape(r)
      BY <1>1, <2>1 DEF Req, Shape, Both
    <3>4. req' = [req EXCEPT ![s] = r]
      BY <2>1 DEF TypeOK
    <3> HIDE DEF r
    <3> QED BY <2>1, <3>2, <3>3, <3>4, Moved
  <2>2. CASE End(s)
    BY <2>2, EndType
  <2> QED BY <2>1, <2>2 DEF Write
<1>3. file' \in [Containers -> Tags \cup {0}]
  BY <1>1 DEF Write, Req
<1>4. attached' \subseteq Ports
  BY <1>1 DEF Write, TypeOK, Shape
<1>5. lost' \subseteq Containers
  BY DEF Write, TypeOK
<1> QED BY <1>2, <1>3, <1>4, <1>5 DEF Write, TypeOK

\* The tunnel of a link is declared or withdrawn.
LEMMA TunnelType ==
  ASSUME TypeOK, Shaped, NEW s \in Slots, Tunnel(s)
  PROVE  TypeOK' /\ Shaped'
<1>1. req' \in [Slots -> Req] /\ Shaped' /\ lock' \in Slots \cup {"none"}
  BY EndType DEF Tunnel
<1>2. req[s] \in Req
  BY DEF TypeOK
<1>3. tunnel' \in [Ports -> Tags \cup {0}]
  BY <1>2 DEF Tunnel, TypeOK, Req
<1> QED BY <1>1, <1>3 DEF Tunnel, TypeOK

\* Virtual machines come and go.
LEMMA MachineType ==
  ASSUME TypeOK, Shaped, NEW m \in Machines, Define(m) \/ Start(m) \/ Stop(m) \/ Undefine(m)
  PROVE  TypeOK' /\ Shaped'
<1>1. Shaped'
  BY DEF Define, Start, Stop, Undefine, Shaped
<1>2. spent' \in [event : 0..MaxEvents, bare : 0..MaxBare, fault : 0..MaxFaults]
  BY SpentType DEF Define, Start, Stop, Undefine
<1>3. attached' \subseteq Ports
  BY DEF Define, Start, Stop, Undefine, TypeOK, Ports
<1>4. bridge' \in [Ports -> Tags \cup {0}]
  BY DEF Define, Start, Stop, Undefine, TypeOK
<1>5. held' \in [Machines -> Tags \cup {0}]
  <2> DEFINE used == OnBridge \cup {held[n] : n \in {n \in Machines : Lab[n] = Lab[m]}}
  <2>1. CASE Define(m)
    <3>1. Isolated \ used # {} /\ Isolated \subseteq Tags
      BY <2>1 DEF Define, Tags
    <3>2. First(Isolated \ used) \in Tags
      BY <3>1, FirstIn, TagsArePositive
    <3>3. held' = [held EXCEPT ![m] = First(Isolated \ used)]
      BY <2>1 DEF Define
    <3> HIDE DEF used
    <3> QED BY <3>2, <3>3 DEF TypeOK
  <2>2. CASE Start(m) \/ Stop(m) \/ Undefine(m)
    BY <2>2 DEF Start, Stop, Undefine, TypeOK
  <2> QED BY <2>1, <2>2
<1> QED BY <1>1, <1>2, <1>3, <1>4, <1>5 DEF Define, Start, Stop, Undefine, TypeOK

\* The agent starts again.
LEMMA RestartType ==
  ASSUME TypeOK, Shaped, Restart
  PROVE  TypeOK' /\ Shaped'
<1>1. req' \in [Slots -> Req] /\ Shaped'
  BY IdleShape DEF Restart, Shaped
<1>2. spent' \in [event : 0..MaxEvents, bare : 0..MaxBare, fault : 0..MaxFaults]
  BY SpentType DEF Restart
<1>3. bridge' \in [Ports -> Tags \cup {0}]
  BY DEF Restart, TypeOK
<1>4. track' \in [Containers -> Tags \cup {0}] /\ file' \in [Containers -> Tags \cup {0}]
  BY DEF Restart, TypeOK
<1>5. pool' \subseteq Tags
  BY DEF Restart, TypeOK, Kept
<1>6. lost' \subseteq Containers
  BY DEF Restart, BareEnds
<1>7. lock' \in Slots \cup {"none"} /\ UNCHANGED <<attached, tunnel, held>>
  BY DEF Restart
<1> QED BY <1>1, <1>2, <1>3, <1>4, <1>5, <1>6, <1>7 DEF TypeOK

\* Every step keeps types and shapes.
LEMMA StepType ==
  ASSUME TypeOK, Shaped, [Next]_vars
  PROVE  TypeOK' /\ Shaped'
<1>1. ASSUME NEW s \in Slots, Work(s) PROVE TypeOK' /\ Shaped'
  BY <1>1, LookType, PickOneType, PickTwoType, PickNoneType, SetPortType, SetFailsType,
     DeletePortType, NoteOneType, NoteTwoType, SyncType, SaveType, WriteType, TunnelType
  DEF Work
<1>2. CASE UNCHANGED vars
  BY <1>2 DEF vars, TypeOK, Shaped
<1> QED BY <1>1, <1>2, AskType, MachineType, RestartType DEF Next

\* Every variable keeps its type and every request its shape.
THEOREM ShapesHold == Spec => [](TypeOK /\ Shaped)
<1>1. Init => TypeOK /\ Shaped
  BY IdleShape, VlanAssumption DEF Init, TypeOK, Shaped, NoTags, NoEnds, VlanAssumption
<1> QED BY <1>1, StepType, PTL DEF Spec

\* Every variable keeps its type: no request stores a tag it has not chosen.
THEOREM TypeCorrect == Spec => []TypeOK
<1> QED BY ShapesHold, PTL

-----------------------------------------------------------------------------
(* The plugin's lock *)

\* A request that holds the plugin's lock, by what it is and how far it has come.
Holds(r) == \/ r.kind \in Locked /\ r.pc # "tunnel"
            \/ r.kind = "attach" /\ r.pc \in {"save", "write"}
LockHeld == \A s \in Slots : Holds(req[s]) <=> lock = s

\* A step of one request keeps the lock with whoever is to hold it: nothing
\* changes about it, or the request gives it back, or takes it while it is free.
LEMMA LockMoved ==
  ASSUME TypeOK, LockHeld, NEW s \in Slots, \A t \in Slots \ {s} : req'[t] = req[t],
         \/ lock' = lock /\ (Holds(req'[s]) <=> Holds(req[s]))
         \/ ~Holds(req'[s]) /\ lock' = (IF lock = s THEN "none" ELSE lock)
         \/ Holds(req'[s]) /\ lock = "none" /\ lock' = s
  PROVE  LockHeld'
<1>1. ASSUME NEW t \in Slots PROVE Holds(req'[t]) <=> lock' = t
  <2>1. CASE t = s
    BY <2>1, VlanAssumption DEF LockHeld, VlanAssumption
  <2>2. CASE t # s
    BY <2>2, VlanAssumption DEF LockHeld, VlanAssumption
  <2> QED BY <2>1, <2>2
<1> QED BY <1>1 DEF LockHeld, Holds

\* The end of a request gives its lock back.
LEMMA LockEnds ==
  ASSUME TypeOK, LockHeld, NEW s \in Slots, End(s)
  PROVE  LockHeld'
<1>1. (\A t \in Slots \ {s} : req'[t] = req[t]) /\ req'[s] = Idle
  BY DEF End, TypeOK
<1>2. ~Holds(req'[s])
  BY <1>1 DEF Holds, Idle, Locked
<1> QED BY <1>1, <1>2, LockMoved DEF End

\* A step within the lock, or outside it, keeps it.
LEMMA LockStays ==
  ASSUME TypeOK, LockHeld, NEW s \in Slots, \A t \in Slots \ {s} : req'[t] = req[t],
         lock' = lock, req'[s].kind = req[s].kind,
         \/ req[s].pc \notin {"save", "write", "tunnel"} /\ req'[s].pc \notin {"save", "write", "tunnel"}
         \/ req[s].kind # "attach" /\ req[s].pc # "tunnel" /\ req'[s].pc # "tunnel"
         \/ req[s].pc = "save" /\ req'[s].pc = "write"
  PROVE  LockHeld'
<1>1. Holds(req'[s]) <=> Holds(req[s])
  BY DEF Holds
<1> QED BY <1>1, LockMoved

\* What a step of a request leaves: the others as they were, and the request
\* itself over or as it was but for its progress.
Progress(s) == /\ \A t \in Slots \ {s} : req'[t] = req[t]
               /\ req'[s].kind = req[s].kind /\ req'[s].a = req[s].a

\* Going on to a step.
LEMMA GoProgress ==
  ASSUME TypeOK, NEW s \in Slots, NEW pc, Go(s, pc)
  PROVE  Progress(s) /\ req'[s].pc = pc /\ req'[s].want = req[s].want /\ req'[s].seen = req[s].seen
BY DEF Go, TypeOK, Req, Progress

\* Having dealt with a port.
LEMMA DoneProgress ==
  ASSUME TypeOK, NEW s \in Slots, NEW p, Done(s, p)
  PROVE  /\ Progress(s) /\ req'[s].want = req[s].want /\ req'[s].seen = req[s].seen
         /\ req'[s].pc \in {req[s].pc, "note"}
         /\ req'[s].pc = "note" \/ req[s].left # {p}
<1> DEFINE left == req[s].left \ {p}
           pc == IF req[s].left = {p} THEN "note" ELSE req[s].pc
<1>1. req' = [req EXCEPT ![s] = [req[s] EXCEPT !.left = left, !.pc = pc]]
  BY DEF Done, TypeOK, Req
<1>2. pc \in {req[s].pc, "note"} /\ (pc = "note" \/ req[s].left # {p})
  OBVIOUS
<1> HIDE DEF left, pc
<1> QED BY <1>1, <1>2 DEF TypeOK, Req, Progress

\* Choosing tags.
LEMMA PickProgress ==
  ASSUME TypeOK, NEW s \in Slots, PickOne(s) \/ PickTwo(s)
  PROVE  Progress(s) /\ req[s].pc = "pick" /\ req'[s].pc = "set" /\ req'[s].seen = req[s].seen
<1>1. CASE PickOne(s)
  <2>1. PICK t : req' = [req EXCEPT ![s].pc = "set", ![s].want[req[s].a] = t]
    BY <1>1 DEF PickOne
  <2> DEFINE want == [req[s].want EXCEPT ![req[s].a] = t]
  <2>2. req[s] \in Req /\ req \in [Slots -> Req] /\ req[s].pc = "pick"
    BY <1>1 DEF TypeOK, PickOne
  <2>3. req' = [req EXCEPT ![s] = [req[s] EXCEPT !.pc = "set", !.want = want]]
    BY <2>1, <2>2 DEF Req
  <2> HIDE DEF want
  <2> QED BY <2>2, <2>3 DEF Req, Progress
<1>2. CASE PickTwo(s)
  <2>1. \E want : req' = [req EXCEPT ![s].pc = "set", ![s].want = want]
    BY <1>2 DEF PickTwo, TypeOK, Req
  <2>2. PICK want : req' = [req EXCEPT ![s].pc = "set", ![s].want = want]
    BY <2>1
  <2> QED BY <1>2, <2>2 DEF PickTwo, TypeOK, Req, Progress
<1> QED BY <1>1, <1>2

\* A step of a request keeps the lock with whoever is to hold it.
LEMMA WorkLock ==
  ASSUME TypeOK, Shaped, LockHeld, NEW s \in Slots, Work(s)
  PROVE  LockHeld'
<1>1. req[s] \in Req /\ Shape(req[s])
  BY DEF TypeOK, Shaped
<1>2. CASE PickNone(s) \/ Tunnel(s)
  BY <1>2, LockEnds DEF PickNone, Fails, Tunnel
<1>3. CASE Look(s)
  <2>1. Progress(s) /\ req'[s].pc = "pick" /\ req[s].pc = "look" /\ lock' = lock
    BY <1>3 DEF Look, TypeOK, Req, Progress
  <2> QED BY <2>1, LockStays DEF Progress
<1>4. CASE PickOne(s) \/ PickTwo(s)
  <2>1. lock' = lock
    BY <1>4 DEF PickOne, PickTwo
  <2> QED BY <1>4, <2>1, PickProgress, LockStays DEF Progress
<1>5. CASE SetPort(s)
  <2>1. lock' = lock /\ req[s].pc = "set" /\ \E p : Done(s, p)
    BY <1>5 DEF SetPort
  <2> QED BY <2>1, DoneProgress, LockStays DEF Progress
<1>6. CASE SetFails(s)
  <2>1. CASE req[s].kind = "attach" /\ lock' = lock /\ \E p : Done(s, p)
    <3>1. req[s].pc = "set"
      BY <1>6 DEF SetFails
    <3> QED BY <2>1, <3>1, DoneProgress, LockStays DEF Progress
  <2>2. CASE req[s].kind = "detach" /\ Go(s, "tunnel") /\ lock' = "none"
    <3>1. Progress(s) /\ req'[s].pc = "tunnel"
      BY <2>2, GoProgress
    <3>2. lock = s /\ ~Holds(req'[s])
      BY <1>6, <2>2, <3>1 DEF SetFails, LockHeld, Holds, Locked, Progress
    <3> QED BY <2>2, <3>1, <3>2, LockMoved DEF Progress
  <2>3. CASE Fails(s)
    BY <2>3, LockEnds DEF Fails
  <2> QED BY <1>6, <2>1, <2>2, <2>3 DEF SetFails
<1>7. CASE DeletePort(s)
  <2>1. req[s].kind = "unplug" /\ req[s].pc = "set" /\ Go(s, "save") /\ lock' = lock
    BY <1>7 DEF DeletePort
  <2> QED BY <2>1, GoProgress, LockStays DEF Progress
<1>8. CASE NoteOne(s)
  <2>1. CASE req[s].kind \in {"plug", "repair", "detach"} /\ Go(s, "save") /\ lock' = lock
    BY <1>8, <2>1, GoProgress, LockStays DEF Progress, NoteOne
  <2>2. CASE req[s].kind = "unplug" /\ Go(s, "set") /\ lock' = lock
    BY <1>8, <2>2, GoProgress, LockStays DEF Progress, NoteOne
  <2>3. CASE End(s)
    BY <2>3, LockEnds
  <2>4. CASE req[s].kind = "attach" /\ Go(s, "sync") /\ lock' = lock
    BY <1>8, <2>4, GoProgress, LockStays DEF Progress, NoteOne
  <2> QED BY <1>8, <2>1, <2>2, <2>3, <2>4 DEF NoteOne
<1>9. CASE NoteTwo(s)
  <2>1. req[s].kind \in Pairs /\ req[s].pc = "note" /\ Go(s, "save") /\ lock' = lock
    BY <1>9 DEF NoteTwo
  <2> QED BY <2>1, GoProgress, LockStays DEF Progress, Pairs
<1>10. CASE Sync(s)
  <2>1. req[s].kind = "attach" /\ req[s].pc = "sync" /\ lock = "none"
    BY <1>1, <1>10 DEF Sync, Shape
  <2>2. CASE Go(s, "save") /\ lock' = s
    <3>1. Progress(s) /\ req'[s].pc = "save"
      BY <2>2, GoProgress
    <3> QED BY <2>1, <2>2, <3>1, LockMoved DEF Progress, Holds
  <2>3. CASE Go(s, "tunnel") /\ lock' = lock
    <3>1. Progress(s) /\ req'[s].pc = "tunnel"
      BY <2>3, GoProgress
    <3> QED BY <2>1, <2>3, <3>1, LockMoved DEF Progress, Holds, Locked
  <2> QED BY <1>10, <2>2, <2>3 DEF Sync
<1>11. CASE Save(s)
  <2>1. Progress(s) /\ req'[s].pc = "write" /\ req[s].pc = "save" /\ lock' = lock
    BY <1>11 DEF Save, TypeOK, Req, Progress
  <2> QED BY <2>1, LockStays DEF Progress
<1>12. CASE Write(s)
  <2>1. CASE /\ req[s].kind \in {"attach", "detach"} /\ lock' = "none"
             /\ req' = [req EXCEPT ![s].pc = "tunnel", ![s].snap = NoEnds]
    <3>1. Progress(s) /\ req'[s].pc = "tunnel" /\ req[s].pc = "write"
      BY <1>12, <2>1 DEF Write, TypeOK, Req, Progress
    <3>2. lock = s /\ ~Holds(req'[s])
      BY <2>1, <3>1 DEF LockHeld, Holds, Locked, Progress
    <3> QED BY <2>1, <3>1, <3>2, LockMoved DEF Progress
  <2>2. CASE End(s)
    BY <2>2, LockEnds
  <2> QED BY <1>12, <2>1, <2>2 DEF Write
<1> QED BY <1>2, <1>3, <1>4, <1>5, <1>6, <1>7, <1>8, <1>9, <1>10, <1>11, <1>12 DEF Work

\* A request that begins has its fields, and the others are as they were.
LEMMA BeginFacts ==
  ASSUME TypeOK, NEW s \in Slots, NEW kind \in Kinds, NEW a, NEW b, Begin(s, kind, a, b)
  PROVE  /\ \A t \in Slots \ {s} : req'[t] = req[t]
         /\ req[s].pc = "idle" /\ req'[s].kind = kind /\ req'[s].a = a
         /\ req'[s].pc \in {"look", "note", "set"}
         /\ req'[s].pc # "look" => kind \in {"unplug", "repair"}
         /\ kind = "unplug" => req'[s].pc = "note"
         /\ kind # "repair" => req'[s].want = NoTags
         /\ IF kind \in Locked THEN lock = "none" /\ lock' = s ELSE lock' = lock
<1> DEFINE want == IF kind = "repair" THEN [NoTags EXCEPT ![a] = track[a]] ELSE NoTags
           was == [p \in Ports |-> IF p \in {a, b} THEN bridge[p] ELSE 0]
           r == [Idle EXCEPT !.kind = kind, !.a = a, !.b = b, !.pc = FirstStep(kind),
                             !.want = want, !.was = was, !.left = {a, b} \ {"none"}]
<1>1. req' = [req EXCEPT ![s] = r] /\ req[s].pc = "idle"
  BY DEF Begin
<1>2. FirstStep(kind) = IF kind = "unplug" THEN "note" ELSE IF kind = "repair" THEN "set" ELSE "look"
  BY DEF FirstStep
<1>3. kind # "repair" => want = NoTags
  OBVIOUS
<1> HIDE DEF want, was
<1>4. r.kind = kind /\ r.a = a /\ r.pc = FirstStep(kind) /\ r.want = want
  BY DEF Idle
<1>5. IF kind \in Locked THEN lock = "none" /\ lock' = s ELSE lock' = lock
  BY DEF Begin
<1> HIDE DEF r
<1> QED BY <1>1, <1>2, <1>3, <1>4, <1>5 DEF TypeOK

\* What is asked begins.
LEMMA AskBegins ==
  ASSUME NEW s \in Slots, Ask(s)
  PROVE  \E kind \in Kinds, a \in Ports, b \in Ports \cup {"none"} : Begin(s, kind, a, b)
BY DEF Ask, Plug, Unplug, Repair, Overlay, Two, Kinds, Pairs, Ports

\* The lock is with whoever is to hold it.
LEMMA StepLock ==
  ASSUME TypeOK, Shaped, LockHeld, [Next]_vars
  PROVE  LockHeld'
<1>1. ASSUME NEW s \in Slots, Work(s) PROVE LockHeld'
  BY <1>1, WorkLock
<1>2. ASSUME NEW s \in Slots, Ask(s) PROVE LockHeld'
  <2>1. PICK kind \in Kinds, a \in Ports, b \in Ports \cup {"none"} : Begin(s, kind, a, b)
    BY <1>2, AskBegins
  <2>2. /\ \A t \in Slots \ {s} : req'[t] = req[t]
        /\ req[s].pc = "idle" /\ req'[s].kind = kind /\ req'[s].pc \in {"look", "note", "set"}
        /\ IF kind \in Locked THEN lock = "none" /\ lock' = s ELSE lock' = lock
    BY <2>1, BeginFacts
  <2>3. ~Holds(req[s])
    BY <2>2 DEF Shaped, Shape, Holds, Locked
  <2>4. Holds(req'[s]) <=> kind \in Locked
    BY <2>2 DEF Holds
  <2> QED BY <2>2, <2>3, <2>4, LockMoved
<1>3. ASSUME NEW m \in Machines, Define(m) \/ Start(m) \/ Stop(m) \/ Undefine(m) PROVE LockHeld'
  BY <1>3 DEF Define, Start, Stop, Undefine, LockHeld
<1>4. CASE Restart
  <2>1. \A s \in Slots : req'[s] = Idle /\ lock' # s
    BY <1>4, VlanAssumption DEF Restart, VlanAssumption
  <2> QED BY <2>1 DEF LockHeld, Holds, Idle, Locked
<1>5. CASE UNCHANGED vars
  BY <1>5 DEF vars, LockHeld
<1> QED BY <1>1, <1>2, <1>3, <1>4, <1>5 DEF Next

-----------------------------------------------------------------------------
(* No port is left behind *)

\* Nobody forgets an endpoint that is being repaired.
RepairTracked == \A s \in Slots :
  req[s].kind = "repair" => req[s].a \in Containers /\ track[req[s].a] # 0

\* A port without an endpoint is being plugged or unplugged.
Passing(r) == \/ r.kind = "plug" /\ r.pc = "note"
              \/ r.kind = "unplug" /\ r.pc = "set"
StrayPassing == \A p \in Containers :
  bridge[p] # 0 /\ track[p] = 0 => \E s \in Slots : req[s].a = p /\ Passing(req[s])

StrayInv == RepairTracked /\ StrayPassing

\* A step of a request keeps who it is about, or ends it.
LEMMA WorkProgress ==
  ASSUME TypeOK, NEW s \in Slots, Work(s)
  PROVE  Progress(s) \/ ((\A t \in Slots \ {s} : req'[t] = req[t]) /\ req'[s] = Idle)
<1>1. ASSUME End(s) PROVE (\A t \in Slots \ {s} : req'[t] = req[t]) /\ req'[s] = Idle
  BY <1>1 DEF End, TypeOK
<1>2. CASE Look(s) \/ Save(s)
  BY <1>2 DEF Look, Save, TypeOK, Req, Progress
<1>3. CASE Write(s)
  <2>1. CASE req' = [req EXCEPT ![s].pc = "tunnel", ![s].snap = NoEnds]
    BY <2>1 DEF TypeOK, Req, Progress
  <2> QED BY <1>1, <1>3, <2>1 DEF Write
<1>4. CASE PickOne(s) \/ PickTwo(s)
  BY <1>4, PickProgress
<1>5. CASE SetPort(s) \/ SetFails(s)
  BY <1>1, <1>5, DoneProgress, GoProgress DEF SetPort, SetFails, Fails
<1>6. CASE DeletePort(s) \/ NoteOne(s) \/ NoteTwo(s) \/ Sync(s)
  BY <1>1, <1>6, GoProgress DEF DeletePort, NoteOne, NoteTwo, Sync
<1>7. CASE PickNone(s) \/ Tunnel(s)
  BY <1>1, <1>7 DEF PickNone, Fails, Tunnel
<1> QED BY <1>2, <1>3, <1>4, <1>5, <1>6, <1>7 DEF Work

\* Only unplugging makes the plugin forget an endpoint.
LEMMA TrackKept ==
  ASSUME TypeOK, Shaped, NEW s \in Slots, Work(s), NEW p \in Containers, track[p] # 0, track'[p] = 0
  PROVE  /\ req[s].kind = "unplug" /\ req[s].a = p /\ req[s].pc = "note" /\ Go(s, "set")
         /\ bridge' = bridge
<1>1. req[s] \in Req /\ Shape(req[s])
  BY DEF TypeOK, Shaped
<1>2. CASE NoteOne(s)
  <2>1. CASE req[s].kind \in {"plug", "repair", "detach"} /\ Record({req[s].a}, req[s])
    <3>1. p = req[s].a /\ req[s].want[p] = 0
      BY <2>1 DEF Record
    <3>2. p \in Both(req[s])
      BY <3>1, VlanAssumption DEF Both, Ports, VlanAssumption
    <3> QED BY <1>2, <2>1, <3>1, <3>2, WantsTag, TagsArePositive DEF NoteOne
  <2>2. CASE req[s].kind = "unplug" /\ track' = [track EXCEPT ![req[s].a] = 0] /\ Go(s, "set")
    BY <1>2, <2>2 DEF NoteOne, TypeOK
  <2> QED BY <1>2, <2>1, <2>2 DEF NoteOne
<1>3. CASE NoteTwo(s)
  <2>1. p \in Tracked(req[s]) /\ req[s].want[p] = 0
    BY <1>3 DEF NoteTwo, Record
  <2> QED BY <1>3, <2>1, WantsTag, TagsArePositive DEF NoteTwo, Tracked, Pairs
<1>4. CASE Sync(s)
  <2>1. p = req[s].a /\ req[s].want[p] = 0 /\ req[s].kind = "attach" /\ req[s].pc = "sync"
    BY <1>1, <1>4 DEF Sync, TypeOK, Shape
  <2>2. p \in Both(req[s])
    BY <2>1, VlanAssumption DEF Both, Ports, VlanAssumption
  <2> QED BY <2>1, <2>2, WantsTag, TagsArePositive
<1> QED BY <1>2, <1>3, <1>4
        DEF Work, Look, PickOne, PickTwo, PickNone, SetPort, SetFails, DeletePort, Save, Write,
            Tunnel

\* Only plugging and repairing make a port.
LEMMA PortMade ==
  ASSUME TypeOK, Shaped, NEW s \in Slots, Work(s), NEW p \in Containers, bridge[p] = 0, bridge'[p] # 0
  PROVE  /\ req[s].a = p /\ req[s].kind \in Makes /\ req[s].pc = "set"
         /\ SetPort(s) /\ req'[s].pc = "note" /\ Progress(s) /\ track' = track
<1>1. req[s] \in Req /\ Shape(req[s])
  BY DEF TypeOK, Shaped
<1>2. CASE SetPort(s)
  <2>1. p = Next1(req[s]) /\ req[s].kind \in Makes
    BY <1>2 DEF SetPort, TypeOK
  <2>2. req[s].pc = "set" /\ Done(s, p)
    BY <1>2, <2>1 DEF SetPort
  <2>3. req[s].left = {p}
    BY <1>1, <2>1, <2>2, NextPort DEF Shape, Both, Makes, Pairs
  <2> QED BY <1>2, <2>1, <2>2, <2>3, NextPort, DoneProgress DEF SetPort, Makes, Pairs
<1>3. CASE SetFails(s)
  <2>1. bridge' = bridge \/ bridge' = [bridge EXCEPT ![req[s].a] = IF @ = 0 THEN 0 ELSE req[s].was[req[s].a]]
    BY <1>3 DEF SetFails
  <2> QED BY <2>1 DEF TypeOK, Ports
<1>4. CASE DeletePort(s)
  BY <1>4 DEF DeletePort, TypeOK
<1> QED BY <1>2, <1>3, <1>4
        DEF Work, Look, PickOne, PickTwo, PickNone, NoteOne, NoteTwo, Sync, Save, Write, Tunnel

\* The step that takes a request out of its passing tells the plugin of the
\* endpoint, or deletes the port.
LEMMA PassingEnds ==
  ASSUME TypeOK, Shaped, NEW s \in Slots, Work(s), Passing(req[s]), NEW p \in Containers, req[s].a = p
  PROVE  bridge'[p] = 0 \/ track'[p] # 0
<1>1. req[s] \in Req /\ Shape(req[s])
  BY DEF TypeOK, Shaped
<1>2. CASE req[s].kind = "plug" /\ req[s].pc = "note"
  <2>1. NoteOne(s)
    BY <1>2 DEF Work, Look, PickOne, PickTwo, PickNone, SetPort, SetFails, DeletePort, NoteTwo, Sync,
                Save, Write, Tunnel, Pairs
  <2>2. track'[p] = req[s].want[p]
    BY <1>2, <2>1 DEF NoteOne, Record
  <2>3. p \in Both(req[s])
    BY VlanAssumption DEF Both, Ports, VlanAssumption
  <2> QED BY <1>2, <2>2, <2>3, WantsTag, TagsArePositive
<1>3. CASE req[s].kind = "unplug" /\ req[s].pc = "set"
  <2>1. DeletePort(s)
    BY <1>3 DEF Work, Look, PickOne, PickTwo, PickNone, SetPort, SetFails, NoteOne, NoteTwo, Sync,
                Save, Write, Tunnel
  <2> QED BY <2>1 DEF DeletePort, TypeOK, Ports
<1> QED BY <1>2, <1>3 DEF Passing

\* A step of a request leaves no port behind.
LEMMA WorkStray ==
  ASSUME TypeOK, Shaped, LockHeld, StrayInv, NEW s \in Slots, Work(s)
  PROVE  StrayInv'
<1>1. /\ \A t \in Slots \ {s} : req'[t] = req[t]
      /\ Progress(s) \/ req'[s] = Idle
  BY WorkProgress DEF Progress
<1>2. ASSUME NEW t \in Slots, req'[t].kind = "repair"
      PROVE  req'[t].a \in Containers /\ track'[req'[t].a] # 0
  <2>1. req[t].kind = "repair" /\ req[t].a = req'[t].a
    BY <1>1, <1>2 DEF Progress, Idle
  <2>2. req[t].a \in Containers /\ track[req[t].a] # 0
    BY <2>1 DEF StrayInv, RepairTracked
  <2>3. ASSUME track'[req[t].a] = 0 PROVE FALSE
    <3>1. req[s].kind = "unplug" /\ req[s].pc = "note"
      BY <2>2, <2>3, TrackKept
    <3>2. lock = s
      BY <3>1 DEF LockHeld, Holds, Locked
    <3>3. req[t].pc # "tunnel"
      BY <2>1 DEF Shaped, Shape
    <3>4. lock = t
      BY <2>1, <3>3 DEF LockHeld, Holds, Locked
    <3> QED BY <2>1, <3>1, <3>2, <3>4
  <2> QED BY <2>1, <2>2, <2>3
<1>3. ASSUME NEW p \in Containers, bridge'[p] # 0, track'[p] = 0
      PROVE  \E t \in Slots : req'[t].a = p /\ Passing(req'[t])
  <2>1. CASE track[p] # 0
    <3>1. req[s].kind = "unplug" /\ req[s].a = p /\ Go(s, "set")
      BY <1>3, <2>1, TrackKept
    <3>2. req'[s].a = p /\ Passing(req'[s])
      BY <3>1, GoProgress DEF Progress, Passing
    <3> QED BY <3>2
  <2>2. CASE track[p] = 0 /\ bridge[p] = 0
    <3>1. req[s].a = p /\ req[s].kind \in Makes /\ req'[s].pc = "note" /\ Progress(s)
      BY <1>3, <2>2, PortMade
    <3>2. req[s].kind # "repair"
      BY <2>2, <3>1 DEF StrayInv, RepairTracked
    <3>3. req'[s].a = p /\ Passing(req'[s])
      BY <3>1, <3>2 DEF Progress, Passing, Makes
    <3> QED BY <3>3
  <2>3. CASE track[p] = 0 /\ bridge[p] # 0
    <3>1. PICK t \in Slots : req[t].a = p /\ Passing(req[t])
      BY <2>3 DEF StrayInv, StrayPassing
    <3>2. t # s
      BY <1>3, <3>1, PassingEnds
    <3> QED BY <1>1, <3>1, <3>2
  <2> QED BY <2>1, <2>2, <2>3
<1> QED BY <1>2, <1>3 DEF StrayInv, RepairTracked, StrayPassing, Passing

\* Every step leaves no port behind.
LEMMA StepStray ==
  ASSUME TypeOK, Shaped, LockHeld, StrayInv, [Next]_vars
  PROVE  StrayInv'
<1>1. ASSUME NEW s \in Slots, Work(s) PROVE StrayInv'
  BY <1>1, WorkStray
<1>2. ASSUME NEW s \in Slots, Ask(s) PROVE StrayInv'
  <2>1. bridge' = bridge /\ track' = track
    BY <1>2 DEF Ask, Plug, Unplug, Repair, Overlay, Two
  <2>2. PICK kind \in Kinds, a \in Ports, b \in Ports \cup {"none"} :
          Begin(s, kind, a, b) /\ (kind = "repair" => a \in Containers /\ track[a] # 0)
    BY <1>2 DEF Ask, Plug, Unplug, Repair, Overlay, Two, Kinds, Pairs, Ports
  <2>3. /\ \A t \in Slots \ {s} : req'[t] = req[t]
        /\ req[s].pc = "idle" /\ req'[s].kind = kind /\ req'[s].a = a
    BY <2>2, BeginFacts
  <2>4. ~Passing(req[s])
    BY <2>3 DEF Passing
  <2>5. RepairTracked'
    BY <2>1, <2>2, <2>3 DEF StrayInv, RepairTracked
  <2>6. StrayPassing'
    BY <2>1, <2>3, <2>4 DEF StrayInv, StrayPassing, Passing
  <2> QED BY <2>5, <2>6 DEF StrayInv
<1>3. ASSUME NEW m \in Machines, Define(m) \/ Start(m) \/ Stop(m) \/ Undefine(m) PROVE StrayInv'
  <2>1. req' = req /\ track' = track /\ \A p \in Containers : bridge'[p] = bridge[p]
    BY <1>3, VlanAssumption DEF Define, Start, Stop, Undefine, TypeOK, Ports, VlanAssumption
  <2> QED BY <2>1 DEF StrayInv, RepairTracked, StrayPassing, Passing
<1>4. CASE Restart
  <2>1. ASSUME NEW p \in Containers, bridge'[p] # 0 PROVE track'[p] # 0
    <3>1. bridge[p] # 0 /\ ~Orphaned(p)
      BY <1>4, <2>1 DEF Restart, Ports
    <3>2. p \in Kept
      BY <3>1 DEF Orphaned
    <3> QED BY <1>4, <3>2 DEF Restart, Kept
  <2>2. \A s \in Slots : req'[s].kind # "repair"
    BY <1>4 DEF Restart, Idle
  <2> QED BY <2>1, <2>2 DEF StrayInv, RepairTracked, StrayPassing
<1>5. CASE UNCHANGED vars
  BY <1>5 DEF vars, StrayInv, RepairTracked, StrayPassing, Passing
<1> QED BY <1>1, <1>2, <1>3, <1>4, <1>5 DEF Next

\* When nothing is under way no container port is left on the bridge that the
\* plugin does not know, whatever failed and however often the agent restarted.
THEOREM NothingStrays == Spec => []NoStray
<1>1. Init => LockHeld /\ StrayInv
  <2> SUFFICES ASSUME Init PROVE LockHeld /\ StrayInv
    OBVIOUS
  <2>1. \A s \in Slots : req[s] = Idle /\ lock # s
    BY VlanAssumption DEF Init, VlanAssumption
  <2>2. \A p \in Containers : bridge[p] = 0
    BY DEF Init, NoTags, Ports
  <2> QED BY <2>1, <2>2 DEF LockHeld, Holds, Idle, Locked, StrayInv, RepairTracked, StrayPassing
<1>2. TypeOK /\ Shaped /\ LockHeld /\ StrayInv /\ [Next]_vars => LockHeld' /\ StrayInv'
  BY StepLock, StepStray
<1>3. Shaped /\ StrayInv => NoStray
  BY DEF Quiet, NoStray, StrayInv, StrayPassing, Passing
<1> QED BY ShapesHold, <1>1, <1>2, <1>3, PTL DEF Spec

-----------------------------------------------------------------------------
(* A tag of one's own *)

\* Nobody has allocated without the pool and no command has failed.
Pooled == spent.fault = 0 /\ spent.bare = 0

\* Then there are no virtual machines and no links between ports of one agent.
OnlyPool == held = [m \in Machines |-> 0] /\ \A s \in Slots : req[s].kind \notin Pairs

\* Two requests about one port: one of them unplugs it.
Exclusive == \A s, t \in Slots : s # t /\ req[s].a = req[t].a /\ req[s].a # "none"
                                 => "unplug" \in {req[s].kind, req[t].kind}

\* An attachment past the port has set its tag, or the port has gone.
AttachSet == \A s \in Slots :
  req[s].kind = "attach" /\ req[s].pc \in {"note", "sync", "save", "write", "tunnel"}
    => bridge[req[s].a] \in {0, req[s].want[req[s].a]}

\* An attachment of q had to take an isolated tag.
Spilled(q) ==
  \/ \E s \in Slots : req[s].kind = "attach" /\ req[s].a = q /\ req[s].want[q] \in Isolated
  \/ tunnel[q] \in Isolated /\ \A s \in Slots : ~(req[s].kind = "detach" /\ req[s].a = q)

\* Since the holder of the lock looked, only an attachment has brought an isolated
\* tag to the bridge, and the holder has chosen one it did not see there.
Allocating(s) == /\ lock = s /\ req[s].kind \in {"plug", "detach"}
                 /\ req[s].pc \in {"pick", "set"}
SeenOthers == \A s \in Slots : Allocating(s)
  => /\ \A q \in Ports \ {req[s].a} : \A u \in {bridge[q], tunnel[q]} \cap Isolated :
           u \in req[s].seen \/ Spilled(q)
     /\ req[s].pc = "set" => req[s].want[req[s].a] \notin req[s].seen

FreshInv == Pooled => OnlyPool /\ Exclusive /\ AttachSet /\ SeenOthers

\* Who has counted nothing has not counted before.
LEMMA PooledBefore == TypeOK /\ [Next]_vars /\ Pooled' => Pooled
<1> SUFFICES ASSUME TypeOK, [Next]_vars, Pooled' PROVE Pooled
  OBVIOUS
<1>1. spent.event \in Nat /\ spent.bare \in Nat /\ spent.fault \in Nat
  BY DEF TypeOK
<1>2. CASE Event \/ Bare \/ Fault \/ UNCHANGED spent
  <2>1. CASE Event
    BY <2>1 DEF Event, Pooled, TypeOK
  <2>2. CASE Bare
    <3>1. spent'.bare = spent.bare + 1 /\ spent.bare + 1 # 0
      BY <1>1, <2>2 DEF Bare, TypeOK
    <3> QED BY <3>1 DEF Pooled
  <2>3. CASE Fault
    <3>1. spent'.fault = spent.fault + 1 /\ spent.fault + 1 # 0
      BY <1>1, <2>3 DEF Fault, TypeOK
    <3> QED BY <3>1 DEF Pooled
  <2> QED BY <1>2, <2>1, <2>2, <2>3 DEF Pooled
<1>3. ASSUME NEW s \in Slots, Work(s) PROVE Fault \/ UNCHANGED spent
  BY <1>3 DEF Work, Look, PickOne, PickTwo, PickNone, SetPort, SetFails, DeletePort, NoteOne,
              NoteTwo, Sync, Save, Write, Tunnel
<1>4. ASSUME NEW s \in Slots, Ask(s) PROVE Event \/ Bare \/ UNCHANGED spent
  BY <1>4 DEF Ask, Plug, Unplug, Repair, Overlay, Two
<1>5. ASSUME NEW m \in Machines, Define(m) \/ Start(m) \/ Stop(m) \/ Undefine(m)
      PROVE  Event \/ Bare \/ UNCHANGED spent
  BY <1>5 DEF Define, Start, Stop, Undefine
<1>6. CASE Restart \/ UNCHANGED vars
  BY <1>2, <1>6 DEF Restart, vars
<1> QED BY <1>2, <1>3, <1>4, <1>5, <1>6 DEF Next

\* A counted allocation or a fault is not pooled.
LEMMA CountedIsNotPooled == TypeOK /\ (Bare \/ Fault) => ~Pooled'
<1> SUFFICES ASSUME TypeOK, Bare \/ Fault PROVE ~Pooled'
  OBVIOUS
<1>1. spent.event \in Nat /\ spent.bare \in Nat /\ spent.fault \in Nat
  BY DEF TypeOK
<1>2. CASE Bare
  <2>1. spent'.bare = spent.bare + 1 /\ spent.bare + 1 # 0
    BY <1>1, <1>2 DEF Bare, TypeOK
  <2> QED BY <2>1 DEF Pooled
<1>3. CASE Fault
  <2>1. spent'.fault = spent.fault + 1 /\ spent.fault + 1 # 0
    BY <1>1, <1>3 DEF Fault, TypeOK
  <2> QED BY <2>1 DEF Pooled
<1> QED BY <1>2, <1>3

\* Without failures a look sees the bridge, and a port that is not set has gone.
LEMMA LookSees ==
  ASSUME TypeOK, NEW s \in Slots, Look(s), Pooled'
  PROVE  Progress(s) /\ req'[s].seen = OnBridge /\ req'[s].pc = "pick" /\ req'[s].want = req[s].want
BY CountedIsNotPooled DEF Look, TypeOK, Req, Progress

\* What a step of a request does to the bridge and the tunnels while everybody
\* uses the pool.
LEMMA WorkPorts ==
  ASSUME TypeOK, Shaped, OnlyPool, NEW s \in Slots, Work(s), NEW q \in Ports
  PROVE  /\ \/ bridge'[q] \in {0, bridge[q]}
            \/ SetPort(s) /\ req[s].a = q /\ bridge'[q] = req[s].want[q]
         /\ \/ tunnel'[q] = tunnel[q]
            \/ /\ Tunnel(s) /\ req[s].a = q /\ bridge' = bridge
               /\ tunnel'[q] = IF req[s].kind = "attach" THEN req[s].want[q] ELSE 0
<1>1. req[s].kind \notin Pairs
  BY DEF OnlyPool
<1>2. CASE SetPort(s)
  BY <1>1, <1>2, NextPort DEF SetPort, TypeOK
<1>3. CASE SetFails(s)
  BY <1>1, <1>3 DEF SetFails
<1>4. CASE DeletePort(s)
  BY <1>4 DEF DeletePort, TypeOK
<1>5. CASE Tunnel(s)
  BY <1>5 DEF Tunnel, TypeOK
<1> QED BY <1>2, <1>3, <1>4, <1>5
        DEF Work, Look, PickOne, PickTwo, PickNone, NoteOne, NoteTwo, Sync, Save, Write

\* Kinds and ports of requests only go.
LEMMA WorkOnlyPool ==
  ASSUME TypeOK, Shaped, OnlyPool, Exclusive, NEW s \in Slots, Work(s)
  PROVE  OnlyPool' /\ Exclusive'
<1>1. /\ \A t \in Slots \ {s} : req'[t] = req[t]
      /\ \/ req'[s].kind = req[s].kind /\ req'[s].a = req[s].a
         \/ req'[s].kind = "none" /\ req'[s].a = "none"
  BY WorkProgress DEF Progress, Idle
<1>2. held' = held
  BY DEF Work, Look, PickOne, PickTwo, PickNone, SetPort, SetFails, DeletePort, NoteOne,
         NoteTwo, Sync, Save, Write, Tunnel
<1>3. OnlyPool'
  BY <1>1, <1>2 DEF OnlyPool, Pairs
<1>4. Exclusive'
  BY <1>1 DEF Exclusive
<1> QED BY <1>3, <1>4

\* Past its choice a request keeps the tags it wants, and past its port it goes on.
LEMMA WorkWants ==
  ASSUME TypeOK, Shaped, NEW s \in Slots, Work(s), req'[s] # Idle,
         req[s].pc \notin {"look", "pick"} \/ req'[s].pc \notin {"pick", "set"}
  PROVE  req'[s].want = req[s].want /\ req[s].pc \notin {"look", "pick"}
<1>1. CASE Look(s)
  <2>1. req'[s].pc = "pick" /\ req[s].pc = "look"
    BY <1>1 DEF Look, TypeOK, Req
  <2> QED BY <2>1
<1>2. CASE PickOne(s) \/ PickTwo(s)
  BY <1>2, PickProgress
<1>3. CASE SetPort(s) \/ SetFails(s)
  <2>1. End(s) => req'[s] = Idle
    BY DEF End, TypeOK
  <2>2. req[s].pc = "set"
    BY <1>3 DEF SetPort, SetFails
  <2> QED BY <1>3, <2>1, <2>2, DoneProgress, GoProgress DEF SetPort, SetFails, Fails
<1>4. CASE DeletePort(s) \/ NoteOne(s) \/ NoteTwo(s) \/ Sync(s)
  <2>1. End(s) => req'[s] = Idle
    BY DEF End, TypeOK
  <2>2. req[s].pc \in {"set", "note", "sync"}
    BY <1>4 DEF DeletePort, NoteOne, NoteTwo, Sync
  <2> QED BY <1>4, <2>1, <2>2, GoProgress DEF DeletePort, NoteOne, NoteTwo, Sync
<1>5. CASE Save(s)
  BY <1>5 DEF Save, TypeOK, Req
<1>6. CASE Write(s)
  <2>1. End(s) => req'[s] = Idle
    BY DEF End, TypeOK
  <2>2. CASE req' = [req EXCEPT ![s].pc = "tunnel", ![s].snap = NoEnds]
    BY <1>6, <2>2 DEF Write, TypeOK, Req
  <2> QED BY <1>6, <2>1, <2>2 DEF Write
<1>7. CASE PickNone(s) \/ Tunnel(s)
  BY <1>7 DEF PickNone, Fails, Tunnel, End, TypeOK
<1> QED BY <1>1, <1>2, <1>3, <1>4, <1>5, <1>6, <1>7 DEF Work

\* An attachment that goes past its port has set the tag, or the port had gone.
LEMMA WorkAttachSet ==
  ASSUME TypeOK, Shaped, OnlyPool, Exclusive, AttachSet, Pooled', NEW s \in Slots, Work(s)
  PROVE  AttachSet'
<1>1. SUFFICES ASSUME NEW t \in Slots, req'[t].kind = "attach",
                      req'[t].pc \in {"note", "sync", "save", "write", "tunnel"}
               PROVE  bridge'[req'[t].a] \in {0, req'[t].want[req'[t].a]}
  BY DEF AttachSet
<1>2. req'[t].kind = req[t].kind /\ req'[t].a = req[t].a
  BY <1>1, WorkProgress DEF Progress, Idle
<1>3. req[t].a \in Ports
  BY <1>1, <1>2 DEF Shaped, Shape
<1>4. CASE t # s
  <2>1. req'[t] = req[t]
    BY <1>4, WorkProgress DEF Progress
  <2>2. bridge[req[t].a] \in {0, req[t].want[req[t].a]}
    BY <1>1, <2>1 DEF AttachSet
  <2>3. SetPort(s) => req[s].a # req[t].a
    BY <1>1, <1>2, <1>3, <1>4, VlanAssumption DEF SetPort, Exclusive, VlanAssumption
  <2> QED BY <1>3, <2>1, <2>2, <2>3, WorkPorts
<1>5. CASE t = s
  <2>1. req'[s] # Idle /\ req'[s].want = req[s].want /\ req[s].pc \notin {"look", "pick"}
    BY <1>1, <1>5, WorkWants DEF Idle
  <2>2. CASE SetPort(s)
    BY <1>1, <1>2, <1>3, <1>5, <2>1, <2>2, NextPort DEF SetPort, TypeOK, Pairs
  <2>3. CASE SetFails(s)
    <3>1. Next1(req[s]) = req[s].a /\ bridge' = bridge
      BY <1>1, <1>2, <1>5, <2>3, NextPort DEF SetFails, Pairs
    <3>2. bridge[req[s].a] = 0
      BY <2>3, <3>1, CountedIsNotPooled DEF SetFails
    <3> QED BY <1>2, <1>5, <3>1, <3>2
  <2>4. CASE ~SetPort(s) /\ ~SetFails(s)
    <3>1. req[s].pc \in {"note", "sync", "save", "write", "tunnel"}
      BY <1>1, <1>2, <1>5, <2>1, <2>4
      DEF Work, Look, PickOne, PickTwo, PickNone, DeletePort, NoteOne, NoteTwo, Sync, Save,
          Write, Tunnel
    <3>2. bridge[req[s].a] \in {0, req[s].want[req[s].a]}
      BY <1>1, <1>2, <1>5, <3>1 DEF AttachSet
    <3> QED BY <1>2, <1>3, <1>5, <2>1, <2>4, <3>2, WorkPorts
  <2> QED BY <2>2, <2>3, <2>4
<1> QED BY <1>4, <1>5

\* An isolated tag of an attachment stays known as such, unless the link it is
\* for comes to the tunnel with another one.
LEMMA SpilledKept ==
  ASSUME TypeOK, Shaped, OnlyPool, Exclusive, NEW s \in Slots, Work(s),
         NEW q \in Ports, Spilled(q)
  PROVE  \/ Spilled(q)'
         \/ Tunnel(s) /\ req[s].a = q /\ req[s].kind = "attach" /\ req[s].want[q] \notin Isolated
<1>1. \A t \in Slots \ {s} : req'[t] = req[t]
  BY WorkProgress DEF Progress
<1>2. Tunnel(s) => req[s].kind \in {"attach", "detach"} /\ req'[s] = Idle
  BY DEF Tunnel, End, TypeOK, Shaped, Shape
<1>3. req'[s].kind = "detach" => req[s].kind = "detach" /\ req'[s].a = req[s].a
  BY WorkProgress DEF Progress, Idle
<1>4. ASSUME NEW t \in Slots, req[t].kind = "attach", req[t].a = q, req[t].want[q] \in Isolated
      PROVE  Spilled(q)'
  <2>1. CASE t # s
    BY <1>1, <1>4, <2>1 DEF Spilled
  <2>2. CASE t = s
    <3>1. req[s].pc \notin {"look", "pick"}
      <4>1. 0 \notin Isolated
        BY TagsArePositive DEF Tags
      <4> QED BY <1>4, <2>2, <4>1 DEF Shaped, Shape, NoTags
    <3>2. CASE req'[s] # Idle
      <4>1. req'[s].want = req[s].want /\ req'[s].kind = "attach" /\ req'[s].a = q
        BY <1>4, <2>2, <3>1, <3>2, WorkWants, WorkProgress DEF Progress
      <4> QED BY <1>4, <2>2, <4>1 DEF Spilled
    <3>3. CASE req'[s] = Idle
      <4>1. ASSUME NEW pc, Go(s, pc) \/ Done(s, pc) PROVE FALSE
        <5>1. req'[s].kind = req[s].kind
          BY <4>1, GoProgress, DoneProgress DEF Progress
        <5> QED BY <1>4, <2>2, <3>3, <5>1 DEF Idle
      <4>2. CASE Look(s) \/ PickOne(s) \/ PickTwo(s) \/ PickNone(s)
        BY <3>1, <4>2 DEF Look, PickOne, PickTwo, PickNone
      <4>3. CASE SetPort(s) \/ SetFails(s)
        BY <1>4, <2>2, <4>1, <4>3 DEF SetPort, SetFails
      <4>4. CASE DeletePort(s) \/ NoteOne(s) \/ NoteTwo(s) \/ Sync(s)
        BY <1>4, <2>2, <4>1, <4>4 DEF DeletePort, NoteOne, NoteTwo, Sync, Pairs
      <4>5. CASE Save(s) \/ Write(s)
        <5>1. req'[s].kind = req[s].kind
          BY <1>4, <2>2, <4>5 DEF Save, Write, TypeOK, Req
        <5> QED BY <1>4, <2>2, <3>3, <5>1 DEF Idle
      <4>6. CASE Tunnel(s)
        <5>1. tunnel'[q] \in Isolated
          BY <1>4, <2>2, <4>6 DEF Tunnel, TypeOK
        <5>2. ASSUME NEW u \in Slots, req'[u].kind = "detach", req'[u].a = q PROVE FALSE
          BY <1>1, <1>2, <1>4, <2>2, <4>6, <5>2, VlanAssumption DEF Exclusive, Idle, VlanAssumption
        <5> QED BY <5>1, <5>2 DEF Spilled
      <4> QED BY <4>2, <4>3, <4>4, <4>5, <4>6 DEF Work
    <3> QED BY <3>2, <3>3
  <2> QED BY <2>1, <2>2
<1>5. ASSUME tunnel[q] \in Isolated, \A t \in Slots : ~(req[t].kind = "detach" /\ req[t].a = q),
             ~(Tunnel(s) /\ req[s].a = q /\ req[s].kind = "attach" /\ req[s].want[q] \notin Isolated)
      PROVE  Spilled(q)'
  <2>1. tunnel'[q] \in Isolated
    BY <1>2, <1>5, WorkPorts
  <2>2. \A t \in Slots : ~(req'[t].kind = "detach" /\ req'[t].a = q)
    BY <1>1, <1>3, <1>5
  <2> QED BY <2>1, <2>2 DEF Spilled
<1> QED BY <1>4, <1>5 DEF Spilled

\* The holder of the lock has seen every isolated tag on the bridge that is not an
\* attachment's, whatever the request does that works beside it.
LEMMA WorkSeenOthers ==
  ASSUME TypeOK, Shaped, LockHeld, OnlyPool, Exclusive, AttachSet, SeenOthers, Pooled',
         NEW s \in Slots, Work(s)
  PROVE  SeenOthers'
<1>1. 0 \notin Isolated
  BY TagsArePositive DEF Tags
<1>2. SUFFICES ASSUME NEW t \in Slots, Allocating(t)'
               PROVE  /\ \A q \in Ports \ {req'[t].a} : \A u \in {bridge'[q], tunnel'[q]} \cap Isolated :
                           u \in req'[t].seen \/ Spilled(q)'
                      /\ req'[t].pc = "set" => req'[t].want[req'[t].a] \notin req'[t].seen
  BY DEF SeenOthers
<1>3. req'[t].kind \in {"plug", "detach"} /\ req'[t].pc \in {"pick", "set"}
  BY <1>2 DEF Allocating
<1>4. req'[t].kind = req[t].kind /\ req'[t].a = req[t].a
  BY <1>3, WorkProgress DEF Progress, Idle
<1>5. CASE t = s
  <2>1. CASE Look(s)
    <3>1. req'[s].seen = OnBridge /\ req'[s].pc = "pick" /\ bridge' = bridge /\ tunnel' = tunnel
      BY <2>1, LookSees DEF Look
    <3> QED BY <1>1, <1>5, <3>1 DEF OnBridge
  <2>2. CASE PickOne(s)
    <3>1. Allocating(s) /\ req'[s].pc = "set" /\ req'[s].seen = req[s].seen
      BY <1>3, <1>4, <1>5, <2>2, PickProgress DEF LockHeld, Holds, Locked, Allocating
    <3>2. bridge' = bridge /\ tunnel' = tunnel
      BY <2>2 DEF PickOne
    <3>3. req'[s].want[req[s].a] \notin req[s].seen
      <4>1. PICK x \in Prefer(Range(req[s].kind), Used(s)) :
              req' = [req EXCEPT ![s].pc = "set", ![s].want[req[s].a] = x]
        BY <2>2 DEF PickOne
      <4>2. x \notin req[s].seen
        BY PreferType, RangeType DEF Used
      <4>3. req[s].a \in Ports
        BY <1>3, <1>4, <1>5 DEF Shaped, Shape
      <4> DEFINE want == [req[s].want EXCEPT ![req[s].a] = x]
      <4>4. want[req[s].a] = x
        BY <4>3 DEF TypeOK, Req
      <4>5. req' = [req EXCEPT ![s] = [req[s] EXCEPT !.pc = "set", !.want = want]]
        <5>1. req[s] \in Req /\ req \in [Slots -> Req]
          BY DEF TypeOK
        <5> QED BY <4>1, <5>1 DEF Req
      <4> HIDE DEF want
      <4>6. req'[s].want = want
        BY <4>5 DEF TypeOK, Req
      <4> QED BY <4>2, <4>4, <4>6
    <3>4. ~Tunnel(s)
      BY <2>2 DEF PickOne, Tunnel
    <3>5. ASSUME NEW q \in Ports \ {req[s].a}, NEW u \in {bridge[q], tunnel[q]} \cap Isolated
          PROVE  u \in req[s].seen \/ Spilled(q)'
      BY <3>1, <3>4, SpilledKept DEF SeenOthers
    <3> QED BY <1>4, <1>5, <3>1, <3>2, <3>3, <3>5
  <2>3. CASE SetPort(s) \/ SetFails(s)
    <3>1. req[s].left = {req[s].a} /\ Next1(req[s]) = req[s].a
      <4>1. req[s].pc = "set" /\ req[s].kind \notin Pairs
        BY <2>3 DEF SetPort, SetFails, OnlyPool
      <4> QED BY <4>1, NextPort DEF Shaped, Shape, Both
    <3>2. ~Done(s, req[s].a)
      BY <1>3, <1>5, <3>1, DoneProgress
    <3>3. ~End(s) /\ ~Go(s, "tunnel")
      <4>1. End(s) => req'[s] = Idle
        BY DEF End, TypeOK
      <4> QED BY <1>3, <1>5, <4>1, GoProgress DEF Idle
    <3> QED BY <2>3, <3>1, <3>2, <3>3 DEF SetPort, SetFails, Fails
  <2>4. CASE ~Look(s) /\ ~PickOne(s) /\ ~SetPort(s) /\ ~SetFails(s)
    <3>1. End(s) => req'[s] = Idle
      BY DEF End, TypeOK
    <3>2. CASE PickTwo(s) \/ PickNone(s) \/ NoteTwo(s) \/ Tunnel(s) \/ DeletePort(s)
      BY <1>3, <1>4, <1>5, <3>1, <3>2
      DEF OnlyPool, PickTwo, PickNone, NoteTwo, Tunnel, DeletePort, Fails, Idle
    <3>3. CASE NoteOne(s) \/ Sync(s)
      BY <1>3, <1>4, <1>5, <3>1, <3>3, GoProgress DEF NoteOne, Sync, Idle
    <3>4. CASE Save(s) \/ Write(s)
      <4>1. req'[s].pc \in {"write", "tunnel", "idle"}
        BY <3>1, <3>4 DEF Save, Write, TypeOK, Req, Idle
      <4> QED BY <1>3, <1>5, <4>1
    <3> QED BY <2>4, <3>2, <3>3, <3>4 DEF Work
  <2> QED BY <2>1, <2>2, <2>3, <2>4
<1>6. CASE t # s
  <2>1. req'[t] = req[t]
    BY <1>6, WorkProgress DEF Progress
  <2>2. Allocating(t) /\ ~Holds(req[s])
    BY <1>3, <1>6, <2>1 DEF Allocating, LockHeld, Holds, Locked
  <2>3. ASSUME NEW q \in Ports \ {req[t].a}, NEW u \in {bridge'[q], tunnel'[q]} \cap Isolated
        PROVE  u \in req[t].seen \/ Spilled(q)'
    <3>1. CASE u \in {bridge[q], tunnel[q]}
      <4>1. u \in req[t].seen \/ Spilled(q)
        BY <2>2, <3>1 DEF SeenOthers
      <4>2. ~(Tunnel(s) /\ req[s].a = q /\ req[s].kind = "attach" /\ req[s].want[q] \notin Isolated)
        <5> SUFFICES ASSUME Tunnel(s), req[s].a = q, req[s].kind = "attach",
                            req[s].want[q] \notin Isolated
                     PROVE  FALSE
          OBVIOUS
        <5>1. bridge'[q] = bridge[q] /\ tunnel'[q] = req[s].want[q]
          BY DEF Tunnel, TypeOK
        <5>2. bridge[q] \in {0, req[s].want[q]}
          BY DEF AttachSet, Tunnel
        <5> QED BY <1>1, <5>1, <5>2
      <4> QED BY <4>1, <4>2, SpilledKept
    <3>2. CASE SetPort(s) /\ req[s].a = q /\ u = req[s].want[q]
      <4>1. req[s].kind = "attach"
        BY <2>2, <3>2 DEF SetPort, Shaped, Shape, OnlyPool, Holds, Locked, Pairs, TypeOK, Req, Kinds
      <4>2. req'[s].kind = "attach" /\ req'[s].a = q /\ req'[s].want[q] \in Isolated
        BY <3>2, <4>1, DoneProgress DEF SetPort, Progress
      <4> QED BY <4>2 DEF Spilled
    <3>3. CASE Tunnel(s) /\ req[s].a = q /\ u = tunnel'[q] /\ u # tunnel[q]
      <4>1. req[s].kind = "attach" /\ req'[s] = Idle
        BY <1>1, <3>3 DEF Tunnel, End, TypeOK
      <4>2. ASSUME NEW w \in Slots, req'[w].kind = "detach", req'[w].a = q PROVE FALSE
        <5>1. w # s
          BY <4>1, <4>2 DEF Idle
        <5>2. req[w].kind = "detach" /\ req[w].a = q /\ q # "none"
          BY <4>2, <5>1, WorkProgress, VlanAssumption DEF Progress, VlanAssumption
        <5> QED BY <3>3, <4>1, <5>1, <5>2 DEF Exclusive
      <4> QED BY <3>3, <4>2 DEF Spilled
    <3> QED BY <1>1, <3>1, <3>2, <3>3, WorkPorts
  <2>4. req[t].pc = "set" => req[t].want[req[t].a] \notin req[t].seen
    BY <2>2 DEF SeenOthers
  <2> QED BY <2>1, <2>3, <2>4
<1> QED BY <1>5, <1>6

\* A new request keeps the invariant: nobody begins to detach beside the holder.
LEMMA AskFresh ==
  ASSUME TypeOK, Shaped, OnlyPool, Exclusive, AttachSet, SeenOthers, Pooled',
         NEW s \in Slots, Ask(s)
  PROVE  OnlyPool' /\ Exclusive' /\ AttachSet' /\ SeenOthers'
<1>1. bridge' = bridge /\ tunnel' = tunnel /\ held' = held
  BY DEF Ask, Plug, Unplug, Repair, Overlay, Two
<1>2. PICK kind \in Kinds \ Pairs, a \in Ports :
        Begin(s, kind, a, "none") /\ (kind # "unplug" => Unasked(a))
  <2>1. \A p, q \in Ports, k \in Pairs : ~Two(s, k, p, q)
    BY CountedIsNotPooled DEF Two
  <2> QED BY <2>1 DEF Ask, Plug, Unplug, Repair, Overlay, New, Kinds, Pairs, Ports
<1>3. /\ \A t \in Slots \ {s} : req'[t] = req[t]
      /\ req[s].pc = "idle" /\ req'[s].kind = kind /\ req'[s].a = a
      /\ req'[s].pc \in {"look", "note", "set"}
      /\ req'[s].pc # "look" => kind \in {"unplug", "repair"}
      /\ IF kind \in Locked THEN lock = "none" /\ lock' = s ELSE lock' = lock
  BY <1>2, BeginFacts
<1>4. OnlyPool'
  BY <1>1, <1>2, <1>3 DEF OnlyPool
<1>5. Exclusive'
  <2>1. ASSUME NEW t \in Slots \ {s}, req[t].a = a, kind # "unplug" PROVE FALSE
    BY <1>2, <2>1, VlanAssumption DEF Unasked, Both, VlanAssumption
  <2> QED BY <1>3, <2>1 DEF Exclusive
<1>6. AttachSet'
  BY <1>1, <1>3 DEF AttachSet
<1>7. ASSUME NEW t \in Slots, Allocating(t)'
      PROVE  /\ \A q \in Ports \ {req'[t].a} : \A u \in {bridge'[q], tunnel'[q]} \cap Isolated :
                  u \in req'[t].seen \/ Spilled(q)'
             /\ req'[t].pc = "set" => req'[t].want[req'[t].a] \notin req'[t].seen
  <2>1. t # s /\ req'[t] = req[t]
    BY <1>3, <1>7 DEF Allocating
  <2>2. lock = t /\ kind \notin Locked
    BY <1>3, <1>7, <2>1 DEF Allocating
  <2>3. Allocating(t)
    BY <1>7, <2>1, <2>2 DEF Allocating
  <2>4. ASSUME NEW q \in Ports, Spilled(q) PROVE Spilled(q)'
    <3>1. \A v \in Slots : req[v].kind = "attach" => req'[v] = req[v]
      BY <1>3 DEF Shaped, Shape
    <3>2. \A v \in Slots : req'[v].kind = "detach" => req'[v] = req[v]
      BY <1>3, <2>2 DEF Locked
    <3> QED BY <1>1, <2>4, <3>1, <3>2 DEF Spilled
  <2> QED BY <1>1, <2>1, <2>3, <2>4 DEF SeenOthers
<1>8. SeenOthers'
  BY <1>7 DEF SeenOthers
<1> QED BY <1>4, <1>5, <1>6, <1>8

\* Machines only lose ports.
LEMMA MachineFresh ==
  ASSUME TypeOK, Shaped, OnlyPool, Exclusive, AttachSet, SeenOthers, Pooled',
         NEW m \in Machines, Define(m) \/ Start(m) \/ Stop(m) \/ Undefine(m)
  PROVE  OnlyPool' /\ Exclusive' /\ AttachSet' /\ SeenOthers'
<1>1. CASE Stop(m)
  <2>1. \A q \in Ports : bridge'[q] \in {0, bridge[q]}
    BY <1>1 DEF Stop, TypeOK
  <2>2. tunnel' = tunnel /\ held' = held /\ req' = req /\ lock' = lock /\ 0 \notin Isolated
    BY <1>1, TagsArePositive DEF Stop, Tags
  <2>3. OnlyPool' /\ Exclusive'
    BY <2>2 DEF OnlyPool, Exclusive
  <2>4. AttachSet'
    BY <2>1, <2>2 DEF AttachSet, Shaped, Shape
  <2>5. SeenOthers'
    BY <2>1, <2>2 DEF SeenOthers, Allocating, Spilled
  <2> QED BY <2>3, <2>4, <2>5
<1> QED BY <1>1, CountedIsNotPooled DEF Define, Start, Undefine, OnlyPool

\* Every step keeps the invariant.
LEMMA StepFresh ==
  ASSUME TypeOK, Shaped, LockHeld, FreshInv, [Next]_vars
  PROVE  FreshInv'
<1> SUFFICES ASSUME Pooled' PROVE OnlyPool' /\ Exclusive' /\ AttachSet' /\ SeenOthers'
  BY DEF FreshInv
<1>1. OnlyPool /\ Exclusive /\ AttachSet /\ SeenOthers
  BY PooledBefore DEF FreshInv
<1>2. ASSUME NEW s \in Slots, Work(s) PROVE OnlyPool' /\ Exclusive' /\ AttachSet' /\ SeenOthers'
  BY <1>1, <1>2, WorkOnlyPool, WorkAttachSet, WorkSeenOthers
<1>3. ASSUME NEW s \in Slots, Ask(s) PROVE OnlyPool' /\ Exclusive' /\ AttachSet' /\ SeenOthers'
  BY <1>1, <1>3, AskFresh
<1>4. ASSUME NEW m \in Machines, Define(m) \/ Start(m) \/ Stop(m) \/ Undefine(m)
      PROVE  OnlyPool' /\ Exclusive' /\ AttachSet' /\ SeenOthers'
  BY <1>1, <1>4, MachineFresh
<1>5. CASE Restart
  <2>1. held' = held /\ \A s \in Slots : req'[s] = Idle
    BY <1>5 DEF Restart
  <2> QED BY <1>1, <2>1 DEF OnlyPool, Exclusive, AttachSet, SeenOthers, Allocating, Idle, Pairs
<1>6. CASE UNCHANGED vars
  BY <1>1, <1>6 DEF vars, OnlyPool, Exclusive, AttachSet, SeenOthers, Allocating, Spilled
<1> QED BY <1>2, <1>3, <1>4, <1>5, <1>6 DEF Next

\* The tag that the holder of the plugin's lock puts on a port is on no other port
\* and no tunnel, while everybody allocates from the pool, no command fails and
\* nobody has to leave the preferred range.
THEOREM AllocationsAreFresh == Spec => Fresh
<1>1. Init => LockHeld /\ FreshInv
  <2> SUFFICES ASSUME Init PROVE LockHeld /\ OnlyPool /\ Exclusive /\ AttachSet /\ SeenOthers
    BY DEF FreshInv
  <2>1. held = [m \in Machines |-> 0] /\ \A s \in Slots : req[s] = Idle /\ lock # s
    BY VlanAssumption DEF Init, VlanAssumption
  <2> QED BY <2>1 DEF LockHeld, Holds, Locked, OnlyPool, Exclusive, AttachSet, SeenOthers,
                      Allocating, Idle, Pairs
<1>2. TypeOK /\ Shaped /\ LockHeld /\ FreshInv /\ [Next]_vars => LockHeld' /\ FreshInv'
  BY StepLock, StepFresh
<1> DEFINE fresh == \A s \in Slots : Allocates(s) /\ spent.fault = 0 /\ spent.bare = 0 /\ Unspilled
                      => ~OtherHas(req[s].a, req[s].want[req[s].a])
<1>3. TypeOK /\ Shaped /\ LockHeld /\ FreshInv => fresh
  <2> SUFFICES ASSUME TypeOK, Shaped, LockHeld, FreshInv, Pooled, Unspilled,
                      NEW s \in Slots, Allocates(s),
                      NEW q \in Ports \ {req[s].a},
                      req[s].want[req[s].a] \in {bridge[q], tunnel[q]}
               PROVE  FALSE
    BY DEF Pooled, OtherHas
  <2> DEFINE w == req[s].want[req[s].a]
  <2>1. req[s].kind \in {"plug", "detach"} /\ req[s].pc = "set" /\ req[s].a \in Ports
    BY DEF Allocates, SetPort, LockHeld, Holds, Locked, Shaped, Shape
  <2>2. w # 0
    <3>1. req[s].a \in Both(req[s])
      BY <2>1, VlanAssumption DEF Both, VlanAssumption
    <3> QED BY <2>1, <3>1 DEF Shaped, Shape
  <2>3. w \in Isolated
    BY <2>1, <2>2, VlanAssumption DEF Unspilled, Range, VlanAssumption
  <2>4. w \notin req[s].seen /\ Spilled(q)
    BY <2>1, <2>3 DEF FreshInv, SeenOthers, Allocating, Allocates
  <2>5. ASSUME NEW t \in Slots, req[t].kind = "attach", req[t].a = q, req[t].want[q] \in Isolated
        PROVE  FALSE
    <3>1. req[t].want[q] \in Linked \cup {0}
      BY <2>5, VlanAssumption DEF Unspilled, Range, VlanAssumption
    <3> QED BY <2>5, <3>1, VlanAssumption, TagsArePositive DEF VlanAssumption, Tags
  <2> QED BY <2>4, <2>5 DEF Spilled, Unspilled
<1>4. TypeOK /\ Shaped /\ LockHeld /\ FreshInv /\ [Next]_vars => [fresh]_vars
  BY <1>3
<1> QED BY ShapesHold, <1>1, <1>2, <1>4, PTL DEF Spec, Fresh
=============================================================================
