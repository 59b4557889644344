---------------------------- MODULE LinksProofs ----------------------------
(***************************************************************************)
(* Proofs about Links for all links, endpoints, hosts and bounds: type     *)
(* correctness, and that every reservation belongs to an endpoint of a row *)
(* that exists, whichever of the workers writes rows and reservations.     *)
(***************************************************************************)
EXTENDS Links, TLAPS

(* The parts of the invariant *)

\* Rows and reservations have their types, and no reservation is left over.
DBOK == /\ topo \subseteq Links /\ row \in [Links -> Row]
        /\ resv \in [Endpoints -> Links \cup {"none"}] /\ ReservedByRow

\* So have the ports, the nodes and the agents.
AgentsOK == /\ tag \in [Endpoints -> Links \cup {"none"}] /\ vxlan \in [Links -> SUBSET Endpoints]
            /\ ready \subseteq Endpoints /\ online \subseteq Hosts

\* A worker with an operation under way has a link for it.
Sound(r)  == r.op # "none" => r.link \in Links
WorkersOK == worker \in [Workers -> Worker] /\ \A w \in Workers : Sound(worker[w])

\* Whoever has the lock is at work, the task with the agents it found online.
LockOK == /\ holder \in {"none", "task", "lab"}
          /\ holder # "none" => worker[holder].phase # "idle"
          /\ holder = "task" => worker["task"].agents # {}

SpentOK == spent \in [event : 0..MaxEvents, fault : 0..MaxFaults]
CycleOK == cycle \in 0..(HealEvery - 1)

LinksInv == DBOK /\ AgentsOK /\ WorkersOK /\ LockOK /\ SpentOK /\ CycleOK

\* A step of a worker that goes on with what it does.
Kept == \A v \in Workers : worker'[v].phase = worker[v].phase /\ worker'[v].agents = worker[v].agents

\* A step that takes no row away.
Lives == \A l \in Links : Exists(l) => row'[l].desired # "none"

-----------------------------------------------------------------------------
(* Operators *)

\* The endpoints of a link are endpoints.
LEMMA EndsIn == \A l \in Links : Ends(l) \subseteq Endpoints
BY LinksAssumption DEF LinksAssumption, Ends

\* "none" is no link.
LEMMA NoneIsNoLink == "none" \notin Links
BY LinksAssumption DEF LinksAssumption

\* A counted event or fault stays within its bound.
LEMMA SpentType ==
  ASSUME SpentOK, Event \/ Fault \/ UNCHANGED spent
  PROVE  SpentOK'
<1>1. spent.event \in Nat /\ spent.fault \in Nat /\ MaxEvents \in Nat /\ MaxFaults \in Nat
  BY LinksAssumption DEF SpentOK, LinksAssumption
<1>2. CASE Event
  <2>1. spent.event + 1 \in 0..MaxEvents
    BY <1>1, <1>2 DEF Event
  <2> QED BY <1>2, <2>1 DEF Event, SpentOK
<1>3. CASE Fault
  <2>1. spent.fault + 1 \in 0..MaxFaults
    BY <1>1, <1>3 DEF Fault
  <2> QED BY <1>3, <2>1 DEF Fault, SpentOK
<1> QED BY <1>2, <1>3 DEF SpentOK

\* An endpoint is held by a link it belongs to.
LEMMA HoldingFacts ==
  ASSUME NEW S \in SUBSET Links, NEW e \in Endpoints
  PROVE  Holding(S)[e] = "none" \/ (Holding(S)[e] \in S /\ e \in Ends(Holding(S)[e]))
<1>1. CASE \E l \in S : e \in Ends(l)
  <2> DEFINE c == CHOOSE l \in S : e \in Ends(l)
  <2>1. c \in S /\ e \in Ends(c)
    BY <1>1
  <2>2. Holding(S)[e] = c
    BY <1>1 DEF Holding
  <2> QED BY <2>1, <2>2
<1>2. CASE ~\E l \in S : e \in Ends(l)
  BY <1>2 DEF Holding
<1> QED BY <1>1, <1>2

LEMMA HoldingType == \A S \in SUBSET Links : Holding(S) \in [Endpoints -> Links \cup {"none"}]
<1> SUFFICES ASSUME NEW S \in SUBSET Links
             PROVE  Holding(S) \in [Endpoints -> Links \cup {"none"}]
  OBVIOUS
<1>1. Holding(S) = [e \in Endpoints |-> Holding(S)[e]]
  BY DEF Holding
<1>2. \A e \in Endpoints : Holding(S)[e] \in Links \cup {"none"}
  BY HoldingFacts
<1> QED BY <1>1, <1>2

\* A claim gives endpoints of the links that claim, and changes no other.
LEMMA ClaimedFacts ==
  ASSUME NEW r \in [Endpoints -> Links \cup {"none"}], NEW S \in SUBSET Links
  PROVE  /\ Claimed(r, S) \in [Endpoints -> Links \cup {"none"}]
         /\ \A e \in Endpoints : \/ Claimed(r, S)[e] = r[e]
                                 \/ Claimed(r, S)[e] \in S /\ e \in Ends(Claimed(r, S)[e])
<1>1. ASSUME NEW e \in Endpoints
      PROVE  Claimed(r, S)[e] = r[e] \/ (Claimed(r, S)[e] \in S /\ e \in Ends(Claimed(r, S)[e]))
  <2>1. Claimed(r, S)[e] = IF Holding(S)[e] = "none" THEN r[e] ELSE Holding(S)[e]
    BY DEF Claimed
  <2> QED BY <2>1, HoldingFacts
<1>2. Claimed(r, S) = [e \in Endpoints |-> Claimed(r, S)[e]]
  BY DEF Claimed
<1>3. \A e \in Endpoints : Claimed(r, S)[e] \in Links \cup {"none"}
  BY <1>1
<1> QED BY <1>1, <1>2, <1>3

\* What is released is nobody's, the rest stays.
LEMMA ReleasedFacts ==
  ASSUME NEW r \in [Endpoints -> Links \cup {"none"}], NEW S
  PROVE  /\ Released(r, S) \in [Endpoints -> Links \cup {"none"}]
         /\ \A e \in Endpoints : \/ Released(r, S)[e] = "none"
                                 \/ Released(r, S)[e] = r[e] /\ r[e] \notin S
BY DEF Released

\* An outcome is written to a row that exists and keeps what is desired.
LEMMA WrittenType ==
  ASSUME NEW r \in Row, NEW l \in Links, NEW o
  PROVE  Written(r, l, o) \in Row /\ Written(r, l, o).desired = r.desired
<1>1. Ends(l) \subseteq Endpoints
  BY EndsIn
<1> QED BY <1>1 DEF Written, Row, Actual, Tunnel

\* The rows of the start and new rows.
LEMMA RowsOfInit ==
  /\ NoRow \in Row /\ NoRow.desired = "none" /\ NewRow \in Row /\ NewRow.desired = "up"
  /\ \A l \in Links : UpRow(l) \in Row /\ UpRow(l).desired = "up"
<1>1. NoRow \in Row /\ NoRow.desired = "none" /\ NewRow \in Row /\ NewRow.desired = "up"
  BY DEF NoRow, NewRow, Row, Actual, Desired, Tunnel
<1>2. ASSUME NEW l \in Links PROVE UpRow(l) \in Row /\ UpRow(l).desired = "up"
  BY <1>1, EndsIn DEF UpRow, Row, Actual, Desired, Tunnel
<1> QED BY <1>1, <1>2

\* Rows that stay keep the reservations in order.
LEMMA LivesReserved ==
  ASSUME DBOK, topo' \subseteq Links, row' \in [Links -> Row], Lives, resv' = resv
  PROVE  DBOK'
<1>1. \A e \in Endpoints : resv[e] # "none" => resv[e] \in Links
  BY DEF DBOK
<1> QED BY <1>1 DEF DBOK, ReservedByRow, Lives, Exists

\* Rows that go take their reservations with them.
LEMMA RemovedReserved ==
  ASSUME DBOK, topo' = topo, row' \in [Links -> Row], NEW S,
         \A l \in Links \ S : Exists(l) => row'[l].desired # "none",
         resv' = Released(resv, S)
  PROVE  DBOK'
<1>1. /\ resv' \in [Endpoints -> Links \cup {"none"}]
      /\ \A e \in Endpoints : resv'[e] = "none" \/ (resv'[e] = resv[e] /\ resv[e] \notin S)
  BY ReleasedFacts DEF DBOK
<1>2. \A e \in Endpoints : resv[e] # "none" => resv[e] \in Links
  BY DEF DBOK
<1> QED BY <1>1, <1>2 DEF DBOK, ReservedByRow, Exists

\* Claims are made for rows that exist.
LEMMA ClaimedReserved ==
  ASSUME DBOK, topo' \subseteq Links, row' \in [Links -> Row], Lives, NEW S \in SUBSET Links,
         \A l \in S : row'[l].desired # "none", resv' = Claimed(resv, S)
  PROVE  DBOK'
<1>1. /\ resv' \in [Endpoints -> Links \cup {"none"}]
      /\ \A e \in Endpoints : resv'[e] = resv[e] \/ (resv'[e] \in S /\ e \in Ends(resv'[e]))
  BY ClaimedFacts DEF DBOK
<1>2. \A e \in Endpoints : resv[e] # "none" => resv[e] \in Links
  BY DEF DBOK
<1> QED BY <1>1, <1>2 DEF DBOK, ReservedByRow, Lives, Exists

\* A request for a topology keeps the reservations in order.
LEMMA UpsertedFacts ==
  ASSUME DBOK, NEW T \in SUBSET Links
  PROVE  /\ UpsertedRow(T) \in [Links -> Row]
         /\ \A l \in Links : Exists(l) => UpsertedRow(T)[l].desired # "none"
         /\ UpsertedResv(T) \in [Endpoints -> Links \cup {"none"}]
         /\ \A e \in Endpoints : LET l == UpsertedResv(T)[e]
              IN l # "none" => l \in Links /\ UpsertedRow(T)[l].desired # "none" /\ e \in Ends(l)
<1>1. ASSUME NEW l \in Links
      PROVE  /\ UpsertedRow(T)[l] \in Row
             /\ Exists(l) \/ l \in Fresh(T) => UpsertedRow(T)[l].desired # "none"
  <2>1. row[l] \in Row
    BY DEF DBOK
  <2>2. CASE l \in Fresh(T)
    <3>1. l \notin Revived(T) /\ l \notin Gone(T)
      BY <2>2 DEF Fresh, Revived, Gone, Exists
    <3>2. UpsertedRow(T)[l] = NewRow
      BY <2>2, <3>1 DEF UpsertedRow
    <3> QED BY <3>2, RowsOfInit
  <2>3. CASE l \notin Fresh(T) /\ l \in Revived(T)
    BY <2>1, <2>3 DEF UpsertedRow, Row, Desired
  <2>4. CASE l \notin Fresh(T) /\ l \notin Revived(T) /\ l \in Gone(T)
    BY <2>1, <2>4 DEF UpsertedRow, Row, Desired
  <2>5. CASE l \notin Fresh(T) /\ l \notin Revived(T) /\ l \notin Gone(T)
    BY <2>1, <2>5 DEF UpsertedRow, Exists
  <2> QED BY <2>2, <2>3, <2>4, <2>5
<1>2. UpsertedRow(T) \in [Links -> Row]
  BY <1>1 DEF UpsertedRow
<1> DEFINE N == Fresh(T) \cup Revived(T)
           c == Claimed(resv, N)
<1>3. N \subseteq Links /\ \A l \in N : UpsertedRow(T)[l].desired # "none"
  BY <1>1 DEF Fresh, Revived, Exists
<1>4. resv \in [Endpoints -> Links \cup {"none"}]
  BY DEF DBOK
<1>5. /\ c \in [Endpoints -> Links \cup {"none"}]
      /\ \A e \in Endpoints : c[e] = resv[e] \/ (c[e] \in N /\ e \in Ends(c[e]))
  BY <1>3, <1>4, ClaimedFacts
<1>6. UpsertedResv(T) = Released(c, Gone(T))
  BY DEF UpsertedResv
<1> HIDE DEF N, c
<1>7. /\ UpsertedResv(T) \in [Endpoints -> Links \cup {"none"}]
      /\ \A e \in Endpoints : UpsertedResv(T)[e] \in {"none", c[e]}
  BY <1>5, <1>6, ReleasedFacts
<1>8. \A e \in Endpoints : resv[e] # "none" =>
         resv[e] \in Links /\ Exists(resv[e]) /\ e \in Ends(resv[e])
  BY <1>4 DEF DBOK, ReservedByRow
<1> QED BY <1>1, <1>2, <1>3, <1>5, <1>7, <1>8

-----------------------------------------------------------------------------
(* Workers *)

\* One worker changes, the others stay as they are.
LEMMA Works ==
  ASSUME WorkersOK, NEW w \in Workers, NEW r \in Worker, Sound(r),
         worker' = [worker EXCEPT ![w] = r]
  PROVE  /\ WorkersOK' /\ worker'[w] = r /\ \A v \in Workers \ {w} : worker'[v] = worker[v]
         /\ r.phase = worker[w].phase /\ r.agents = worker[w].agents => Kept
BY DEF WorkersOK, Kept

\* A worker that goes on keeps the lock.
LEMMA KeptLock ==
  ASSUME LockOK, Kept, holder' = holder
  PROVE  LockOK'
<1>1. holder # "none" => holder \in Workers
  BY DEF LockOK, Workers
<1>2. "task" \in Workers
  BY DEF Workers
<1> QED BY <1>1, <1>2 DEF LockOK, Kept

\* Another worker's step does not touch the task and the lab.
LEMMA OthersLock ==
  ASSUME LockOK, holder' = holder,
         \A v \in {"task", "lab"} : worker'[v].phase = worker[v].phase /\ worker'[v].agents = worker[v].agents
  PROVE  LockOK'
BY DEF LockOK

\* An idle worker.
LEMMA IdleType == Idle \in Worker /\ Sound(Idle) /\ Idle.phase = "idle"
<1>1. Idle.info \in [Links -> Actual \cup {"none"}] /\ Idle.out \in [Links -> Outcome]
  BY DEF Idle, Outcome
<1> QED BY <1>1 DEF Idle, Worker, Phase, Op, Sound

\* A worker that is done with a link.
LEMMA OverType ==
  ASSUME WorkersOK, NEW w \in Workers, NEW l \in Links, NEW o \in Outcome
  PROVE  /\ Over(w, l, o) \in Worker /\ Sound(Over(w, l, o))
         /\ Over(w, l, o).phase = worker[w].phase /\ Over(w, l, o).agents = worker[w].agents
<1> DEFINE out == IF AtOnce(w) THEN worker[w].out ELSE [worker[w].out EXCEPT ![l] = o]
           held == IF AtOnce(w) THEN {} ELSE worker[w].held
<1>1. worker[w] \in Worker
  BY DEF WorkersOK
<1>2. out \in [Links -> Outcome] /\ held \in SUBSET Links
  BY <1>1 DEF Worker
<1>3. /\ Over(w, l, o) = [worker[w] EXCEPT !.todo = worker[w].todo \ {l}, !.op = "none",
                            !.link = "none", !.left = {}, !.got = {}, !.why = "none",
                            !.out = out, !.held = held]
      /\ worker[w].todo \ {l} \in SUBSET Links
  BY <1>1 DEF Over, Worker
<1> HIDE DEF out, held
<1>4. Over(w, l, o) \in Worker
  <2> DEFINE left == worker[w].todo \ {l}
             r == [worker[w] EXCEPT !.todo = left, !.op = "none", !.link = "none"]
             v == [r EXCEPT !.left = {}, !.got = {}, !.why = "none"]
  <2> HIDE DEF left
  <2>1. r \in Worker
    BY <1>1, <1>3 DEF left, Worker, Op
  <2>2. v \in Worker
    BY <2>1 DEF Worker
  <2>3. [v EXCEPT !.out = out, !.held = held] \in Worker
    BY <1>2, <2>2 DEF Worker
  <2>4. Over(w, l, o) = [v EXCEPT !.out = out, !.held = held]
    BY <1>1, <1>3 DEF left, Worker
  <2> QED BY <2>3, <2>4
<1>5. Sound(Over(w, l, o))
  BY <1>1, <1>3 DEF Sound, Worker
<1> QED BY <1>1, <1>3, <1>4, <1>5 DEF Worker

\* It goes on.
LEMMA OverWorks ==
  ASSUME WorkersOK, NEW w \in Workers, NEW l \in Links, NEW o \in Outcome,
         worker' = [worker EXCEPT ![w] = Over(w, l, o)]
  PROVE  WorkersOK' /\ Kept
<1> DEFINE r == Over(w, l, o)
<1>1. /\ r \in Worker /\ Sound(r)
      /\ r.phase = worker[w].phase /\ r.agents = worker[w].agents
  BY OverType
<1> HIDE DEF r
<1> QED BY <1>1, Works DEF r

\* A worker settles a link: what it writes changes nothing that is desired.
LEMMA SettleFacts ==
  ASSUME WorkersOK, NEW w \in Workers, NEW l \in Links, NEW o \in Outcome,
         NEW rows \in [Links -> Row], SettleIn(rows, w, l, o)
  PROVE  /\ WorkersOK' /\ Kept /\ row' \in [Links -> Row]
         /\ \A k \in Links : row'[k].desired = rows[k].desired
<1>1. worker' = [worker EXCEPT ![w] = Over(w, l, o)]
  BY DEF SettleIn
<1>2. WorkersOK' /\ Kept
  BY <1>1, OverWorks
<1>3. row' = [rows EXCEPT ![l] = Written(rows[l], l, o)] \/ row' = rows
  BY DEF SettleIn
<1>4. Written(rows[l], l, o) \in Row /\ Written(rows[l], l, o).desired = rows[l].desired
  BY WrittenType
<1> QED BY <1>2, <1>3, <1>4

\* A link is passed over.
LEMMA PassFacts ==
  ASSUME WorkersOK, NEW w \in Workers, NEW l, Pass(w, l)
  PROVE  WorkersOK' /\ Kept /\ row' = row /\ resv' = resv
<1> DEFINE r == [worker[w] EXCEPT !.todo = worker[w].todo \ {l}]
<1>1. worker[w] \in Worker /\ worker \in [Workers -> Worker]
  BY DEF WorkersOK
<1>2. r \in Worker /\ r.op = worker[w].op /\ r.link = worker[w].link /\ r.left = worker[w].left
      /\ r.phase = worker[w].phase /\ r.agents = worker[w].agents
  BY <1>1 DEF Worker
<1>3. worker' = [worker EXCEPT ![w] = r]
  BY <1>1 DEF Pass
<1> HIDE DEF r
<1>4. Sound(r)
  BY <1>2 DEF WorkersOK, Sound
<1> QED BY <1>2, <1>3, <1>4, Works DEF Pass

\* A worker begins to work on a link.
LEMMA BeginFacts ==
  ASSUME WorkersOK, NEW w \in Workers, NEW l \in Links, NEW op \in Op,
         NEW left \in SUBSET Endpoints, NEW held \in SUBSET Links, Begin(w, l, op, left, held)
  PROVE  WorkersOK' /\ Kept
<1> DEFINE all == worker[w].held \cup held
           r == [worker[w] EXCEPT !.op = op, !.link = l, !.left = left, !.held = all]
<1>1. worker[w] \in Worker /\ worker \in [Workers -> Worker]
  BY DEF WorkersOK
<1>2. all \in SUBSET Links
  BY <1>1 DEF Worker
<1>3. worker' = [worker EXCEPT ![w] = r]
  BY <1>1 DEF Begin, Worker
<1> HIDE DEF all
<1>4. r \in Worker /\ Sound(r)
      /\ r.phase = worker[w].phase /\ r.agents = worker[w].agents
  BY <1>1, <1>2 DEF Worker, Sound
<1> HIDE DEF r
<1> QED BY <1>3, <1>4, Works

\* The work of connecting a link, on rows in which none is missing, claims its
\* endpoints for a row that exists.
LEMMA CreateFacts ==
  ASSUME DBOK, WorkersOK, NEW w \in Workers, NEW l \in Links,
         NEW rows \in [Links -> Row], \A k \in Links : Exists(k) => rows[k].desired # "none",
         topo' \subseteq Links, CreateIn(rows, w, l)
  PROVE  DBOK' /\ WorkersOK' /\ Kept
<1>1. Ends(l) \in SUBSET Endpoints
  BY EndsIn
<1>2. CASE rows[l].desired = "none"
  <2>1. WorkersOK' /\ Kept /\ row' = row /\ resv' = resv
    BY <1>2, PassFacts DEF CreateIn
  <2>2. row' \in [Links -> Row] /\ Lives
    BY <2>1 DEF DBOK, Lives, Exists
  <2> QED BY <2>1, <2>2, LivesReserved
<1>3. CASE rows[l].desired # "none" /\ ~Claimable(l, rows)
  <2>1. SettleIn(rows, w, l, "error") /\ resv' = resv
    BY <1>3 DEF CreateIn
  <2>2. WorkersOK' /\ Kept /\ row' \in [Links -> Row]
        /\ \A k \in Links : row'[k].desired = rows[k].desired
    BY <2>1, SettleFacts DEF Outcome
  <2> QED BY <2>1, <2>2, LivesReserved DEF Lives
<1>4. CASE rows[l].desired # "none" /\ Claimable(l, rows)
  <2>1. /\ resv' = Claimed(resv, {l})
        /\ \/ \E o \in {"pending", "error"} : SettleIn(rows, w, l, o)
           \/ Begin(w, l, "create", Ends(l), Flushed(w) \cup {l}) /\ row' = rows
    BY <1>4 DEF CreateIn
  <2>2. CASE \E o \in {"pending", "error"} : SettleIn(rows, w, l, o)
    <3>1. WorkersOK' /\ Kept /\ row' \in [Links -> Row]
          /\ \A k \in Links : row'[k].desired = rows[k].desired
      BY <2>2, SettleFacts DEF Outcome
    <3> QED BY <1>4, <2>1, <3>1, ClaimedReserved DEF Lives
  <2>3. CASE Begin(w, l, "create", Ends(l), Flushed(w) \cup {l}) /\ row' = rows
    <3>1. WorkersOK' /\ Kept
      <4>1. Flushed(w) \cup {l} \in SUBSET Links /\ "create" \in Op
        BY DEF Flushed, Op
      <4> QED BY <1>1, <2>3, <4>1, BeginFacts
    <3> QED BY <1>4, <2>1, <2>3, <3>1, ClaimedReserved DEF Lives
  <2> QED BY <2>1, <2>2, <2>3
<1> QED BY <1>2, <1>3, <1>4

\* The beginning of a teardown takes no row away.
LEMMA TeardownFacts ==
  ASSUME DBOK, WorkersOK, NEW w \in Workers, NEW l \in Links, NEW captured,
         topo' \subseteq Links, BeginTeardown(w, l, captured)
  PROVE  DBOK' /\ WorkersOK' /\ Kept
<1>1. Ends(l) \in SUBSET Endpoints /\ row \in [Links -> Row]
  BY EndsIn DEF DBOK
<1>2. resv' = resv
  BY DEF BeginTeardown
<1>3. CASE \E o \in {"skipped", "deferred"} : SettleIn(row, w, l, o)
  <2>1. WorkersOK' /\ Kept /\ row' \in [Links -> Row]
        /\ \A k \in Links : row'[k].desired = row[k].desired
    BY <1>1, <1>3, SettleFacts DEF Outcome
  <2> QED BY <1>2, <2>1, LivesReserved DEF Lives, Exists
<1>4. CASE (\E held \in SUBSET Links : Begin(w, l, "teardown", Ends(l), held)) /\ row' = row
  <2>1. WorkersOK' /\ Kept
    BY <1>1, <1>4, BeginFacts DEF Op
  <2> QED BY <1>1, <1>2, <1>4, <2>1, LivesReserved DEF Lives, Exists
<1>5. (IF row[l].tunnel = "none" THEN {} ELSE Flushed(w)) \in SUBSET Links
  BY DEF Flushed
<1> QED BY <1>3, <1>4, <1>5 DEF BeginTeardown, Settle

-----------------------------------------------------------------------------
(* What agents do *)

\* A set of ports gets one tag.
LEMMA PutType ==
  ASSUME NEW f \in [Endpoints -> Links \cup {"none"}], NEW S, NEW v \in Links \cup {"none"}
  PROVE  Put(f, S, v) \in [Endpoints -> Links \cup {"none"}]
BY DEF Put

\* The effect of a call keeps the types of ports.
LEMMA EffectType ==
  ASSUME AgentsOK, NEW op \in Op \ {"none"}, NEW l \in Links, NEW S \in SUBSET Endpoints,
         Effect(op, l, S)
  PROVE  tag' \in [Endpoints -> Links \cup {"none"}] /\ vxlan' \in [Links -> SUBSET Endpoints]
<1>1. tag' = Put(tag, S, l) \/ tag' = Put(tag, S, "none")
  BY DEF Effect, Op
<1>2. vxlan' = vxlan \/ vxlan' = [vxlan EXCEPT ![l] = vxlan[l] \cup S]
      \/ vxlan' = [vxlan EXCEPT ![l] = vxlan[l] \ S]
  BY DEF Effect, Op
<1> QED BY <1>1, <1>2, PutType DEF AgentsOK

\* An answer is noted, and the worker goes on.
LEMMA AnswerFacts ==
  ASSUME WorkersOK, NEW w \in Workers, NEW S, NEW got \in SUBSET Endpoints,
         NEW why \in {"none", "missing", "failed"}, Answer(w, S, got, why)
  PROVE  WorkersOK' /\ Kept
<1> DEFINE left == IF why # "none" /\ worker[w].op = "teardown" THEN {} ELSE worker[w].left \ S
           all == worker[w].got \cup got
           fault == IF worker[w].why = "none" THEN why
                    ELSE IF why = "failed" THEN why ELSE worker[w].why
           r == [worker[w] EXCEPT !.left = left, !.got = all, !.why = fault]
<1>1. worker[w] \in Worker /\ worker \in [Workers -> Worker]
  BY DEF WorkersOK
<1>2. left \in SUBSET Endpoints /\ all \in SUBSET Endpoints /\ fault \in {"none", "missing", "failed"}
  BY <1>1 DEF Worker
<1>3. worker' = [worker EXCEPT ![w] = r]
  BY <1>1 DEF Answer, Worker
<1> HIDE DEF left, all, fault
<1>4. r \in Worker /\ Sound(r)
      /\ r.phase = worker[w].phase /\ r.agents = worker[w].agents
  <2>1. Sound(worker[w])
    BY DEF WorkersOK
  <2> QED BY <1>1, <1>2, <2>1 DEF Worker, Sound, left
<1> HIDE DEF r
<1> QED BY <1>3, <1>4, Works

\* A call of any worker keeps the invariant.
LEMMA CallInv ==
  ASSUME LinksInv, NEW w \in Workers, CallAgent(w)
  PROVE  LinksInv'
<1> DEFINE l == worker[w].link
           op == worker[w].op
<1>1. l \in Links /\ op \in Op \ {"none"} /\ worker[w].left \in SUBSET Endpoints
  BY DEF LinksInv, WorkersOK, Worker, Sound, CallAgent
<1>2. PICK S \in Called(w) :
        \/ /\ \E got \in {{}, S}, why \in {"none", "missing", "failed"} : Answer(w, S, got, why)
           /\ tag' = tag /\ vxlan' = vxlan
        \/ /\ \E got \in {{}, S}, why \in {"none", "missing", "failed"} : Answer(w, S, got, why)
           /\ Effect(op, l, S)
  BY DEF CallAgent
<1>3. S \in SUBSET Endpoints
  BY <1>1, EndsIn, LinksAssumption DEF Called, LinksAssumption
<1>4. WorkersOK' /\ Kept
  BY <1>2, <1>3, AnswerFacts DEF LinksInv
<1>5. AgentsOK'
  <2>1. ready' = ready /\ online' = online
    BY DEF CallAgent
  <2> QED BY <1>1, <1>2, <1>3, <2>1, EffectType DEF LinksInv, AgentsOK
<1>6. DBOK' /\ CycleOK' /\ holder' = holder
  BY DEF CallAgent, dbVars, LinksInv, DBOK, CycleOK, ReservedByRow, Exists
<1>7. SpentOK'
  BY SpentType DEF CallAgent, LinksInv
<1>8. LockOK'
  BY <1>4, <1>6, KeptLock DEF LinksInv
<1> QED BY <1>4, <1>5, <1>6, <1>7, <1>8 DEF LinksInv

-----------------------------------------------------------------------------
(* The steps of users *)

\* An edited topology: its rows, their reservations and the task for it.
LEMMA EditInv ==
  ASSUME LinksInv, NEW T \in SUBSET Links, EditTopology(T)
  PROVE  LinksInv'
<1>1. DBOK'
  BY UpsertedFacts DEF LinksInv, DBOK, ReservedByRow, Exists, EditTopology
<1>2. SpentOK' /\ AgentsOK' /\ CycleOK'
  BY SpentType DEF LinksInv, EditTopology, agentVars, AgentsOK, CycleOK
<1>3. holder' = holder
  BY DEF EditTopology
<1>4. WorkersOK' /\ LockOK'
  <2>1. CASE worker["task"].phase = "idle"
    <3> DEFINE info == [l \in Links |-> IF l \in Gone(T) THEN row[l].actual ELSE "none"]
               r == [Idle EXCEPT !.phase = "removed", !.info = info, !.todo = Gone(T),
                                 !.plus = Fresh(T)]
    <3>1. info \in [Links -> Actual \cup {"none"}]
      BY DEF LinksInv, DBOK, Row
    <3>2. Gone(T) \in SUBSET Links /\ Fresh(T) \in SUBSET Links /\ "removed" \in Phase
      BY DEF Gone, Fresh, Phase
    <3>3. worker' = [worker EXCEPT !["task"] = r]
      BY <2>1 DEF EditTopology
    <3> HIDE DEF info
    <3>4. r \in Worker /\ Sound(r)
      BY <3>1, <3>2, IdleType DEF Worker, Sound
    <3> HIDE DEF r
    <3>5. WorkersOK' /\ \A v \in Workers \ {"task"} : worker'[v] = worker[v]
      BY <3>3, <3>4, Works DEF Workers, LinksInv
    <3>6. LockOK'
      BY <1>3, <2>1, <3>5 DEF LinksInv, LockOK, Workers
    <3> QED BY <3>5, <3>6
  <2>2. CASE worker' = worker
    BY <1>3, <2>2 DEF LinksInv, WorkersOK, LockOK
  <2> QED BY <2>1, <2>2 DEF EditTopology
<1> QED BY <1>1, <1>2, <1>4 DEF LinksInv

\* The upsert of a listing.
LEMMA ListInv ==
  ASSUME LinksInv, ListLinks
  PROVE  LinksInv'
<1>1. DBOK'
  BY UpsertedFacts DEF LinksInv, DBOK, ReservedByRow, Exists, ListLinks
<1> QED BY <1>1 DEF LinksInv, ListLinks, agentVars, AgentsOK, WorkersOK, LockOK, SpentOK, CycleOK

\* A desired state that is set: links to be up claim their endpoints, links to be
\* down give theirs back, and their rows stay.
LEMMA SetDesiredInv ==
  ASSUME LinksInv, NEW S \in SUBSET Links, NEW d \in {"up", "down"}, SetDesired(S, d)
  PROVE  LinksInv'
<1> DEFINE up == UpsertedRow(topo)
           res == UpsertedResv(topo)
<1>1. /\ up \in [Links -> Row] /\ res \in [Endpoints -> Links \cup {"none"}]
      /\ \A l \in Links : Exists(l) => up[l].desired # "none"
      /\ \A e \in Endpoints : res[e] # "none" =>
            res[e] \in Links /\ up[res[e]].desired # "none" /\ e \in Ends(res[e])
  BY UpsertedFacts DEF LinksInv, DBOK
<1>2. /\ row' = [l \in Links |-> IF l \in S /\ up[l].desired # "none"
                                 THEN [up[l] EXCEPT !.desired = d] ELSE up[l]]
      /\ \A l \in S : up[l].desired # "none"
      /\ resv' = Claimed(res, S) \/ resv' = Released(res, S)
      /\ topo' = topo
  BY DEF SetDesired
<1> HIDE DEF up, res
<1>3. /\ row' \in [Links -> Row]
      /\ \A l \in Links : up[l].desired # "none" => row'[l].desired # "none"
  BY <1>1, <1>2 DEF Row, Desired
<1>4. /\ resv' \in [Endpoints -> Links \cup {"none"}]
      /\ \A e \in Endpoints : \/ resv'[e] \in {"none", res[e]}
                              \/ resv'[e] \in S /\ e \in Ends(resv'[e])
  <2>1. CASE resv' = Claimed(res, S)
    BY <1>1, <2>1, ClaimedFacts
  <2>2. CASE resv' = Released(res, S)
    BY <1>1, <2>2, ReleasedFacts
  <2> QED BY <1>2, <2>1, <2>2
<1>5. DBOK'
  BY <1>1, <1>2, <1>3, <1>4 DEF LinksInv, DBOK, ReservedByRow, Exists
<1>6. SpentOK'
  BY SpentType DEF LinksInv, SetDesired
<1> QED BY <1>5, <1>6 DEF LinksInv, SetDesired, agentVars, AgentsOK, WorkersOK, LockOK, CycleOK

\* A request that begins, while the request slot is free.
LEMMA HotInv ==
  ASSUME LinksInv, NEW l \in Links, HotConnect(l) \/ HotDisconnect(l)
  PROVE  LinksInv'
<1>1. online \in SUBSET Hosts /\ row[l].actual \in Actual
  BY DEF LinksInv, AgentsOK, DBOK, Row
<1>2. PICK r \in Worker : Sound(r) /\ worker' = [worker EXCEPT !["request"] = r]
  <2>1. CASE HotConnect(l)
    <3> DEFINE r == OneLink("connect", l)
    <3>1. r \in Worker /\ Sound(r)
      BY <1>1, IdleType DEF OneLink, Worker, Sound, Phase
    <3> QED BY <2>1, <3>1 DEF HotConnect
  <2>2. CASE HotDisconnect(l)
    <3> DEFINE info == [Idle.info EXCEPT ![l] = row[l].actual]
               r == [OneLink("removed", l) EXCEPT !.info = info]
    <3>1. info \in [Links -> Actual \cup {"none"}]
      BY <1>1, IdleType DEF Worker
    <3>2. worker' = [worker EXCEPT !["request"] = r]
      BY <2>2, IdleType DEF HotDisconnect, OneLink, Worker
    <3> HIDE DEF info
    <3>3. r \in Worker /\ Sound(r)
      BY <1>1, <3>1, IdleType DEF OneLink, Worker, Sound, Phase
    <3> QED BY <3>2, <3>3
  <2> QED BY <2>1, <2>2
<1>3. WorkersOK' /\ \A v \in Workers \ {"request"} : worker'[v] = worker[v]
  BY <1>2, Works DEF LinksInv, Workers
<1>4. LockOK'
  BY <1>3, OthersLock DEF LinksInv, HotConnect, HotDisconnect, Workers
<1>5. SpentOK'
  BY SpentType DEF LinksInv, HotConnect, HotDisconnect
<1>6. DBOK' /\ AgentsOK' /\ CycleOK'
  BY DEF LinksInv, HotConnect, HotDisconnect, dbVars, agentVars, DBOK, ReservedByRow, Exists,
         AgentsOK, CycleOK
<1> QED BY <1>3, <1>4, <1>5, <1>6 DEF LinksInv

\* The steps of users.
LEMMA UserInv ==
  ASSUME LinksInv, UserStep
  PROVE  LinksInv'
<1>1. \A S \in SUBSET Links, d \in {"up", "down"} : SetDesired(S, d) => LinksInv'
  BY SetDesiredInv
<1> QED BY <1>1, EditInv, ListInv, HotInv DEF UserStep, SetAllLinks, SetLink

-----------------------------------------------------------------------------
(* The end of the work on one link *)

\* Connecting or repairing ends: nothing that is desired changes.
LEMMA FinishCreateInv ==
  ASSUME LinksInv, NEW w \in Workers, FinishCreate(w)
  PROVE  LinksInv'
<1> DEFINE l == worker[w].link
<1>1. l \in Links /\ worker[w].got \in SUBSET Endpoints
  BY DEF LinksInv, WorkersOK, Sound, Worker, FinishCreate
<1>2. PICK o \in {"up", "pending", "error"} : SettleIn(row, w, l, o)
  BY DEF FinishCreate, Settle
<1>3. WorkersOK' /\ Kept /\ row' \in [Links -> Row]
      /\ \A k \in Links : row'[k].desired = row[k].desired
  BY <1>1, <1>2, SettleFacts DEF LinksInv, DBOK, Outcome
<1>4. topo' = topo /\ resv' = resv /\ ready' = ready /\ online' = online /\ holder' = holder
      /\ cycle' = cycle /\ spent' = spent
  BY DEF FinishCreate
<1>5. DBOK'
  BY <1>3, <1>4, LivesReserved DEF LinksInv, Lives, Exists, DBOK
<1>6. AgentsOK'
  <2>1. CASE tag' = tag /\ vxlan' = vxlan
    BY <1>4, <2>1 DEF LinksInv, AgentsOK
  <2>2. CASE RollBack(w)
    BY <1>1, <1>4, <2>2, PutType DEF LinksInv, AgentsOK, RollBack
  <2> QED BY <2>1, <2>2 DEF FinishCreate
<1>7. LockOK'
  BY <1>3, <1>4, KeptLock DEF LinksInv
<1> QED BY <1>3, <1>4, <1>5, <1>6, <1>7 DEF LinksInv, SpentOK, CycleOK

\* A teardown ends.
LEMMA FinishTeardownInv ==
  ASSUME LinksInv, NEW w \in Workers, FinishTeardown(w)
  PROVE  LinksInv'
<1> DEFINE l == worker[w].link
<1>1. l \in Links /\ worker[w].got \in SUBSET Endpoints /\ row \in [Links -> Row] /\ row[l] \in Row
  BY DEF LinksInv, DBOK, WorkersOK, Sound, Worker, FinishTeardown
<1>2. topo' = topo /\ ready' = ready /\ online' = online /\ holder' = holder
      /\ cycle' = cycle /\ spent' = spent
  BY DEF FinishTeardown
<1>3. AgentsOK'
  <2>1. PICK back \in SUBSET Endpoints :
          tag' = Put(tag, back, l) /\ vxlan' = [vxlan EXCEPT ![l] = vxlan[l] \cup back]
    <3> DEFINE back == IF worker[w].why # "none" /\ row[l].tunnel # "none"
                       THEN {e \in worker[w].got : Host[e] \in online /\ e \in ready} ELSE {}
    <3>1. back \in SUBSET Endpoints
      BY <1>1
    <3>2. tag' = Put(tag, back, l) /\ vxlan' = [vxlan EXCEPT ![l] = vxlan[l] \cup back]
      BY DEF FinishTeardown
    <3> QED BY <3>1, <3>2
  <2> QED BY <1>1, <1>2, <2>1, PutType DEF LinksInv, AgentsOK
<1>4. DBOK' /\ WorkersOK' /\ Kept
  <2>1. resv' = resv /\ \E o \in {"torn", "untorn"} : SettleIn(row, w, l, o)
    BY DEF FinishTeardown, Settle
  <2>2. WorkersOK' /\ Kept /\ row' \in [Links -> Row]
        /\ \A k \in Links : row'[k].desired = row[k].desired
    BY <1>1, <2>1, SettleFacts DEF LinksInv, Outcome
  <2> QED BY <1>2, <2>1, <2>2, LivesReserved DEF LinksInv, Lives, Exists, DBOK
<1>5. LockOK'
  BY <1>2, <1>4, KeptLock DEF LinksInv
<1> QED BY <1>2, <1>3, <1>4, <1>5 DEF LinksInv, SpentOK, CycleOK

\* The outcome of a transaction, row by row.
LEMMA CommitRows ==
  ASSUME DBOK, NEW S \in SUBSET Links,
         row' = [l \in Links |-> row'[l]],
         \A l \in S : row'[l] = NoRow,
         \A l \in Links \ S : row'[l] \in Row /\ row'[l].desired = row[l].desired,
         topo' = topo, resv' = Released(resv, S)
  PROVE  DBOK'
<1>1. row' \in [Links -> Row]
  BY RowsOfInit
<1> QED BY <1>1, RemovedReserved DEF Exists

-----------------------------------------------------------------------------
(* The link monitor *)

\* A step of the monitor leaves the lock alone.
LEMMA MonitorWorks ==
  ASSUME WorkersOK, LockOK, NEW r \in Worker, Sound(r),
         worker' = [worker EXCEPT !["monitor"] = r], holder' = holder
  PROVE  WorkersOK' /\ LockOK'
<1>1. WorkersOK' /\ \A v \in Workers \ {"monitor"} : worker'[v] = worker[v]
  BY Works DEF Workers
<1> QED BY <1>1, OthersLock DEF Workers

\* It enters a phase with nothing under way.
LEMMA EnterWorks ==
  ASSUME WorkersOK, LockOK, NEW phase \in Phase, NEW rows \in SUBSET Links,
         Enter(phase, rows), holder' = holder
  PROVE  WorkersOK' /\ LockOK'
<1> DEFINE m == worker["monitor"]
           r == [m EXCEPT !.phase = phase, !.todo = rows]
<1>1. m \in Worker /\ Sound(m)
  BY DEF WorkersOK, Workers
<1>2. r \in Worker /\ Sound(r)
  BY <1>1 DEF Worker, Sound
<1>3. worker' = [worker EXCEPT !["monitor"] = r]
  BY <1>1 DEF Enter, WorkersOK, Workers, Worker
<1> HIDE DEF r
<1> QED BY <1>2, <1>3, MonitorWorks

\* It enters a phase anew.
LEMMA TurnWorks ==
  ASSUME WorkersOK, LockOK, NEW phase \in Phase, NEW plus \in SUBSET Links,
         NEW left \in SUBSET Endpoints, NEW todo \in SUBSET Links,
         Turn(phase, plus, left, todo), holder' = holder
  PROVE  WorkersOK' /\ LockOK'
<1> DEFINE m == worker["monitor"]
           r == [Idle EXCEPT !.phase = phase, !.agents = m.agents, !.plus = plus, !.left = left,
                             !.todo = todo]
<1>1. m.agents \in SUBSET Hosts
  BY DEF WorkersOK, Workers, Worker
<1>2. r \in Worker /\ Sound(r)
  BY <1>1, IdleType DEF Worker, Sound, Idle
<1>3. worker' = [worker EXCEPT !["monitor"] = r]
  BY DEF Turn
<1> HIDE DEF r
<1> QED BY <1>2, <1>3, MonitorWorks

LEMMA SweptWorks ==
  ASSUME WorkersOK, LockOK, NEW phase \in Phase, NEW todo \in SUBSET Links,
         Swept(phase, todo), holder' = holder
  PROVE  WorkersOK' /\ LockOK'
<1> DEFINE m == worker["monitor"]
           r == [Idle EXCEPT !.phase = phase, !.agents = m.agents, !.todo = todo]
<1>1. m.agents \in SUBSET Hosts
  BY DEF WorkersOK, Workers, Worker
<1>2. r \in Worker /\ Sound(r)
  BY <1>1, IdleType DEF Worker, Sound, Idle
<1>3. worker' = [worker EXCEPT !["monitor"] = r]
  BY DEF Swept
<1> HIDE DEF r
<1> QED BY <1>2, <1>3, MonitorWorks

\* It has gone on to some of its endpoints.
LEMMA TicksWorks ==
  ASSUME WorkersOK, LockOK, NEW left \in SUBSET Endpoints, NEW got \in SUBSET Endpoints,
         worker' = [worker EXCEPT !["monitor"].left = left, !["monitor"].got = got],
         holder' = holder
  PROVE  WorkersOK' /\ LockOK'
<1> DEFINE m == worker["monitor"]
           r == [m EXCEPT !.left = left, !.got = got]
<1>1. m \in Worker /\ Sound(m) /\ worker \in [Workers -> Worker] /\ "monitor" \in Workers
  BY DEF WorkersOK, Workers
<1>2. r \in Worker /\ Sound(r)
  BY <1>1 DEF Worker, Sound
<1>3. worker' = [worker EXCEPT !["monitor"] = r]
  BY <1>1 DEF Worker
<1> HIDE DEF r
<1> QED BY <1>2, <1>3, MonitorWorks

\* Phases begin and end without touching rows.
LEMMA WakeInv ==
  ASSUME LinksInv, Wake \/ NextPhase
  PROVE  LinksInv'
<1>1. DBOK' /\ AgentsOK' /\ SpentOK' /\ holder' = holder
  BY DEF Wake, NextPhase, dbVars, agentVars, LinksInv, DBOK, ReservedByRow, Exists, AgentsOK, SpentOK
<1>2. CycleOK'
  BY LinksAssumption DEF Wake, NextPhase, LinksInv, CycleOK, LinksAssumption
<1>3. WorkersOK' /\ LockOK'
  <2>1. CASE Wake
    <3> DEFINE rows == {l \in Links : row[l].desired = "deleted"}
               info == [l \in Links |-> IF l \in rows THEN row[l].actual ELSE "none"]
               r == [Idle EXCEPT !.phase = "deleted", !.agents = online, !.todo = rows,
                                 !.info = info]
    <3>1. r \in Worker /\ Sound(r)
      <4>1. rows \in SUBSET Links /\ online \in SUBSET Hosts /\ "deleted" \in Phase
        BY DEF LinksInv, AgentsOK, Phase
      <4>2. info \in [Links -> Actual \cup {"none"}]
        BY DEF LinksInv, DBOK, Row
      <4> HIDE DEF rows, info
      <4> QED BY <4>1, <4>2, IdleType DEF Worker, Sound
    <3>2. worker' = [worker EXCEPT !["monitor"] = r]
      BY <2>1 DEF Wake
    <3> HIDE DEF r
    <3> QED BY <1>1, <3>1, <3>2, MonitorWorks DEF LinksInv
  <2>2. CASE NextPhase
    <3>1. PICK rows \in SUBSET Links : Enter("orphans", rows)
      BY <2>2 DEF NextPhase
    <3>2. "orphans" \in Phase
      BY DEF Phase
    <3> QED BY <1>1, <3>1, <3>2, EnterWorks DEF LinksInv
  <2> QED BY <2>1, <2>2
<1> QED BY <1>1, <1>2, <1>3 DEF LinksInv

\* Reservations are healed: only rows desired up have one then.
LEMMA HealInv ==
  ASSUME LinksInv, HealReservations
  PROVE  LinksInv'
<1> DEFINE off == {l \in Links : row[l].desired # "up"}
           on == {l \in Links : row[l].desired = "up"
                                /\ \A k \in Links : Share(k, l) => row[k].desired # "up"}
           kept == Released(resv, off)
<1>1. resv \in [Endpoints -> Links \cup {"none"}]
      /\ \A e \in Endpoints : resv[e] # "none" => resv[e] \in Links /\ Exists(resv[e]) /\ e \in Ends(resv[e])
  BY DEF LinksInv, DBOK, ReservedByRow
<1>2. kept \in [Endpoints -> Links \cup {"none"}] /\ \A e \in Endpoints : kept[e] \in {"none", resv[e]}
  BY <1>1, ReleasedFacts
<1>3. on \in SUBSET Links /\ \A l \in on : Exists(l)
  BY DEF Exists
<1>4. resv' = Claimed(kept, on) /\ row' = row /\ topo' = topo
  BY DEF HealReservations
<1> HIDE DEF on, kept
<1>5. /\ resv' \in [Endpoints -> Links \cup {"none"}]
      /\ \A e \in Endpoints : resv'[e] = kept[e] \/ (resv'[e] \in on /\ e \in Ends(resv'[e]))
  BY <1>2, <1>3, <1>4, ClaimedFacts
<1>6. DBOK'
  BY <1>1, <1>2, <1>3, <1>4, <1>5 DEF LinksInv, DBOK, ReservedByRow, Exists
<1>7. WorkersOK' /\ LockOK'
  BY EnterWorks DEF HealReservations, LinksInv, Phase
<1> QED BY <1>6, <1>7 DEF HealReservations, LinksInv, agentVars, AgentsOK, SpentOK, CycleOK

\* The declared state of the overlay is read, sent and noted on the rows.
LEMMA OverlayInv ==
  ASSUME LinksInv, ReadOverlay \/ CommitOverlay \/ \E h \in Hosts : DeclareOverlay(h)
  PROVE  LinksInv'
<1> DEFINE m == worker["monitor"]
<1>1. m \in Worker /\ row \in [Links -> Row] /\ topo \subseteq Links
  BY DEF LinksInv, WorkersOK, Workers, DBOK
<1>2. CASE ReadOverlay
  <2>1. PICK plus \in SUBSET Links, left \in SUBSET Endpoints, todo \in SUBSET Links :
          Turn("declare", plus, left, todo)
    <3>1. /\ Declared \in SUBSET Links /\ Known \in SUBSET Endpoints
          /\ {l \in Declared : row[l].att # Ends(l)} \in SUBSET Links
      BY DEF Declared, Known
    <3> QED BY <1>2, <3>1 DEF ReadOverlay
  <2>2. WorkersOK' /\ LockOK'
    BY <1>2, <2>1, TurnWorks DEF ReadOverlay, LinksInv, Phase
  <2> QED BY <1>2, <2>2 DEF ReadOverlay, dbVars, agentVars, LinksInv, DBOK, ReservedByRow, Exists,
                            AgentsOK, SpentOK, CycleOK
<1>3. ASSUME NEW h \in Hosts, DeclareOverlay(h) PROVE LinksInv'
  <2> DEFINE S == IF h \in online THEN On(h) ELSE {}
             left == m.left \ On(h)
             got == m.got \cup S
  <2>1. left \in SUBSET Endpoints /\ got \in SUBSET Endpoints
    BY <1>1 DEF Worker, On
  <2>2. worker' = [worker EXCEPT !["monitor"].left = left, !["monitor"].got = got] /\ holder' = holder
    BY <1>3 DEF DeclareOverlay
  <2>3. WorkersOK' /\ LockOK'
    BY <2>1, <2>2, TicksWorks DEF LinksInv
  <2>4. vxlan' \in [Links -> SUBSET Endpoints]
    BY <1>3 DEF DeclareOverlay
  <2> QED BY <1>3, <2>3, <2>4 DEF DeclareOverlay, dbVars, LinksInv, DBOK, ReservedByRow, Exists,
                                  AgentsOK, SpentOK, CycleOK
<1>4. CASE CommitOverlay
  <2>1. row' \in [Links -> Row] /\ Lives
    <3>1. ASSUME NEW l \in Links PROVE row'[l] \in Row /\ row'[l].desired = row[l].desired
      <4>1. row[l] \in Row /\ Ends(l) \subseteq Endpoints
        BY <1>1, EndsIn
      <4>2. row[l].att \cup (Ends(l) \cap m.got) \in SUBSET Endpoints
        BY <4>1 DEF Row
      <4>3. row'[l] = row[l] \/ row'[l] = [row[l] EXCEPT !.att = row[l].att \cup (Ends(l) \cap m.got)]
        BY <1>4 DEF CommitOverlay
      <4> QED BY <4>1, <4>2, <4>3 DEF Row
    <3>2. row' = [l \in Links |-> row'[l]]
      BY <1>4 DEF CommitOverlay
    <3> QED BY <3>1, <3>2 DEF Lives, Exists
  <2>2. DBOK'
    BY <1>1, <1>4, <2>1, LivesReserved DEF CommitOverlay, LinksInv
  <2>3. WorkersOK' /\ LockOK'
    BY <1>4, TurnWorks DEF CommitOverlay, LinksInv, Phase
  <2> QED BY <1>4, <2>2, <2>3 DEF CommitOverlay, agentVars, LinksInv, AgentsOK, SpentOK, CycleOK
<1> QED BY <1>2, <1>3, <1>4

\* Ports are pushed with tags of links.
LEMMA PushInv ==
  ASSUME LinksInv, NEW S \in SUBSET Endpoints, PushPorts(S)
  PROVE  LinksInv'
<1> DEFINE m == worker["monitor"]
           left == m.left \ S
<1>1. m \in Worker /\ worker \in [Workers -> Worker] /\ "monitor" \in Workers
  BY DEF LinksInv, WorkersOK, Workers
<1>2. WorkersOK' /\ LockOK'
  <2>1. worker' = [worker EXCEPT !["monitor"].left = left, !["monitor"].got = m.got]
    BY <1>1 DEF PushPorts, Worker
  <2>2. left \in SUBSET Endpoints /\ m.got \in SUBSET Endpoints /\ holder' = holder
    BY <1>1 DEF Worker, PushPorts
  <2> QED BY <2>1, <2>2, TicksWorks DEF LinksInv
<1>3. tag' \in [Endpoints -> Links \cup {"none"}]
  BY DEF PushPorts
<1> QED BY <1>2, <1>3 DEF PushPorts, dbVars, LinksInv, DBOK, ReservedByRow, Exists, AgentsOK,
                          SpentOK, CycleOK

\* The ports to push are read, and at the end the monitor sleeps.
LEMMA PortsInv ==
  ASSUME LinksInv, \/ ReadPorts \/ ReadPairs \/ Sleep
                   \/ (\E e \in Endpoints : PushPort(e)) \/ (\E h \in Hosts : PushPairs(h))
  PROVE  LinksInv'
<1>1. CASE ReadPorts \/ ReadPairs
  <2>1. PICK phase \in {"push", "pair"}, plus \in SUBSET Links, left \in SUBSET Endpoints :
          Turn(phase, plus, left, {})
    <3>1. Ups(TRUE) \in SUBSET Links /\ Ups(FALSE) \in SUBSET Links /\ Known \in SUBSET Endpoints
      BY DEF Ups, Known
    <3>2. {e \in Known \cap ready : Host[e] \in online
              /\ \E l \in Ups(TRUE) : e \in Ends(l) /\ tag[e] # l} \in SUBSET Endpoints
      BY <3>1
    <3>3. {e \in Known : \E l \in Ups(FALSE) : e \in Ends(l)} \in SUBSET Endpoints
      BY <3>1
    <3> QED BY <1>1, <3>1, <3>2, <3>3 DEF ReadPorts, ReadPairs
  <2>2. WorkersOK' /\ LockOK'
    BY <1>1, <2>1, TurnWorks DEF ReadPorts, ReadPairs, LinksInv, Phase
  <2> QED BY <1>1, <2>2 DEF ReadPorts, ReadPairs, dbVars, agentVars, LinksInv, DBOK, ReservedByRow,
                            Exists, AgentsOK, SpentOK, CycleOK
<1>2. CASE Sleep
  <2>1. WorkersOK' /\ LockOK'
    BY <1>2, MonitorWorks, IdleType DEF Sleep, LinksInv
  <2> QED BY <1>2, <2>1 DEF Sleep, dbVars, agentVars, LinksInv, DBOK, ReservedByRow, Exists,
                            AgentsOK, SpentOK, CycleOK
<1>3. ASSUME NEW e \in Endpoints, PushPort(e) PROVE LinksInv'
  BY <1>3, PushInv DEF PushPort
<1>4. ASSUME NEW h \in Hosts, PushPairs(h) PROVE LinksInv'
  <2>1. On(h) \in SUBSET Endpoints
    BY DEF On, LinksInv, WorkersOK, Workers, Worker
  <2> QED BY <1>4, <2>1, PushInv DEF PushPairs
<1> QED BY <1>1, <1>2, <1>3, <1>4

\* A deleted link is torn down or put off, in any case kept for the transaction.
LEMMA CleanupDeletedInv ==
  ASSUME LinksInv, NEW l \in Links, CleanupDeleted(l)
  PROVE  LinksInv'
<1>1. topo' = topo /\ holder' = holder /\ AgentsOK' /\ SpentOK' /\ CycleOK' /\ "monitor" \in Workers
  BY DEF CleanupDeleted, agentVars, LinksInv, AgentsOK, SpentOK, CycleOK, Workers
<1>2. row \in [Links -> Row] /\ topo \subseteq Links
  BY DEF LinksInv, DBOK
<1>3. CASE BeginTeardown("monitor", l, worker["monitor"].info[l])
  <2>1. DBOK' /\ WorkersOK' /\ Kept
    BY <1>1, <1>2, <1>3, TeardownFacts DEF LinksInv
  <2> QED BY <1>1, <2>1, KeptLock DEF LinksInv
<1>4. CASE SettleIn(row, "monitor", l, "deferred") /\ resv' = resv
  <2>1. WorkersOK' /\ Kept /\ row' \in [Links -> Row]
        /\ \A k \in Links : row'[k].desired = row[k].desired
    BY <1>1, <1>2, <1>4, SettleFacts DEF LinksInv, Outcome
  <2>2. DBOK'
    BY <1>1, <1>2, <1>4, <2>1, LivesReserved DEF LinksInv, Lives, Exists
  <2> QED BY <1>1, <2>1, <2>2, KeptLock DEF LinksInv
<1> QED BY <1>3, <1>4 DEF CleanupDeleted, Settle

\* A check of one row begins some work on it, settles it or leaves it.
LEMMA CheckInv ==
  ASSUME LinksInv, NEW l \in Links, CheckLink(l)
  PROVE  LinksInv'
<1>1. topo' = topo /\ holder' = holder /\ AgentsOK' /\ SpentOK' /\ CycleOK' /\ "monitor" \in Workers
  BY DEF CheckLink, agentVars, LinksInv, AgentsOK, SpentOK, CycleOK, Workers
<1>2. row \in [Links -> Row] /\ topo \subseteq Links /\ Ends(l) \in SUBSET Endpoints
  BY EndsIn DEF LinksInv, DBOK
<1>3. SUFFICES DBOK' /\ WorkersOK' /\ Kept
  BY <1>1, KeptLock DEF LinksInv
<1>4. CASE Pass("monitor", l)
  <2>1. WorkersOK' /\ Kept /\ row' = row /\ resv' = resv
    BY <1>1, <1>4, PassFacts DEF LinksInv
  <2> QED BY <1>1, <1>2, <2>1, LivesReserved DEF LinksInv, Lives, Exists
<1>5. CASE BeginCreate("monitor", l)
  BY <1>1, <1>2, <1>5, CreateFacts DEF LinksInv, BeginCreate, Exists
<1>6. CASE BeginTeardown("monitor", l, "up")
  BY <1>1, <1>2, <1>6, TeardownFacts DEF LinksInv
<1>7. CASE row' = row /\ resv' = resv
           /\ \E op \in {"recover", "retag", "repair"}, left \in SUBSET Ends(l) :
                Begin("monitor", l, op, left, {l})
  <2>1. WorkersOK' /\ Kept
    <3>1. \A op \in {"recover", "retag", "repair"} : op \in Op
      BY DEF Op
    <3> QED BY <1>1, <1>2, <1>7, <3>1, BeginFacts DEF LinksInv
  <2> QED BY <1>1, <1>2, <1>7, <2>1, LivesReserved DEF LinksInv, Lives, Exists
<1>8. CASE resv' = resv /\ Settle("monitor", l, "recovered")
  <2>1. WorkersOK' /\ Kept /\ row' \in [Links -> Row]
        /\ \A k \in Links : row'[k].desired = row[k].desired
    BY <1>1, <1>2, <1>8, SettleFacts DEF LinksInv, Outcome, Settle
  <2> QED BY <1>1, <1>2, <1>8, <2>1, LivesReserved DEF LinksInv, Lives, Exists
<1>9. CASE row' = row /\ resv' = resv
           /\ worker' = [worker EXCEPT !["monitor"].op = "repair", !["monitor"].link = l,
                                       !["monitor"].why = "failed"]
  <2> DEFINE m == worker["monitor"]
             r == [m EXCEPT !.op = "repair", !.link = l, !.why = "failed"]
  <2>1. m \in Worker /\ worker \in [Workers -> Worker]
    BY DEF LinksInv, WorkersOK, Workers
  <2>2. r \in Worker /\ Sound(r) /\ r.phase = m.phase /\ r.agents = m.agents
    BY <2>1 DEF Worker, Sound, Op
  <2>3. worker' = [worker EXCEPT !["monitor"] = r]
    BY <1>1, <1>9, <2>1 DEF Worker
  <2> HIDE DEF r
  <2>4. WorkersOK' /\ Kept
    BY <1>1, <2>2, <2>3, Works DEF LinksInv
  <2> QED BY <1>1, <1>2, <1>9, <2>4, LivesReserved DEF LinksInv, Lives, Exists
<1>10. \/ Pass("monitor", l) \/ BeginCreate("monitor", l) \/ BeginTeardown("monitor", l, "up")
       \/ resv' = resv /\ Settle("monitor", l, "recovered")
       \/ row' = row /\ resv' = resv
          /\ \E op \in {"recover", "retag", "repair"}, left \in SUBSET Ends(l) :
               Begin("monitor", l, op, left, {l})
       \/ row' = row /\ resv' = resv
          /\ worker' = [worker EXCEPT !["monitor"].op = "repair", !["monitor"].link = l,
                                      !["monitor"].why = "failed"]
  BY DEF CheckLink
<1> QED BY <1>4, <1>5, <1>6, <1>7, <1>8, <1>9, <1>10

\* A tunnel that is to be cleaned up is taken off its agents first.
LEMMA DetachFacts ==
  ASSUME WorkersOK, LockOK, NEW l \in Links, Detach(l), holder' = holder
  PROVE  WorkersOK' /\ LockOK'
<1> DEFINE m == worker["monitor"]
           known == {e \in Ends(l) : Host[e] \in m.agents}
           why == IF known = Ends(l) THEN "none" ELSE "failed"
           r == [m EXCEPT !.op = "detach", !.link = l, !.left = known, !.why = why]
<1>1. m \in Worker /\ worker \in [Workers -> Worker] /\ "monitor" \in Workers
  BY DEF WorkersOK, Workers
<1>2. known \in SUBSET Endpoints /\ why \in {"none", "failed"} /\ "detach" \in Op
  BY EndsIn DEF Op
<1>3. worker' = [worker EXCEPT !["monitor"] = r]
  BY <1>1 DEF Detach, Worker
<1> HIDE DEF known, why
<1>4. r \in Worker /\ Sound(r)
  BY <1>1, <1>2 DEF Worker, Sound
<1> HIDE DEF r
<1> QED BY <1>3, <1>4, MonitorWorks

LEMMA CleanupOrphanInv ==
  ASSUME LinksInv, NEW l \in Links, CleanupOrphan(l) \/ CleanupTunnel(l)
  PROVE  LinksInv'
<1>1. /\ topo' = topo /\ resv' = resv /\ holder' = holder /\ AgentsOK' /\ SpentOK' /\ CycleOK'
      /\ "monitor" \in Workers /\ row \in [Links -> Row] /\ topo \subseteq Links
  BY DEF CleanupOrphan, CleanupTunnel, dbVars, agentVars, LinksInv, DBOK, AgentsOK, SpentOK,
         CycleOK, Workers
<1>2. CASE SettleIn(row, "monitor", l, "torn")
  <2>1. WorkersOK' /\ Kept /\ row' \in [Links -> Row]
        /\ \A k \in Links : row'[k].desired = row[k].desired
    BY <1>1, <1>2, SettleFacts DEF LinksInv, Outcome
  <2>2. DBOK'
    BY <1>1, <2>1, LivesReserved DEF LinksInv, Lives, Exists
  <2> QED BY <1>1, <2>1, <2>2, KeptLock DEF LinksInv
<1>3. CASE Detach(l) /\ row' = row
  <2>1. WorkersOK' /\ LockOK'
    BY <1>1, <1>3, DetachFacts DEF LinksInv
  <2>2. DBOK'
    BY <1>1, <1>3, LivesReserved DEF LinksInv, Lives, Exists
  <2> QED BY <1>1, <2>1, <2>2 DEF LinksInv
<1> QED BY <1>2, <1>3 DEF CleanupOrphan, CleanupTunnel, Settle, dbVars

\* It is off them, or one of them did not do it.
LEMMA DetachInv ==
  ASSUME LinksInv, FinishDetach
  PROVE  LinksInv'
<1> DEFINE l == worker["monitor"].link
<1>1. /\ topo' = topo /\ resv' = resv /\ holder' = holder /\ AgentsOK' /\ SpentOK' /\ CycleOK'
      /\ "monitor" \in Workers /\ row \in [Links -> Row] /\ topo \subseteq Links
  BY DEF FinishDetach, agentVars, LinksInv, DBOK, AgentsOK, SpentOK, CycleOK, Workers
<1>2. l \in Links
  BY <1>1 DEF FinishDetach, LinksInv, WorkersOK, Sound
<1>3. \E o \in {"torn", "untorn"} : SettleIn(row, "monitor", l, o)
  BY DEF FinishDetach, Settle
<1>4. WorkersOK' /\ Kept /\ row' \in [Links -> Row]
      /\ \A k \in Links : row'[k].desired = row[k].desired
  BY <1>1, <1>2, <1>3, SettleFacts DEF LinksInv, Outcome
<1>5. DBOK'
  BY <1>1, <1>4, LivesReserved DEF LinksInv, Lives, Exists
<1> QED BY <1>1, <1>4, <1>5, KeptLock DEF LinksInv

\* A mark for another try leaves a row what it is.
LEMMA MarkedType ==
  ASSUME NEW r \in Row
  PROVE  Marked(r) \in Row /\ Marked(r).desired = r.desired
BY DEF Marked, Row, Tunnel

\* The transactions that end the cleanup phases: rows that go take their
\* reservations with them.
LEMMA SweepInv ==
  ASSUME LinksInv, CommitDeleted \/ CommitOrphans \/ CommitTunnels
  PROVE  LinksInv'
<1>1. /\ topo' = topo /\ holder' = holder /\ AgentsOK' /\ SpentOK' /\ CycleOK'
      /\ row \in [Links -> Row] /\ topo \subseteq Links
  BY DEF CommitDeleted, CommitOrphans, CommitTunnels, agentVars, LinksInv, DBOK, AgentsOK, SpentOK,
         CycleOK
<1>2. WorkersOK' /\ LockOK'
  <2>1. PICK phase \in {"check", "tunnels", "reserve", "overlay"}, todo \in SUBSET Links :
          Swept(phase, todo)
    BY DEF CommitDeleted, CommitOrphans, CommitTunnels
  <2> QED BY <1>1, <2>1, SweptWorks DEF LinksInv, Phase
<1>3. DBOK'
  <2>1. CASE CommitDeleted
    <3> DEFINE S == Came({"torn", "skipped"})
    <3>1. S \in SUBSET Links /\ resv' = Released(resv, S)
      BY <2>1 DEF CommitDeleted, Came
    <3>2. \A l \in S : row'[l] = NoRow
      BY <2>1, <3>1 DEF CommitDeleted
    <3>3. ASSUME NEW l \in Links \ S PROVE row'[l] \in Row /\ row'[l].desired = row[l].desired
      <4>1. row'[l] \in {Marked(Written(row[l], l, "untorn")), Marked(row[l]), row[l]}
        BY <2>1 DEF CommitDeleted
      <4> QED BY <1>1, <4>1, MarkedType, WrittenType
    <3>4. row' = [l \in Links |-> row'[l]]
      BY <2>1 DEF CommitDeleted
    <3> HIDE DEF S
    <3> QED BY <1>1, <3>1, <3>2, <3>3, <3>4, CommitRows DEF LinksInv
  <2>2. CASE CommitOrphans
    <3> DEFINE S == Came({"torn"})
    <3>1. S \in SUBSET Links /\ resv' = Released(resv, S)
      BY <2>2 DEF CommitOrphans, Came
    <3>2. \A l \in S : row'[l] = NoRow
      BY <2>2, <3>1 DEF CommitOrphans
    <3>3. ASSUME NEW l \in Links \ S PROVE row'[l] \in Row /\ row'[l].desired = row[l].desired
      <4>1. row'[l] \in {Marked(row[l]), row[l]}
        BY <2>2 DEF CommitOrphans
      <4> QED BY <1>1, <4>1, MarkedType
    <3>4. row' = [l \in Links |-> row'[l]]
      BY <2>2 DEF CommitOrphans
    <3> HIDE DEF S
    <3> QED BY <1>1, <3>1, <3>2, <3>3, <3>4, CommitRows DEF LinksInv
  <2>3. CASE CommitTunnels
    <3>1. ASSUME NEW l \in Links PROVE row'[l] \in Row /\ row'[l].desired = row[l].desired
      <4>1. row'[l] \in {[row[l] EXCEPT !.tunnel = "none"], Marked(row[l]), row[l]}
        BY <2>3 DEF CommitTunnels
      <4>2. [row[l] EXCEPT !.tunnel = "none"] \in Row
            /\ [row[l] EXCEPT !.tunnel = "none"].desired = row[l].desired
        BY <1>1 DEF Row, Tunnel
      <4> QED BY <1>1, <4>1, <4>2, MarkedType
    <3>2. row' = [l \in Links |-> row'[l]] /\ resv' = resv
      BY <2>3 DEF CommitTunnels
    <3> QED BY <1>1, <3>1, <3>2, LivesReserved DEF LinksInv, Lives, Exists
  <2> QED BY <2>1, <2>2, <2>3
<1> QED BY <1>1, <1>2, <1>3 DEF LinksInv

\* A VLAN repair ends, or goes on as a full one.
LEMMA RetagInv ==
  ASSUME LinksInv, FinishRetag
  PROVE  LinksInv'
<1> DEFINE m == worker["monitor"]
           l == m.link
<1>1. m \in Worker /\ l \in Links /\ "monitor" \in Workers /\ worker \in [Workers -> Worker]
  BY DEF LinksInv, WorkersOK, Sound, Workers, FinishRetag
<1>2. row \in [Links -> Row] /\ topo \subseteq Links
  BY DEF LinksInv, DBOK
<1>3. topo' = topo /\ resv' = resv /\ holder' = holder /\ AgentsOK' /\ SpentOK' /\ CycleOK'
  BY DEF FinishRetag, agentVars, LinksInv, AgentsOK, SpentOK, CycleOK
<1>4. CASE \E o \in {"recovered", "skipped"} : SettleIn(row, "monitor", l, o)
  <2>1. WorkersOK' /\ Kept /\ row' \in [Links -> Row]
        /\ \A k \in Links : row'[k].desired = row[k].desired
    BY <1>1, <1>2, <1>4, SettleFacts DEF LinksInv, Outcome
  <2>2. DBOK'
    BY <1>2, <1>3, <2>1, LivesReserved DEF LinksInv, Lives, Exists
  <2> QED BY <1>3, <2>1, <2>2, KeptLock DEF LinksInv
<1>5. CASE row' = row /\ worker' = [worker EXCEPT !["monitor"].op = "repair", !["monitor"].got = {},
                              !["monitor"].why = "none", !["monitor"].left = Ends(l)]
  <2> DEFINE r == [m EXCEPT !.op = "repair", !.got = {}, !.why = "none", !.left = Ends(l)]
  <2>1. r \in Worker /\ Sound(r)
    <3>1. Ends(l) \in SUBSET Endpoints /\ "repair" \in Op
      BY <1>1, EndsIn DEF Op
    <3> QED BY <1>1, <3>1 DEF Worker, Sound
  <2>2. worker' = [worker EXCEPT !["monitor"] = r]
    BY <1>1, <1>5 DEF Worker
  <2> HIDE DEF r
  <2>3. WorkersOK' /\ LockOK'
    BY <1>3, <2>1, <2>2, MonitorWorks DEF LinksInv
  <2>4. DBOK'
    BY <1>2, <1>3, <1>5, LivesReserved DEF LinksInv, Lives, Exists
  <2> QED BY <1>3, <2>3, <2>4 DEF LinksInv
<1> QED BY <1>4, <1>5 DEF FinishRetag, Settle

\* A recovery ends: the sides that are attached are noted.
LEMMA RecoverInv ==
  ASSUME LinksInv, FinishRecover
  PROVE  LinksInv'
<1> DEFINE m == worker["monitor"]
           l == m.link
           att == row[l].att \cup m.got
<1>1. m \in Worker /\ l \in Links /\ "monitor" \in Workers /\ worker \in [Workers -> Worker]
  BY DEF LinksInv, WorkersOK, Sound, Workers, FinishRecover
<1>2. row \in [Links -> Row] /\ row[l] \in Row /\ topo \subseteq Links
  BY <1>1 DEF LinksInv, DBOK
<1>3. topo' = topo /\ resv' = resv /\ holder' = holder /\ AgentsOK' /\ SpentOK' /\ CycleOK'
  BY DEF FinishRecover, agentVars, LinksInv, AgentsOK, SpentOK, CycleOK
<1>4. WorkersOK' /\ Kept
  BY <1>1, OverWorks DEF FinishRecover, LinksInv, Outcome
<1>5. row' \in [Links -> Row] /\ Lives
  <2>1. att \in SUBSET Endpoints
    BY <1>1, <1>2 DEF Row, Worker
  <2>2. CASE row' = row
    BY <1>2, <2>2 DEF Lives, Exists
  <2>3. CASE \E o \in {"recovered", "skipped"} :
               row' = [row EXCEPT ![l] = [Written(row[l], l, o) EXCEPT !.att = att]]
    <3>1. PICK o \in {"recovered", "skipped"} :
                 row' = [row EXCEPT ![l] = [Written(row[l], l, o) EXCEPT !.att = att]]
      BY <2>3
    <3> DEFINE u == Written(row[l], l, o)
               r == [u EXCEPT !.att = att]
    <3>2. u \in Row /\ u.desired = row[l].desired
      BY <1>1, <1>2, WrittenType
    <3>3. row' = [row EXCEPT ![l] = r]
      BY <3>1
    <3> HIDE DEF u, att
    <3>4. r \in Row /\ r.desired = row[l].desired
      BY <2>1, <3>2 DEF Row
    <3> HIDE DEF r
    <3> QED BY <1>1, <1>2, <3>3, <3>4 DEF Lives, Exists
  <2> QED BY <2>2, <2>3 DEF FinishRecover
<1>6. DBOK'
  BY <1>2, <1>3, <1>5, LivesReserved DEF LinksInv
<1> QED BY <1>3, <1>4, <1>6, KeptLock DEF LinksInv

\* The steps of the monitor.
LEMMA MonitorInv ==
  ASSUME LinksInv, MonitorStep
  PROVE  LinksInv'
<1>1. "monitor" \in Workers
  BY DEF Workers
<1>2. CallAgent("monitor") \/ Finish("monitor") => LinksInv'
  BY <1>1, CallInv, FinishCreateInv, FinishTeardownInv DEF Finish
<1>3. ASSUME NEW l \in Links PROVE CleanupDeleted(l) \/ CheckLink(l) \/ CleanupOrphan(l)
                                   \/ CleanupTunnel(l) => LinksInv'
  BY CleanupDeletedInv, CheckInv, CleanupOrphanInv
<1> QED BY <1>2, <1>3, WakeInv, SweepInv, HealInv, OverlayInv, PortsInv, RetagInv, RecoverInv,
           DetachInv DEF MonitorStep

-----------------------------------------------------------------------------
(* The task, the request and the lab *)

\* The steps of the task.
LEMMA TaskInv ==
  ASSUME LinksInv, TaskStep
  PROVE  LinksInv'
<1>1. "task" \in Workers /\ worker["task"] \in Worker /\ Sound(worker["task"])
      /\ worker \in [Workers -> Worker] /\ row \in [Links -> Row] /\ topo \subseteq Links
  BY DEF LinksInv, WorkersOK, Workers, DBOK
<1>2. CASE CallAgent("task") \/ Finish("task")
  BY <1>1, <1>2, CallInv, FinishCreateInv, FinishTeardownInv DEF Finish
<1>3. CASE TaskStart
  <2>1. DBOK' /\ AgentsOK' /\ SpentOK' /\ CycleOK'
    BY <1>3 DEF TaskStart, dbVars, agentVars, LinksInv, DBOK, ReservedByRow, Exists, AgentsOK,
                SpentOK, CycleOK
  <2>2. CASE holder' = "task" /\ online # {} /\ worker' = [worker EXCEPT !["task"].agents = online]
    <3> DEFINE r == [worker["task"] EXCEPT !.agents = online]
    <3>1. r \in Worker /\ Sound(r) /\ r.phase = "removed" /\ r.agents = online
      BY <1>1, <1>3 DEF LinksInv, AgentsOK, Worker, Sound, TaskStart, Task
    <3>2. worker' = [worker EXCEPT !["task"] = r]
      BY <1>1, <2>2 DEF Worker
    <3> HIDE DEF r
    <3>3. WorkersOK' /\ worker'["task"] = r
      BY <1>1, <3>1, <3>2, Works DEF LinksInv
    <3> QED BY <2>1, <2>2, <3>1, <3>3 DEF LinksInv, LockOK
  <2>3. CASE holder' = holder /\ worker' = [worker EXCEPT !["task"] = Idle]
    <3>1. WorkersOK' /\ \A v \in Workers \ {"task"} : worker'[v] = worker[v]
      BY <1>1, <2>3, IdleType, Works DEF LinksInv
    <3>2. holder # "task"
      BY <1>3 DEF TaskStart, Task, LinksInv, LockOK
    <3> QED BY <2>1, <2>3, <3>1, <3>2 DEF LinksInv, LockOK, Workers
  <2> QED BY <1>3, <2>2, <2>3 DEF TaskStart
<1>4. ASSUME NEW l \in Links, TaskRemove(l) \/ TaskAdd(l) PROVE LinksInv'
  <2>1. DBOK' /\ WorkersOK' /\ Kept
    <3>1. topo' = topo
      BY <1>4 DEF TaskRemove, TaskAdd
    <3>2. CASE TaskRemove(l)
      BY <1>1, <3>1, <3>2, TeardownFacts DEF TaskRemove, LinksInv
    <3>3. CASE TaskAdd(l)
      BY <1>1, <3>1, <3>3, CreateFacts DEF TaskAdd, BeginCreate, LinksInv, Exists
    <3> QED BY <1>4, <3>2, <3>3
  <2>2. holder' = holder /\ AgentsOK' /\ SpentOK' /\ CycleOK'
    BY <1>4 DEF TaskRemove, TaskAdd, agentVars, LinksInv, AgentsOK, SpentOK, CycleOK
  <2> QED BY <2>1, <2>2, KeptLock DEF LinksInv
<1>5. CASE TaskTurn
  <2> DEFINE r == [worker["task"] EXCEPT !.phase = "added", !.todo = worker["task"].plus]
  <2>1. r \in Worker /\ Sound(r) /\ r.phase = "added" /\ r.agents = worker["task"].agents
    BY <1>1 DEF Worker, Sound, Phase
  <2>2. worker' = [worker EXCEPT !["task"] = r]
    BY <1>1, <1>5 DEF TaskTurn, Task, Worker
  <2> HIDE DEF r
  <2>3. WorkersOK' /\ worker'["task"] = r /\ \A v \in Workers \ {"task"} : worker'[v] = worker[v]
    BY <1>1, <2>1, <2>2, Works DEF LinksInv
  <2>4. LockOK'
    BY <1>5, <2>1, <2>3 DEF TaskTurn, LinksInv, LockOK, Workers
  <2> QED BY <1>5, <2>3, <2>4
      DEF TaskTurn, dbVars, agentVars, LinksInv, DBOK, ReservedByRow, Exists, AgentsOK, SpentOK, CycleOK
<1>6. CASE TaskCommit
  <2>1. DBOK'
    <3>1. \A l \in Torn : row'[l] = NoRow
      BY <1>6 DEF TaskCommit, Torn
    <3>2. \A l \in Links \ Torn : row'[l] \in Row /\ row'[l].desired = row[l].desired
      <4>1. \A l \in Links \ Torn : row'[l] = Written(row[l], l, Task.out[l])
        BY <1>6 DEF TaskCommit
      <4> QED BY <1>1, <4>1, WrittenType
    <3>3. row' = [l \in Links |-> row'[l]] /\ topo' = topo /\ resv' = Released(resv, Torn)
      BY <1>6 DEF TaskCommit
    <3> QED BY <3>1, <3>2, <3>3, CommitRows DEF LinksInv, Torn
  <2>2. WorkersOK' /\ \A v \in Workers \ {"task"} : worker'[v] = worker[v]
    BY <1>1, <1>6, IdleType, Works DEF TaskCommit, LinksInv
  <2>3. LockOK'
    BY <1>6, <2>2 DEF TaskCommit, Unlocked, LinksInv, LockOK, Workers
  <2> QED BY <1>6, <2>1, <2>2, <2>3 DEF TaskCommit, agentVars, LinksInv, AgentsOK, SpentOK, CycleOK
<1> QED BY <1>2, <1>3, <1>4, <1>5, <1>6 DEF TaskStep

\* The steps of a request.
LEMMA RequestInv ==
  ASSUME LinksInv, RequestStep
  PROVE  LinksInv'
<1>1. "request" \in Workers /\ row \in [Links -> Row] /\ topo \subseteq Links
  BY DEF LinksInv, Workers, DBOK
<1>2. CASE CallAgent("request") \/ Finish("request")
  BY <1>1, <1>2, CallInv, FinishCreateInv, FinishTeardownInv DEF Finish
<1>3. CASE RequestEnd
  <2>1. WorkersOK' /\ \A v \in Workers \ {"request"} : worker'[v] = worker[v]
    BY <1>1, <1>3, IdleType, Works DEF RequestEnd, LinksInv
  <2>2. LockOK'
    BY <1>3, <2>1, OthersLock DEF RequestEnd, LinksInv, Workers
  <2> QED BY <1>3, <2>1, <2>2
      DEF RequestEnd, dbVars, agentVars, LinksInv, DBOK, ReservedByRow, Exists, AgentsOK, SpentOK, CycleOK
<1>4. ASSUME NEW l \in Links, RequestWork(l) PROVE LinksInv'
  <2>1. DBOK' /\ WorkersOK' /\ Kept
    <3>1. CASE CreateIn(Connected(l), "request", l) /\ topo' = topo \cup {l}
      <4> DEFINE c == IF ~Exists(l) THEN NewRow
                      ELSE [row[l] EXCEPT !.desired = IF row[l].desired = "deleted" THEN "up"
                                                      ELSE row[l].desired]
      <4>1. row[l] \in Row
        BY <1>1
      <4>2. c \in Row /\ c.desired # "none"
        BY <4>1, RowsOfInit DEF Row, Desired, Exists
      <4>3. Connected(l) = [row EXCEPT ![l] = c]
        BY DEF Connected
      <4> HIDE DEF c
      <4>4. Connected(l) \in [Links -> Row] /\ \A k \in Links : Exists(k) => Connected(l)[k].desired # "none"
        BY <1>1, <4>2, <4>3 DEF Exists
      <4> QED BY <1>1, <3>1, <4>4, CreateFacts DEF LinksInv
    <3>2. CASE BeginTeardown("request", l, Request.info[l]) /\ topo' = topo
      BY <1>1, <3>2, TeardownFacts DEF LinksInv
    <3> QED BY <1>4, <3>1, <3>2 DEF RequestWork
  <2>2. holder' = holder /\ AgentsOK' /\ SpentOK' /\ CycleOK'
    BY <1>4 DEF RequestWork, agentVars, LinksInv, AgentsOK, SpentOK, CycleOK
  <2> QED BY <2>1, <2>2, KeptLock DEF LinksInv
<1> QED BY <1>2, <1>3, <1>4 DEF RequestStep

\* The steps of the reconciliation of the lab.
LEMMA LabInv ==
  ASSUME LinksInv, LabStep
  PROVE  LinksInv'
<1>1. "lab" \in Workers /\ worker["lab"] \in Worker /\ Sound(worker["lab"])
      /\ worker \in [Workers -> Worker] /\ row \in [Links -> Row] /\ topo \subseteq Links
  BY DEF LinksInv, WorkersOK, Workers, DBOK
<1>2. CASE CallAgent("lab") \/ Finish("lab")
  BY <1>1, <1>2, CallInv, FinishCreateInv, FinishTeardownInv DEF Finish
<1>3. CASE LabEnsure
  <2>1. DBOK'
    <3>1. row' \in [Links -> Row] /\ Lives
      BY <1>1, <1>3, RowsOfInit DEF LabEnsure, Lives, Exists
    <3> QED BY <1>1, <1>3, <3>1, LivesReserved DEF LabEnsure, LinksInv
  <2> DEFINE r == [Idle EXCEPT !.phase = "check", !.agents = online]
  <2>2. r \in Worker /\ Sound(r)
    BY IdleType DEF LinksInv, AgentsOK, Worker, Sound, Phase
  <2>3. worker' = [worker EXCEPT !["lab"] = r]
    BY <1>3 DEF LabEnsure
  <2> HIDE DEF r
  <2>4. WorkersOK' /\ \A v \in Workers \ {"lab"} : worker'[v] = worker[v]
    BY <1>1, <2>2, <2>3, Works DEF LinksInv
  <2>5. LockOK'
    <3>1. holder # "lab"
      BY <1>3 DEF LabEnsure, Lab, LinksInv, LockOK
    <3> QED BY <1>3, <2>4, <3>1 DEF LabEnsure, LinksInv, LockOK, Workers
  <2> QED BY <1>3, <2>1, <2>4, <2>5 DEF LabEnsure, agentVars, LinksInv, AgentsOK, SpentOK, CycleOK
<1>4. CASE LabRefresh
  <2> DEFINE connect == {l \in Links : /\ row[l].desired = "up" /\ row[l].carrier
                                       /\ Ends(l) \subseteq ready /\ Observed(l) # "up"}
             info == [l \in Links |-> IF Exists(l) THEN Observed(l) ELSE "none"]
             plus == {l \in Links : row[l].desired = "deleted"}
             todo == IF holder = "none" THEN connect ELSE {}
             r == [worker["lab"] EXCEPT !.phase = "connect", !.info = info, !.plus = plus, !.todo = todo]
  <2>1. info \in [Links -> Actual \cup {"none"}] /\ plus \in SUBSET Links /\ todo \in SUBSET Links
    BY <1>1 DEF Observed, Actual, Row
  <2>2. worker' = [worker EXCEPT !["lab"] = r]
    BY <1>1, <1>4 DEF LabRefresh, Lab, Worker
  <2>3. holder' \in {holder, "lab"}
    BY <1>4 DEF LabRefresh
  <2> HIDE DEF connect, info, plus, todo
  <2>4. r \in Worker /\ Sound(r) /\ r.phase = "connect"
    BY <1>1, <2>1 DEF Worker, Sound, Phase
  <2> HIDE DEF r
  <2>5. WorkersOK' /\ worker'["lab"] = r /\ \A v \in Workers \ {"lab"} : worker'[v] = worker[v]
    BY <1>1, <2>2, <2>4, Works DEF LinksInv
  <2>6. LockOK'
    BY <2>3, <2>4, <2>5 DEF LinksInv, LockOK, Workers
  <2> QED BY <1>4, <2>5, <2>6
      DEF LabRefresh, dbVars, agentVars, LinksInv, DBOK, ReservedByRow, Exists, AgentsOK, SpentOK, CycleOK
<1>5. ASSUME NEW l \in Links, LabConnect(l) PROVE LinksInv'
  <2>1. DBOK' /\ WorkersOK' /\ Kept
    <3>1. topo' = topo
      BY <1>5 DEF LabConnect
    <3>2. CASE Pass("lab", l)
      <4>1. WorkersOK' /\ Kept /\ row' = row /\ resv' = resv
        BY <1>1, <3>2, PassFacts DEF LinksInv
      <4> QED BY <1>1, <3>1, <4>1, LivesReserved DEF LinksInv, Lives, Exists
    <3>3. CASE BeginCreate("lab", l)
      BY <1>1, <3>1, <3>3, CreateFacts DEF BeginCreate, LinksInv, Exists
    <3> QED BY <1>5, <3>2, <3>3 DEF LabConnect
  <2>2. holder' = holder /\ AgentsOK' /\ SpentOK' /\ CycleOK'
    BY <1>5 DEF LabConnect, agentVars, LinksInv, AgentsOK, SpentOK, CycleOK
  <2> QED BY <2>1, <2>2, KeptLock DEF LinksInv
<1>6. CASE LabCommit
  <2> DEFINE S == Lab.plus
  <2>1. DBOK'
    <3>1. S \in SUBSET Links
      BY <1>1 DEF Lab, Worker
    <3>2. ASSUME NEW l \in Links \ S PROVE row'[l] \in Row /\ row'[l].desired = row[l].desired
      <4>1. CASE Lab.info[l] = "none" \/ ~Exists(l)
        BY <1>1, <1>6, <4>1 DEF LabCommit
      <4>2. CASE ~(Lab.info[l] = "none" \/ ~Exists(l))
        <5> DEFINE seen == [row[l] EXCEPT !.actual = Lab.info[l]]
        <5>1. Lab.info[l] \in Actual
          BY <1>1, <4>2 DEF Lab, Worker
        <5>2. seen \in Row /\ seen.desired = row[l].desired
          BY <1>1, <5>1 DEF Row
        <5>3. row'[l] = Written(seen, l, Lab.out[l])
          BY <1>6, <4>2 DEF LabCommit
        <5> HIDE DEF seen
        <5> QED BY <5>2, <5>3, WrittenType
      <4> QED BY <4>1, <4>2
    <3>3. /\ row' = [l \in Links |-> row'[l]] /\ topo' = topo /\ resv' = Released(resv, S)
          /\ \A l \in S : row'[l] = NoRow
      BY <1>6, <3>1 DEF LabCommit
    <3> QED BY <3>1, <3>2, <3>3, CommitRows DEF LinksInv
  <2>2. WorkersOK' /\ \A v \in Workers \ {"lab"} : worker'[v] = worker[v]
    BY <1>1, <1>6, IdleType, Works DEF LabCommit, LinksInv
  <2>3. LockOK'
    BY <1>6, <2>2 DEF LabCommit, Unlocked, LinksInv, LockOK, Workers
  <2> QED BY <1>6, <2>1, <2>2, <2>3 DEF LabCommit, agentVars, LinksInv, AgentsOK, SpentOK, CycleOK
<1> QED BY <1>2, <1>3, <1>4, <1>5, <1>6 DEF LabStep

-----------------------------------------------------------------------------
(* Agents and nodes, and the theorems *)

\* Agents and nodes that come and go.
LEMMA OutsideInv ==
  ASSUME LinksInv, Recovery \/ (\E h \in Hosts : AgentDown(h)) \/ (\E e \in Endpoints : NodeStop(e))
  PROVE  LinksInv'
<1>1. ASSUME NEW h \in Hosts, AgentUp(h) PROVE LinksInv'
  <2>1. row \in [Links -> Row]
    BY DEF LinksInv, DBOK
  <2>2. row' \in [Links -> Row] /\ Lives
    <3>1. ASSUME NEW l \in Links PROVE row'[l] \in Row /\ row'[l].desired = row[l].desired
      <4>1. row'[l] = row[l] \/ row'[l] = [row[l] EXCEPT !.actual = "error",
                                             !.att = {e \in row[l].att : Host[e] # h}]
        BY <1>1 DEF AgentUp
      <4>2. row[l] \in Row /\ {e \in row[l].att : Host[e] # h} \in SUBSET Endpoints
        BY <2>1 DEF Row
      <4> QED BY <4>1, <4>2 DEF Row, Actual
    <3>2. row' = [l \in Links |-> row'[l]]
      BY <1>1 DEF AgentUp
    <3> QED BY <3>1, <3>2 DEF Lives, Exists
  <2>3. DBOK'
    BY <1>1, <2>2, LivesReserved DEF AgentUp, LinksInv, DBOK
  <2> QED BY <1>1, <2>3 DEF AgentUp, LinksInv, AgentsOK, WorkersOK, LockOK, SpentOK, CycleOK
<1>2. ASSUME NEW h \in Hosts, AgentDown(h) PROVE LinksInv'
  <2>1. SpentOK'
    BY <1>2, SpentType DEF AgentDown, LinksInv
  <2> QED BY <1>2, <2>1
      DEF AgentDown, dbVars, LinksInv, DBOK, ReservedByRow, Exists, AgentsOK, WorkersOK, LockOK, CycleOK
<1>3. ASSUME NEW e \in Endpoints, NodeStop(e) PROVE LinksInv'
  <2>1. SpentOK'
    BY <1>3, SpentType DEF NodeStop, LinksInv
  <2>2. AgentsOK'
    BY <1>3 DEF NodeStop, LinksInv, AgentsOK
  <2> QED BY <1>3, <2>1, <2>2
      DEF NodeStop, dbVars, LinksInv, DBOK, ReservedByRow, Exists, WorkersOK, LockOK, CycleOK
<1>4. ASSUME NEW e \in Endpoints, NodeStart(e) PROVE LinksInv'
  BY <1>4 DEF NodeStart, dbVars, LinksInv, DBOK, ReservedByRow, Exists, AgentsOK, WorkersOK, LockOK,
              SpentOK, CycleOK
<1> QED BY <1>1, <1>2, <1>3, <1>4 DEF Recovery

\* A deployed lab at rest.
LEMMA InitInv == Init => LinksInv
<1> SUFFICES ASSUME Init PROVE LinksInv
  OBVIOUS
<1>1. topo \subseteq Links /\ row \in [Links -> Row]
  BY RowsOfInit DEF Init
<1>2. resv = Holding(topo) /\ resv \in [Endpoints -> Links \cup {"none"}] /\ tag = resv
  BY <1>1, HoldingType DEF Init
<1>3. ReservedByRow
  <2>1. \A e \in Endpoints : resv[e] # "none" => resv[e] \in topo /\ e \in Ends(resv[e])
    BY <1>1, <1>2, HoldingFacts
  <2>2. \A l \in topo : row[l].desired # "none"
    BY <1>1, RowsOfInit DEF Init
  <2> QED BY <2>1, <2>2 DEF ReservedByRow, Exists
<1>4. DBOK
  BY <1>1, <1>2, <1>3 DEF DBOK
<1>5. AgentsOK
  BY <1>2, EndsIn DEF Init, AgentsOK
<1>6. WorkersOK
  BY IdleType DEF Init, WorkersOK
<1>7. SpentOK /\ CycleOK /\ LockOK
  BY LinksAssumption DEF Init, SpentOK, CycleOK, LockOK, LinksAssumption
<1> QED BY <1>4, <1>5, <1>6, <1>7 DEF LinksInv

\* Every step keeps the invariant.
LEMMA StepInv == LinksInv /\ [Next]_vars => LinksInv'
<1> SUFFICES ASSUME LinksInv, [Next]_vars PROVE LinksInv'
  OBVIOUS
<1>1. CASE UNCHANGED vars
  BY <1>1 DEF vars, dbVars, agentVars, LinksInv, DBOK, ReservedByRow, Exists, AgentsOK, WorkersOK,
              LockOK, SpentOK, CycleOK
<1> QED BY <1>1, UserInv, MonitorInv, TaskInv, RequestInv, LabInv, OutsideInv DEF Next

\* What holds of a link's rows, reservations and workers holds always.
LEMMA InvHolds == Spec => []LinksInv
BY InitInv, StepInv, PTL DEF Spec

\* Every variable of the links keeps its type, and link_ops_lock is never held by
\* a worker that has gone to rest.
THEOREM TypeCorrect == Spec => []TypeOK
<1>1. LinksInv => TypeOK
  BY DEF LinksInv, DBOK, AgentsOK, WorkersOK, LockOK, SpentOK, CycleOK, TypeOK
<1> QED BY <1>1, InvHolds, PTL

\* A reservation always belongs to an endpoint of a row that exists: whoever
\* deletes a row, in whatever order with the others, releases its endpoints with it.
THEOREM ReservationsFollowRows == Spec => []ReservedByRow
<1>1. LinksInv => ReservedByRow
  BY DEF LinksInv, DBOK
<1> QED BY <1>1, InvHolds, PTL
=============================================================================
