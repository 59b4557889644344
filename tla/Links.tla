------------------------------- MODULE Links -------------------------------
(***************************************************************************)
(* The links of one lab: the LinkState rows and endpoint reservations of   *)
(* the controller, and the wires on the agents they stand for.  Four       *)
(* workers change both at the same time: the background task of a          *)
(* topology edit, the request that connects or disconnects one link, the   *)
(* link monitor, and the reconciliation of the lab.  A worker reads rows,  *)
(* calls agents link by link, and writes what came out of it: the monitor  *)
(* and the request after every link, the task and the lab in one           *)
(* transaction at their end.  A link has a source and a target endpoint (a *)
(* node's interface); it is wired by one VLAN tag on its host or, across   *)
(* hosts, by a VXLAN port next to each endpoint.                           *)
(***************************************************************************)
EXTENDS Naturals, FiniteSets

CONSTANTS
  Links, Endpoints, Hosts,
  Source, Target,  \* the two endpoints of a link
  Host,            \* the host of an endpoint's node
  HealEvery,       \* RESERVATION_RECONCILE_INTERVAL_CYCLES
  MaxEvents,       \* requests of users, agents and nodes that go away (bound)
  MaxFaults        \* agent calls that fail although the agent is up (bound)

ASSUME LinksAssumption ==
  /\ IsFiniteSet(Links) /\ "none" \notin Links
  /\ Source \in [Links -> Endpoints] /\ Target \in [Links -> Endpoints]
  /\ \A l \in Links : Source[l] # Target[l]
  /\ Host \in [Endpoints -> Hosts]
  /\ HealEvery \in Nat \ {0}
  /\ MaxEvents \in Nat /\ MaxFaults \in Nat

VARIABLES
  topo,    \* the Link definitions of the topology
  row,     \* the LinkState rows, each with its VxlanTunnel
  resv,    \* LinkEndpointReservation: who holds an endpoint
  tag,     \* the link whose VLAN tag an endpoint's port carries on its agent
  vxlan,   \* the endpoints with a VXLAN port for the link on their agent
  ready,   \* the endpoints whose node runs and is ready
  online,  \* the hosts whose agent answers
  worker,  \* the workers
  holder,  \* who is inside link_ops_lock
  cycle,   \* the monitor's cycle_count, modulo HealEvery
  spent    \* how much of each bound is used

dbVars    == <<topo, row, resv>>
agentVars == <<tag, vxlan, ready, online>>
vars == <<dbVars, agentVars, worker, holder, cycle, spent>>

Workers == {"task", "monitor", "request", "lab"}
Actual  == {"unknown", "pending", "up", "down", "error"}
Desired == {"up", "down", "deleted"}
Tunnel  == {"none", "active", "failed", "cleanup"}

\* carrier: both carrier states are on; att: the sides marked attached.
Row   == [desired : Desired \cup {"none"}, actual : Actual, carrier : BOOLEAN,
          att : SUBSET Endpoints, tunnel : Tunnel]
NoRow == [desired |-> "none", actual |-> "unknown", carrier |-> TRUE, att |-> {},
          tunnel |-> "none"]
NewRow == [NoRow EXCEPT !.desired = "up"]

Ends(l)    == {Source[l], Target[l]}
HostsOf(l) == {Host[e] : e \in Ends(l)}
Cross(l)   == Host[Source[l]] # Host[Target[l]]
Share(k, l) == k # l /\ Ends(k) \cap Ends(l) # {}

\* What came out of the work on one link, for the transaction to write.
Outcome == {"none", "up", "recovered", "pending", "error", "torn", "untorn", "deferred", "skipped"}
Op      == {"none", "create", "repair", "retag", "recover", "teardown", "detach"}
Phase   == {"idle", "removed", "added", "connect", "deleted", "check", "orphans", "tunnels",
            "reserve", "overlay", "declare", "ports", "push", "pair"}

\* agents: host_to_agent; todo: links of the phase still to do; op, on link, waits
\* for the endpoints in left and has been answered for those in got; why: a
\* failure; info: the actual state captured (task, monitor) or computed (lab) for
\* each link; plus: links to add (task), to declare (monitor) or rows to delete
\* (lab); out: outcomes not yet written; held: rows it has locked.
Worker == [phase : Phase, agents : SUBSET Hosts, todo : SUBSET Links,
           op : Op, link : Links \cup {"none"}, left : SUBSET Endpoints,
           got : SUBSET Endpoints, why : {"none", "missing", "failed"}, info : [Links -> Actual \cup {"none"}],
           plus : SUBSET Links, out : [Links -> Outcome], held : SUBSET Links]
Idle == [phase |-> "idle", agents |-> {}, todo |-> {}, op |-> "none", link |-> "none",
         left |-> {}, got |-> {}, why |-> "none", info |-> [l \in Links |-> "none"], plus |-> {},
         out |-> [l \in Links |-> "none"], held |-> {}]

UpRow(l) == [NewRow EXCEPT !.actual = "up", !.att = IF Cross(l) THEN Ends(l) ELSE {},
                           !.tunnel = IF Cross(l) THEN "active" ELSE "none"]
Holding(T) == [e \in Endpoints |-> IF \E l \in T : e \in Ends(l)
                                        THEN CHOOSE l \in T : e \in Ends(l) ELSE "none"]

\* A deployed lab at rest: its nodes run and its links are up.
Init ==
  /\ topo \in {T \in SUBSET Links : \A k, l \in T : ~Share(k, l)}
  /\ row = [l \in Links |-> IF l \in topo THEN UpRow(l) ELSE NoRow]
  /\ resv = Holding(topo) /\ tag = Holding(topo)
  /\ vxlan = [l \in Links |-> IF l \in topo /\ Cross(l) THEN Ends(l) ELSE {}]
  /\ ready = Endpoints /\ online = Hosts
  /\ worker = [w \in Workers |-> Idle] /\ holder = "none" /\ cycle = 0
  /\ spent = [event |-> 0, fault |-> 0]

Exists(l) == row[l].desired # "none"
Locked(l, w) == \E v \in Workers \ {w} : l \in worker[v].held
Event == spent.event < MaxEvents /\ spent' = [spent EXCEPT !.event = @ + 1]
Fault == spent.fault < MaxFaults /\ spent' = [spent EXCEPT !.fault = @ + 1]

\* The agents cannot tell the VLAN of both endpoints.
Unreadable(l) == ~(Ends(l) \subseteq ready /\ HostsOf(l) \subseteq online)
Wired(l) == /\ \A e \in Ends(l) : tag[e] = l
            /\ Cross(l) => vxlan[l] = Ends(l)
-----------------------------------------------------------------------------
(* Rows and reservations *)

\* claim_link_endpoints refuses a link that shares an endpoint with another
\* desired-up row, reserved or not, or with a reservation of another row.
Claimable(l, rows) ==
  /\ \A k \in Links : Share(k, l) => rows[k].desired # "up"
  /\ \A e \in Ends(l) : resv[e] \in {"none", l}

Claimed(r, S)  == [e \in Endpoints |-> LET c == Holding(S)[e]
                                      IN IF c = "none" THEN r[e] ELSE c]
\* Mutant: a reservation outlives its row.
ReleasedNot(r, S) == r
Released(r, S) == [e \in Endpoints |-> IF r[e] \in S THEN "none" ELSE r[e]]

\* Mutant: links that left the topology are not marked.
GoneNone(T) == {}
\* _upsert_link_states: rows of links in the topology T are created or revived,
\* the others marked.  A conflict refuses the whole request; the rows it marks
\* still count as desired up, as nothing is flushed before the claims.
Fresh(T)    == {l \in T : ~Exists(l)}
Revived(T)  == {l \in T : row[l].desired = "deleted"}
Gone(T)     == {l \in Links \ T : Exists(l)}
Upsertable(T) ==
  LET N == Fresh(T) \cup Revived(T)
  IN \A l \in N : Claimable(l, row) /\ \A k \in N : ~Share(k, l)
UpsertedRow(T) ==
  [l \in Links |-> CASE l \in Fresh(T)   -> NewRow
                     [] l \in Revived(T) -> [row[l] EXCEPT !.desired = "up"]
                     [] l \in Gone(T)    -> [row[l] EXCEPT !.desired = "deleted"]
                     [] OTHER            -> row[l]]
UpsertedResv(T) == Released(Claimed(resv, Fresh(T) \cup Revived(T)), Gone(T))

\* update_topology: links go away and links are added, and a background task is
\* started for them.  It is over at once when another task runs.
EditTopology(T) ==
  LET info == [l \in Links |-> IF l \in Gone(T) THEN row[l].actual ELSE "none"]
  IN /\ Event /\ T # topo /\ Upsertable(T)
     /\ \A l \in Gone(T) \cup Revived(T) : ~Locked(l, "none")
     /\ topo' = T /\ row' = UpsertedRow(T) /\ resv' = UpsertedResv(T)
     /\ IF worker["task"].phase = "idle"
        THEN worker' = [worker EXCEPT !["task"] = [Idle EXCEPT
                          !.phase = "removed", !.info = info, !.todo = Gone(T), !.plus = Fresh(T)]]
        ELSE UNCHANGED worker
     /\ UNCHANGED <<agentVars, holder, cycle>>

\* Every listing of the links repeats the upsert, without a task.
ListLinks ==
  /\ Upsertable(topo) /\ \A l \in Gone(topo) \cup Revived(topo) : ~Locked(l, "none")
  /\ row' = UpsertedRow(topo) /\ resv' = UpsertedResv(topo)
  /\ UNCHANGED <<topo, agentVars, worker, holder, cycle, spent>>

\* set_link_state and, with every row of the lab, set_all_links_desired_state.
SetDesired(S, d) ==
  LET up   == UpsertedRow(topo)
      rows == [l \in Links |-> IF l \in S /\ up[l].desired # "none"
                               THEN [up[l] EXCEPT !.desired = d] ELSE up[l]]
  IN /\ Event /\ Upsertable(topo)
     /\ \A l \in S : up[l].desired # "none" /\ ~Locked(l, "none")
     /\ row' = rows
     /\ IF d = "up"
        THEN /\ \A l \in S : /\ \A k \in Links : Share(k, l) => rows[k].desired # "up"
                              /\ \A e \in Ends(l) : UpsertedResv(topo)[e] \in {"none", l}
             /\ resv' = Claimed(UpsertedResv(topo), S)
        ELSE resv' = Released(UpsertedResv(topo), S)
     /\ UNCHANGED <<topo, agentVars, worker, holder, cycle>>

SetLink(l, d) == SetDesired({l}, d)
SetAllLinks(d) == SetDesired({l \in Links : UpsertedRow(topo)[l].desired # "none"}, d)
-----------------------------------------------------------------------------
(* Work on one link, by any worker *)

\* The row r of a cross-host or same-host link l after the outcome o; a failed
\* teardown marks the tunnel, unless it never began.
Written(r, l, o) ==
  IF r.desired = "none" THEN r
  ELSE CASE o = "up" -> [r EXCEPT !.actual = "up", !.carrier = TRUE,
                           !.att    = IF Cross(l) THEN Ends(l) ELSE @,
                           !.tunnel = IF Cross(l) THEN "active" ELSE @]
         [] o = "recovered" -> [r EXCEPT !.actual = "up", !.carrier = TRUE]
         [] o \in {"pending", "error"} -> [r EXCEPT !.actual = o]
         [] o = "torn" -> [r EXCEPT !.actual = "down", !.carrier = FALSE, !.att = {},
                                    !.tunnel = "none"]
         [] o = "untorn" -> [r EXCEPT !.actual = "error",
                                      !.tunnel = IF @ = "none" THEN @ ELSE "failed"]
         [] o = "deferred" -> [r EXCEPT !.actual = "error"]
         [] OTHER -> r

\* The worker record when it has done with link l: the request and the monitor's
\* check have written the outcome, the others keep it for their transaction.
AtOnce(w) == w = "request" \/ (w = "monitor" /\ worker[w].phase = "check")
Over(w, l, o) ==
  [worker[w] EXCEPT !.todo = @ \ {l}, !.op = "none", !.link = "none", !.left = {},
     !.got = {}, !.why = "none",
     !.out  = IF AtOnce(w) THEN @ ELSE [@ EXCEPT ![l] = o],
     !.held = IF AtOnce(w) THEN {} ELSE @]

SettleIn(rows, w, l, o) ==
  /\ AtOnce(w) => ~Locked(l, w)
  /\ worker' = [worker EXCEPT ![w] = Over(w, l, o)]
  /\ row' = IF AtOnce(w) THEN [rows EXCEPT ![l] = Written(@, l, o)] ELSE rows
Settle(w, l, o) == SettleIn(row, w, l, o)

\* Link l needs nothing, or cannot be worked on now.
Pass(w, l) == /\ worker' = [worker EXCEPT ![w].todo = @ \ {l}]
              /\ UNCHANGED <<row, resv>>

\* A flush writes, and locks, the rows with an outcome.
Flushed(w) == {k \in Links : worker[w].out[k] # "none"}

Begin(w, l, op, left, held) ==
  worker' = [worker EXCEPT ![w].op = op, ![w].link = l, ![w].left = left,
                ![w].held = @ \cup held]

\* create_link_if_ready on the rows of the transaction, with the link's row locked:
\* claim the endpoints, look at the nodes and the agents, and connect.  The claim
\* flushes what came out before, so those rows are waited for as well.
CreateIn(rows, w, l) ==
  /\ \A k \in Flushed(w) \cup {l} : ~Locked(k, w)
  /\ IF rows[l].desired = "none" THEN Pass(w, l)
     ELSE IF ~Claimable(l, rows) THEN SettleIn(rows, w, l, "error") /\ UNCHANGED resv
     ELSE /\ resv' = Claimed(resv, {l})
          /\ IF ~(Ends(l) \subseteq ready) THEN SettleIn(rows, w, l, "pending")
             ELSE IF ~(HostsOf(l) \subseteq worker[w].agents) THEN SettleIn(rows, w, l, "error")
             ELSE Begin(w, l, "create", Ends(l), Flushed(w) \cup {l}) /\ row' = rows
BeginCreate(w, l) == CreateIn(row, w, l)

\* teardown_link, on what the caller captured: a link that was not up, in error
\* or pending has nothing to tear down.  The mark on a tunnel is flushed.
BeginTeardown(w, l, captured) ==
  LET flush == IF row[l].tunnel = "none" THEN {} ELSE Flushed(w)
  IN /\ UNCHANGED resv
     /\ IF captured \notin {"up", "error", "pending"} THEN Settle(w, l, "skipped")
        ELSE IF ~(HostsOf(l) \subseteq worker[w].agents) THEN Settle(w, l, "deferred")
        ELSE /\ \A k \in flush : ~Locked(k, w)
             /\ Begin(w, l, "teardown", Ends(l), flush) /\ UNCHANGED row

\* One agent call: both endpoints of a same-host link, one side of another.
\* Tearing down and detaching take the source side first.
Called(w) ==
  LET l == worker[w].link
  IN IF ~Cross(l) THEN {Ends(l)}
     ELSE IF worker[w].op \in {"teardown", "detach"} /\ Source[l] \in worker[w].left
     THEN {{Source[l]}}
     ELSE {{e} : e \in worker[w].left}

\* f with the value v at every member of S.
Put(f, S, v) == [e \in Endpoints |-> IF e \in S THEN v ELSE f[e]]

\* What the agent does to its ports and VXLAN ports.  Connecting needs the ports;
\* a VLAN repair also needs the VXLAN port.  A same-host disconnection needs the
\* ports too; a detach isolates the port if it is there.
Effect(op, l, S) ==
  CASE op \in {"create", "repair", "recover"} ->
         /\ tag' = Put(tag, S, l)
         /\ vxlan' = IF Cross(l) THEN [vxlan EXCEPT ![l] = @ \cup S] ELSE vxlan
    [] op = "retag"    -> tag' = Put(tag, S, l) /\ UNCHANGED vxlan
    [] op \in {"teardown", "detach"} ->
         tag' = Put(tag, S, "none") /\ vxlan' = [vxlan EXCEPT ![l] = @ \ S]
Possible(op, l, S) ==
  CASE op \in {"create", "repair", "recover"} -> S \subseteq ready
    [] op = "retag"    -> S \subseteq ready /\ (Cross(l) => S \subseteq vxlan[l])
    [] op \in {"teardown", "detach"} -> Cross(l) \/ S \subseteq ready

Answer(w, S, got, why) ==
  worker' = [worker EXCEPT
    ![w].left = IF why # "none" /\ worker[w].op = "teardown" THEN {} ELSE @ \ S,
    ![w].got  = @ \cup got,
    ![w].why  = IF @ = "none" THEN why ELSE IF why = "failed" THEN why ELSE @]

CallAgent(w) ==
  LET l == worker[w].link  op == worker[w].op
  IN /\ op # "none" /\ worker[w].left # {}
     /\ \E S \in Called(w) :
          IF \E e \in S : Host[e] \notin online
          THEN Answer(w, S, {}, "failed") /\ UNCHANGED <<tag, vxlan, spent>>
          ELSE \/ /\ Possible(op, l, S) /\ Effect(op, l, S)
                  /\ Answer(w, S, S, "none") /\ UNCHANGED spent
               \/ /\ ~Possible(op, l, S) /\ Answer(w, S, {}, "missing")
                  /\ UNCHANGED <<tag, vxlan, spent>>
               \/ /\ Fault /\ Possible(op, l, S) /\ Answer(w, S, {}, "failed")
                  /\ (UNCHANGED <<tag, vxlan>> \/ Effect(op, l, S))
     /\ UNCHANGED <<dbVars, ready, online, holder, cycle>>

\* setup_cross_host_link_v2 detaches the sides that were attached when another
\* failed, if their agents can still be reached.
RollBack(w) ==
  LET l == worker[w].link  S == {e \in worker[w].got : Host[e] \in online}
  IN tag' = Put(tag, S, "none") /\ vxlan' = [vxlan EXCEPT ![l] = @ \ S]

\* create_same_host_link and create_cross_host_link after the calls: verify, then
\* write.  A port that is not there yet is waited for, unless it is a repair.
FinishCreate(w) ==
  LET l == worker[w].link  why == worker[w].why  unreadable == Unreadable(l)
      waits == (why = "missing" /\ ~Cross(l)) \/ (why = "none" /\ unreadable)
  IN /\ worker[w].op \in {"create", "repair"} /\ worker[w].left = {}
     /\ IF Cross(l) /\ why # "none" THEN RollBack(w) ELSE UNCHANGED <<tag, vxlan>>
     /\ Settle(w, l, IF why = "none" /\ Wired(l) /\ ~unreadable THEN "up"
                     ELSE IF waits /\ worker[w].op = "create" THEN "pending" ELSE "error")
     /\ UNCHANGED <<topo, resv, ready, online, holder, cycle, spent>>

\* The end of teardown_link.  When the target side fails the source side is
\* attached again, if the VNI is still known.
FinishTeardown(w) ==
  LET l == worker[w].link  why == worker[w].why
      back == IF why # "none" /\ row[l].tunnel # "none"
              THEN {e \in worker[w].got : Host[e] \in online /\ e \in ready} ELSE {}
  IN /\ worker[w].op = "teardown" /\ worker[w].left = {}
     /\ tag' = Put(tag, back, l) /\ vxlan' = [vxlan EXCEPT ![l] = @ \cup back]
     /\ Settle(w, l, IF why = "none" THEN "torn" ELSE "untorn")
     /\ UNCHANGED <<topo, resv, ready, online, holder, cycle, spent>>
-----------------------------------------------------------------------------
(* The link monitor: one cycle is a fixed sequence of phases *)

\* links_needing_reconciliation_filter
NeedsCheck(r) == \/ r.actual = "up"
                 \/ r.actual \in {"error", "down", "pending"} /\ r.desired = "up"

\* The rows the next phase goes through, read when it begins.
Enter(phase, rows) ==
  worker' = [worker EXCEPT !["monitor"].phase = phase, !["monitor"].todo = rows]
Entering(phase) == LET m == worker["monitor"] IN m.phase = phase /\ m.todo = {} /\ m.op = "none"
Doing(phase, l) == LET m == worker["monitor"] IN m.phase = phase /\ m.op = "none" /\ l \in m.todo

\* The deleted rows are read, and not again before the transaction that ends
\* their phase.
Wake ==
  LET gone == {l \in Links : row[l].desired = "deleted"}
  IN /\ worker["monitor"].phase = "idle"
     /\ worker' = [worker EXCEPT !["monitor"] = [Idle EXCEPT
                      !.phase = "deleted", !.agents = online, !.todo = gone,
                      !.info = [l \in Links |-> IF l \in gone THEN row[l].actual ELSE "none"]]]
     /\ cycle' = (cycle + 1) % HealEvery
     /\ UNCHANGED <<dbVars, agentVars, holder, spent>>

NextPhase ==
  /\ Entering("check") /\ Enter("orphans",
        {l \in Links : Exists(l) /\ l \notin topo /\ row[l].actual # "up"})
  /\ UNCHANGED <<dbVars, agentVars, holder, cycle, spent>>

\* _cleanup_deleted_links: a link whose agents are offline is put off.
CleanupDeleted(l) ==
  /\ Doing("deleted", l)
  /\ IF HostsOf(l) \subseteq worker["monitor"].agents
     THEN BeginTeardown("monitor", l, worker["monitor"].info[l])
     ELSE Settle("monitor", l, "deferred") /\ UNCHANGED resv
  /\ UNCHANGED <<topo, agentVars, holder, cycle, spent>>

\* The transaction that ends a cleanup phase: the rows in S go, the tunnels of
\* those in T are marked for another try.
Came(o) == {l \in Links : worker["monitor"].out[l] \in o}
Marked(r) == [r EXCEPT !.tunnel = IF @ = "none" THEN @ ELSE "cleanup"]
Swept(phase, todo) ==
  worker' = [worker EXCEPT !["monitor"] = [Idle EXCEPT
               !.phase = phase, !.agents = worker["monitor"].agents, !.todo = todo]]

\* Then the rows to check are read.
CommitDeleted ==
  LET rows == [l \in Links |->
        IF l \in Came({"torn", "skipped"}) THEN NoRow
        ELSE IF l \in Came({"untorn"}) THEN Marked(Written(row[l], l, "untorn"))
        ELSE IF l \in Came({"deferred"}) THEN Marked(row[l]) ELSE row[l]]
  IN /\ Entering("deleted") /\ \A l \in Came({"torn", "skipped", "untorn"}) : ~Locked(l, "monitor")
     /\ row' = rows /\ resv' = Released(resv, Came({"torn", "skipped"}))
     /\ Swept("check", {l \in Links : rows[l].desired # "none" /\ NeedsCheck(rows[l])})
     /\ UNCHANGED <<topo, agentVars, holder, cycle, spent>>

\* reconcile_link_states on one row: enforce what is desired, recover a cross-host
\* link in error, otherwise verify the wire and repair it.  A row locked by another
\* worker is not created, recovered or repaired; but a repair that was not tried
\* counts as one that failed, and that is written when the row is free.
Mismatch(l) == ~Unreadable(l) /\ (Cross(l) => vxlan[l] = Ends(l))
CheckLink(l) ==
  LET r == row[l]
      leave == Pass("monitor", l)
      begin(op, left) == Begin("monitor", l, op, left, {l}) /\ UNCHANGED <<row, resv>>
  IN /\ Doing("check", l)
     /\ IF ~Exists(l) \/ ~(HostsOf(l) \subseteq worker["monitor"].agents) THEN leave
        ELSE IF r.actual \in {"down", "pending"} /\ r.desired = "up"
        THEN IF Locked(l, "monitor") THEN leave ELSE BeginCreate("monitor", l)
        ELSE IF r.actual = "up" /\ r.desired = "down"
        THEN BeginTeardown("monitor", l, "up")
        ELSE IF r.actual = "error" /\ Cross(l)
        THEN IF Locked(l, "monitor") THEN leave
             ELSE IF r.att # Ends(l) THEN begin("recover", Ends(l) \ r.att)
             ELSE IF Wired(l) /\ ~Unreadable(l)
             THEN UNCHANGED resv /\ Settle("monitor", l, "recovered")
             ELSE IF Mismatch(l) THEN begin("retag", Ends(l)) ELSE leave
        ELSE IF (Wired(l) /\ ~Unreadable(l)) \/ (Cross(l) /\ ~(HostsOf(l) \subseteq online))
        THEN leave
        ELSE IF Locked(l, "monitor")
        THEN /\ worker' = [worker EXCEPT !["monitor"].op = "repair", !["monitor"].link = l,
                              !["monitor"].why = "failed"]
             /\ UNCHANGED <<row, resv>>
        ELSE begin(IF Mismatch(l) THEN "retag" ELSE "repair", Ends(l))
  /\ UNCHANGED <<topo, agentVars, holder, cycle, spent>>

\* The end of attempt_vlan_repair: a repair that failed is followed by a full one,
\* unless the link was in recovery; the tunnel record stays as it is.
FinishRetag ==
  LET l == worker["monitor"].link  ok == worker["monitor"].why = "none"
  IN /\ worker["monitor"].op = "retag" /\ worker["monitor"].left = {}
     /\ IF row[l].actual = "error" /\ Cross(l)
        THEN Settle("monitor", l, IF ok THEN "recovered" ELSE "skipped")
        ELSE IF ok THEN Settle("monitor", l, "skipped")
        ELSE /\ worker' = [worker EXCEPT !["monitor"].op = "repair", !["monitor"].got = {},
                              !["monitor"].why = "none", !["monitor"].left = Ends(l)]
             /\ UNCHANGED row
     /\ UNCHANGED <<topo, resv, agentVars, holder, cycle, spent>>

\* The end of attempt_partial_recovery: up once both sides are attached, without
\* a look at the wire or the tunnel record.
FinishRecover ==
  LET l == worker["monitor"].link
      att == row[l].att \cup worker["monitor"].got
  IN /\ worker["monitor"].op = "recover" /\ worker["monitor"].left = {}
     /\ worker' = [worker EXCEPT !["monitor"] = Over("monitor", l, "none")]
     /\ row' = IF ~Exists(l) THEN row
               ELSE [row EXCEPT ![l] = [Written(row[l], l, IF att = Ends(l) THEN "recovered"
                                                           ELSE "skipped") EXCEPT !.att = att]]
     /\ UNCHANGED <<topo, resv, agentVars, holder, cycle, spent>>

\* cleanup_orphaned_link_states and cleanup_orphaned_tunnels take a tunnel off both
\* agents, where they are known, before the row or the tunnel goes.
Detach(l) ==
  LET known == {e \in Ends(l) : Host[e] \in worker["monitor"].agents}
  IN worker' = [worker EXCEPT !["monitor"].op = "detach", !["monitor"].link = l,
                  !["monitor"].left = known,
                  !["monitor"].why = IF known = Ends(l) THEN "none" ELSE "failed"]

CleanupOrphan(l) ==
  /\ Doing("orphans", l)
  /\ IF row[l].tunnel = "none" THEN Settle("monitor", l, "torn") ELSE Detach(l) /\ UNCHANGED row
  /\ UNCHANGED <<topo, resv, agentVars, holder, cycle, spent>>

CleanupTunnel(l) ==
  /\ Doing("tunnels", l)
  /\ Detach(l)
  /\ UNCHANGED <<dbVars, agentVars, holder, cycle, spent>>

FinishDetach ==
  LET m == worker["monitor"]
  IN /\ m.op = "detach" /\ m.left = {}
     /\ Settle("monitor", m.link, IF m.why = "none" THEN "torn" ELSE "untorn")
     /\ UNCHANGED <<topo, resv, agentVars, holder, cycle, spent>>

\* Then the tunnels in cleanup are read.
CommitOrphans ==
  LET rows == [l \in Links |-> IF l \in Came({"torn"}) THEN NoRow
                               ELSE IF l \in Came({"untorn"}) THEN Marked(row[l]) ELSE row[l]]
  IN /\ Entering("orphans") /\ \A l \in Came({"torn"}) : ~Locked(l, "monitor")
     /\ row' = rows /\ resv' = Released(resv, Came({"torn"}))
     /\ Swept("tunnels", {l \in Links : rows[l].tunnel = "cleanup"})
     /\ UNCHANGED <<topo, agentVars, holder, cycle, spent>>

CommitTunnels ==
  /\ Entering("tunnels")
  /\ row' = [l \in Links |-> IF l \in Came({"torn"}) THEN [row[l] EXCEPT !.tunnel = "none"]
                              ELSE IF l \in Came({"untorn"}) THEN Marked(row[l]) ELSE row[l]]
  /\ Swept(IF cycle = 0 THEN "reserve" ELSE "overlay", {})
  /\ UNCHANGED <<topo, resv, agentVars, holder, cycle, spent>>

\* reconcile_link_endpoint_reservations: a row desired up claims its endpoints if
\* nobody conflicts, any other row loses its reservations.
HealReservations ==
  LET kept == Released(resv, {l \in Links : row[l].desired # "up"})
  IN /\ Entering("reserve") /\ Enter("overlay", {})
     /\ resv' = Claimed(kept, {l \in Links : /\ row[l].desired = "up"
                                             /\ \A k \in Links : Share(k, l) => row[k].desired # "up"})
     /\ UNCHANGED <<topo, row, agentVars, holder, cycle, spent>>

\* run_overlay_convergence: every agent gets the links that had an active tunnel
\* and were desired up when the rows were read, creates their VXLAN ports and
\* removes all others; the flags that were missing are written at the end.
Declared == {l \in Links : Cross(l) /\ row[l].tunnel = "active" /\ row[l].desired = "up"}
Known == {e \in Endpoints : Host[e] \in worker["monitor"].agents}
On(h) == {e \in worker["monitor"].left : Host[e] = h}

\* The monitor turns to the endpoints of left, about the links of plus.
Turn(phase, plus, left, todo) ==
  worker' = [worker EXCEPT !["monitor"] = [Idle EXCEPT
     !.phase = phase, !.agents = worker["monitor"].agents, !.plus = plus, !.left = left,
     !.todo = todo]]

ReadOverlay ==
  /\ Entering("overlay")
  /\ Turn("declare", Declared, Known, {l \in Declared : row[l].att # Ends(l)})
  /\ UNCHANGED <<dbVars, agentVars, holder, cycle, spent>>

DeclareOverlay(h) ==
  LET m == worker["monitor"]
      S == IF h \in online THEN On(h) ELSE {}
  IN /\ m.phase = "declare" /\ On(h) # {}
     /\ vxlan' = [l \in Links |-> {e \in Endpoints :
                     IF e \in S /\ e \in Ends(l) THEN l \in m.plus ELSE e \in vxlan[l]}]
     /\ worker' = [worker EXCEPT !["monitor"].left = @ \ On(h), !["monitor"].got = @ \cup S]
     /\ UNCHANGED <<dbVars, tag, ready, online, holder, cycle, spent>>

CommitOverlay ==
  LET m == worker["monitor"]
      set == {l \in m.todo : Exists(l) /\ Ends(l) \cap m.got # {}}
  IN /\ m.phase = "declare" /\ m.left = {} /\ \A l \in set : ~Locked(l, "monitor")
     /\ row' = [l \in Links |-> IF l \in set THEN [row[l] EXCEPT !.att = @ \cup (Ends(l) \cap m.got)]
                                 ELSE row[l]]
     /\ Turn("ports", {}, {}, {})
     /\ UNCHANGED <<topo, resv, agentVars, holder, cycle, spent>>

\* run_cross_host_port_convergence, then run_same_host_convergence: the ports of
\* links that are up and desired up when the rows are read get the tag of the row;
\* those of cross-host links one by one, where the tag was another one.
Ups(cross) == {l \in Links : Cross(l) = cross /\ row[l].desired = "up" /\ row[l].actual = "up"}

ReadPorts ==
  /\ Entering("ports")
  /\ Turn("push", Ups(TRUE),
          {e \in Known \cap ready : Host[e] \in online
                                    /\ \E l \in Ups(TRUE) : e \in Ends(l) /\ tag[e] # l}, {})
  /\ UNCHANGED <<dbVars, agentVars, holder, cycle, spent>>

ReadPairs ==
  /\ worker["monitor"].phase = "push" /\ worker["monitor"].left = {}
  /\ Turn("pair", Ups(FALSE), {e \in Known : \E l \in Ups(FALSE) : e \in Ends(l)}, {})
  /\ UNCHANGED <<dbVars, agentVars, holder, cycle, spent>>

PushPorts(S) ==
  LET m == worker["monitor"]
      wanted(e) == {l \in m.plus : e \in Ends(l)}
      set == {e \in S : Host[e] \in online /\ e \in ready}
  IN /\ S # {} /\ worker' = [worker EXCEPT !["monitor"].left = @ \ S]
     /\ \E pick \in [Endpoints -> Links \cup {"none"}] :
          /\ \A e \in Endpoints : IF e \in set THEN pick[e] \in wanted(e) ELSE pick[e] = tag[e]
          /\ tag' = pick
     /\ UNCHANGED <<dbVars, vxlan, ready, online, holder, cycle, spent>>
PushPort(e) == worker["monitor"].phase = "push" /\ PushPorts({e} \cap worker["monitor"].left)
PushPairs(h) == worker["monitor"].phase = "pair" /\ PushPorts(On(h))

Sleep ==
  /\ worker["monitor"].phase = "pair" /\ worker["monitor"].left = {}
  /\ worker' = [worker EXCEPT !["monitor"] = Idle]
  /\ UNCHANGED <<dbVars, agentVars, holder, cycle, spent>>
-----------------------------------------------------------------------------
(* process_link_changes, inside link_ops_lock *)

\* Mutant: the lock is not given back.
UnlockedNot(w) == holder
Unlocked(w) == IF holder = w THEN "none" ELSE holder

Task == worker["task"]

\* Without the lock, or with no agent online, the changes are left to the monitor.
TaskStart ==
  /\ Task.phase = "removed" /\ Task.agents = {}
  /\ IF holder = "none" /\ online # {}
     THEN holder' = "task" /\ worker' = [worker EXCEPT !["task"].agents = online]
     ELSE UNCHANGED holder /\ worker' = [worker EXCEPT !["task"] = Idle]
  /\ UNCHANGED <<dbVars, agentVars, cycle, spent>>

TaskRemove(l) ==
  /\ Task.phase = "removed" /\ Task.agents # {} /\ Task.op = "none" /\ l \in Task.todo
  /\ BeginTeardown("task", l, Task.info[l])
  /\ UNCHANGED <<topo, agentVars, holder, cycle, spent>>

\* Removed links whose teardown went through; the rows go whatever is desired now.
Torn    == {l \in Links : Task.info[l] # "none" /\ Task.out[l] \in {"torn", "skipped"}}

TaskTurn ==
  /\ Task.phase = "removed" /\ Task.agents # {} /\ Task.op = "none" /\ Task.todo = {}
  /\ worker' = [worker EXCEPT !["task"].phase = "added", !["task"].todo = Task.plus]
  /\ UNCHANGED <<dbVars, agentVars, holder, cycle, spent>>

TaskAdd(l) ==
  /\ Task.phase = "added" /\ Task.op = "none" /\ l \in Task.todo
  /\ BeginCreate("task", l)
  /\ UNCHANGED <<topo, agentVars, holder, cycle, spent>>

TaskCommit ==
  /\ Task.phase = "added" /\ Task.op = "none" /\ Task.todo = {}
  /\ \A l \in Flushed("task") : ~Locked(l, "task")
  /\ row' = [l \in Links |-> IF l \in Torn THEN NoRow ELSE Written(row[l], l, Task.out[l])]
  /\ resv' = Released(resv, Torn)
  /\ worker' = [worker EXCEPT !["task"] = Idle] /\ holder' = Unlocked("task")
  /\ UNCHANGED <<topo, agentVars, cycle, spent>>

-----------------------------------------------------------------------------
(* hot_connect_link and hot_disconnect_link, outside link_ops_lock *)

Request == worker["request"]
OneLink(phase, l) == [Idle EXCEPT !.phase = phase, !.agents = online, !.todo = {l}]

HotConnect(l) ==
  /\ Event /\ Request.phase = "idle" /\ online # {}
  /\ worker' = [worker EXCEPT !["request"] = OneLink("connect", l)]
  /\ UNCHANGED <<dbVars, agentVars, holder, cycle>>

HotDisconnect(l) ==
  /\ Event /\ Request.phase = "idle" /\ online # {} /\ Exists(l)
  /\ worker' = [worker EXCEPT !["request"] =
                  [OneLink("removed", l) EXCEPT !.info[l] = row[l].actual]]
  /\ UNCHANGED <<dbVars, agentVars, holder, cycle>>

\* The definition and the row are made in the transaction that claims the
\* endpoints; they stay when the claim is refused.
Connected(l) == [row EXCEPT ![l] =
  IF ~Exists(l) THEN NewRow ELSE [row[l] EXCEPT !.desired = IF @ = "deleted" THEN "up" ELSE @]]

RequestWork(l) ==
  /\ Request.op = "none" /\ l \in Request.todo
  /\ \/ Request.phase = "connect" /\ CreateIn(Connected(l), "request", l) /\ topo' = topo \cup {l}
     \/ Request.phase = "removed" /\ BeginTeardown("request", l, Request.info[l]) /\ UNCHANGED topo
  /\ UNCHANGED <<agentVars, holder, cycle, spent>>

RequestEnd ==
  /\ Request.phase # "idle" /\ Request.op = "none" /\ Request.todo = {}
  /\ worker' = [worker EXCEPT !["request"] = Idle]
  /\ UNCHANGED <<dbVars, agentVars, holder, cycle, spent>>

-----------------------------------------------------------------------------
(* The links' part of the reconciliation of the lab *)

Lab == worker["lab"]

\* What the states of the endpoints and the tunnel say of a link.
Observed(l) ==
  IF ~(Ends(l) \subseteq ready) THEN "down"
  ELSE IF ~row[l].carrier THEN "down"
  ELSE IF Cross(l) THEN IF row[l].tunnel = "active" THEN "up" ELSE "error"
  ELSE IF row[l].desired = "down" THEN "down"
  ELSE IF row[l].actual \in {"up", "error"} THEN row[l].actual ELSE "pending"

\* Missing rows are created first, without a reservation.
LabEnsure ==
  /\ Lab.phase = "idle" /\ online # {}
  /\ row' = [l \in Links |-> IF l \in topo /\ ~Exists(l) THEN NewRow ELSE row[l]]
  /\ worker' = [worker EXCEPT !["lab"] = [Idle EXCEPT !.phase = "check", !.agents = online]]
  /\ UNCHANGED <<topo, resv, agentVars, holder, cycle, spent>>

\* The observed states are kept for the transaction; links that should be up are
\* connected inside link_ops_lock, or the next time if it is taken.
LabRefresh ==
  LET connect == {l \in Links : /\ row[l].desired = "up" /\ row[l].carrier
                                /\ Ends(l) \subseteq ready /\ Observed(l) # "up"}
  IN /\ Lab.phase = "check"
     /\ worker' = [worker EXCEPT !["lab"] = [@ EXCEPT !.phase = "connect",
            !.info = [l \in Links |-> IF Exists(l) THEN Observed(l) ELSE "none"],
            !.plus = {l \in Links : row[l].desired = "deleted"},
            !.todo = IF holder = "none" THEN connect ELSE {}]]
     /\ holder' = IF holder = "none" /\ connect # {} THEN "lab" ELSE holder
     /\ UNCHANGED <<dbVars, agentVars, cycle, spent>>

LabConnect(l) ==
  /\ Lab.phase = "connect" /\ Lab.op = "none" /\ l \in Lab.todo
  /\ IF Locked(l, "lab") THEN Pass("lab", l) ELSE BeginCreate("lab", l)
  /\ UNCHANGED <<topo, agentVars, holder, cycle, spent>>

\* Rows that were to be deleted go, whether or not the link was torn down.
LabCommit ==
  /\ Lab.phase = "connect" /\ Lab.op = "none" /\ Lab.todo = {}
  /\ \A l \in Links : Lab.info[l] # "none" => ~Locked(l, "lab")
  /\ row' = [l \in Links |->
       IF l \in Lab.plus THEN NoRow
       ELSE IF Lab.info[l] = "none" \/ ~Exists(l) THEN row[l]
       ELSE Written([row[l] EXCEPT !.actual = Lab.info[l]], l, Lab.out[l])]
  /\ resv' = Released(resv, Lab.plus)
  /\ worker' = [worker EXCEPT !["lab"] = Idle]
  /\ holder' = Unlocked("lab")
  /\ UNCHANGED <<topo, agentVars, cycle, spent>>

-----------------------------------------------------------------------------
(* Agents and nodes *)

AgentDown(h) ==
  /\ Event /\ h \in online /\ online' = online \ {h}
  /\ UNCHANGED <<dbVars, tag, vxlan, ready, worker, holder, cycle>>

\* An agent that comes back registers anew: its cross-host links that were up are
\* marked for recovery (mark_links_for_recovery).
AgentUp(h) ==
  /\ h \notin online /\ online' = online \cup {h}
  /\ LET hit == {l \in Links : Cross(l) /\ h \in HostsOf(l) /\ row[l].actual = "up"}
     IN /\ \A l \in hit : ~Locked(l, "none")
        /\ row' = [l \in Links |-> IF l \notin hit THEN row[l]
                     ELSE [row[l] EXCEPT !.actual = "error", !.att = {e \in @ : Host[e] # h}]]
  /\ UNCHANGED <<topo, resv, tag, vxlan, ready, worker, holder, cycle, spent>>

\* A node that stops takes its port with it; one that starts gets a tag of its own.
NodeStop(e) ==
  /\ Event /\ e \in ready /\ ready' = ready \ {e} /\ tag' = [tag EXCEPT ![e] = "none"]
  /\ UNCHANGED <<dbVars, vxlan, online, worker, holder, cycle>>

NodeStart(e) ==
  /\ e \notin ready /\ ready' = ready \cup {e}
  /\ UNCHANGED <<dbVars, tag, vxlan, online, worker, holder, cycle, spent>>

-----------------------------------------------------------------------------
UserStep ==
  \/ \E T \in SUBSET Links : EditTopology(T)
  \/ ListLinks
  \/ \E d \in {"up", "down"} : SetAllLinks(d) \/ \E l \in Links : SetLink(l, d)
  \/ \E l \in Links : HotConnect(l) \/ HotDisconnect(l)

Finish(w) == FinishCreate(w) \/ FinishTeardown(w)

MonitorStep ==
  \/ Wake \/ CommitDeleted \/ NextPhase \/ CommitOrphans \/ CommitTunnels \/ HealReservations
  \/ ReadOverlay \/ CommitOverlay \/ ReadPorts \/ ReadPairs \/ Sleep
  \/ \E l \in Links : CleanupDeleted(l) \/ CheckLink(l) \/ CleanupOrphan(l) \/ CleanupTunnel(l)
  \/ (\E h \in Hosts : DeclareOverlay(h) \/ PushPairs(h)) \/ (\E e \in Endpoints : PushPort(e))
  \/ CallAgent("monitor") \/ Finish("monitor") \/ FinishRetag \/ FinishRecover \/ FinishDetach

TaskStep == \/ TaskStart \/ TaskTurn \/ TaskCommit \/ CallAgent("task") \/ Finish("task")
            \/ \E l \in Links : TaskRemove(l) \/ TaskAdd(l)

RequestStep == \/ RequestEnd \/ CallAgent("request") \/ Finish("request")
               \/ \E l \in Links : RequestWork(l)

LabStep == \/ LabEnsure \/ LabRefresh \/ LabCommit \/ CallAgent("lab") \/ Finish("lab")
           \/ \E l \in Links : LabConnect(l)

Recovery == (\E h \in Hosts : AgentUp(h)) \/ (\E e \in Endpoints : NodeStart(e))

Next == \/ UserStep \/ MonitorStep \/ TaskStep \/ RequestStep \/ LabStep \/ Recovery
        \/ (\E h \in Hosts : AgentDown(h)) \/ (\E e \in Endpoints : NodeStop(e))

Spec == Init /\ [][Next]_vars

\* The loops run, whatever has begun goes on, agents and nodes come back.
FairSpec == Spec /\ WF_vars(MonitorStep) /\ WF_vars(TaskStep) /\ WF_vars(RequestStep)
                 /\ WF_vars(LabStep) /\ WF_vars(Recovery)
-----------------------------------------------------------------------------
(* Properties *)

\* Every variable has its type.
TypeOK ==
  /\ topo \subseteq Links /\ row \in [Links -> Row]
  /\ resv \in [Endpoints -> Links \cup {"none"}]
  /\ tag \in [Endpoints -> Links \cup {"none"}] /\ vxlan \in [Links -> SUBSET Endpoints]
  /\ ready \subseteq Endpoints /\ online \subseteq Hosts
  /\ worker \in [Workers -> Worker] /\ holder \in {"none", "task", "lab"}
  /\ holder # "none" => worker[holder].phase # "idle"
  /\ cycle \in 0..(HealEvery - 1)
  /\ spent \in [event : 0..MaxEvents, fault : 0..MaxFaults]

\* A reservation belongs to an endpoint of a row that exists.
ReservedByRow == \A e \in Endpoints : resv[e] # "none" => Exists(resv[e]) /\ e \in Ends(resv[e])

\* Nobody has anything to do but the two periodic loops, which do not overlap.
Apart == /\ Task.phase = "idle" /\ Request.phase = "idle"
         /\ Lab.phase = "idle" \/ worker["monitor"].phase = "idle"
Wanted(l) == /\ l \in topo /\ row[l].desired = "up" /\ Ends(l) \subseteq ready
             /\ HostsOf(l) \subseteq online
             /\ \A k \in Links : Share(k, l) => row[k].desired # "up"

\* A link that is to be up, between ready nodes and with no rival for its
\* endpoints, is wired in the end and its row says so, whatever failed or was lost
\* on the way, if the monitor and the reconciliation of the lab do not keep
\* running into each other.
Settles == \A l \in Links : <>[](Wanted(l) /\ Apart) => <>[](Wired(l) /\ row[l].actual = "up")

\* The row of a link that has left the topology goes in the end, though agents may
\* be away when it is to be torn down.
Vanishes == \A l \in Links : <>[](l \notin topo) => <>[]~Exists(l)
=============================================================================
