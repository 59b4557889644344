------------------------------ MODULE VlanTags ------------------------------
(***************************************************************************)
(* The VLAN tags of one agent's OVS bridge.  Whoever shares a tag on the   *)
(* bridge shares a wire.  The Docker plugin allocates tags under its lock, *)
(* looking at the bridge and at its own pool; the overlay router uses the  *)
(* plugin's allocator without the lock; the links router and libvirt only  *)
(* look at the bridge, libvirt when it defines a domain whose port comes   *)
(* when it starts.  Every look and every change is a command that other    *)
(* requests run beside.  The plugin keeps its endpoints in a file and      *)
(* starts from it.                                                         *)
(***************************************************************************)
EXTENDS Naturals, FiniteSets

CONSTANTS
  Containers,            \* the endpoints of containers' interfaces
  Machines,              \* the interfaces of virtual machines
  Lab,                   \* the lab of each of them
  Isolated, Linked,      \* the two ranges of tags
  Slots,                 \* requests under way at the same time (bound)
  MaxEvents,             \* requests and restarts (bound)
  MaxBare,               \* requests that allocate without the pool (bound)
  MaxFaults              \* OVS commands that fail (bound)

Ports == Containers \cup Machines
Tags  == Isolated \cup Linked

ASSUME VlanAssumption ==
  /\ IsFiniteSet(Ports) /\ Containers \cap Machines = {} /\ "none" \notin Ports
  /\ DOMAIN Lab = Ports
  /\ Tags \subseteq Nat \ {0} /\ IsFiniteSet(Tags) /\ Isolated \cap Linked = {}
  /\ "none" \notin Slots /\ MaxEvents \in Nat /\ MaxBare \in Nat /\ MaxFaults \in Nat

VARIABLES
  attached,  \* the endpoints Docker has attached, and the interfaces of running machines
  bridge,    \* the tag of a port on the bridge, 0 without a port
  tunnel,    \* the tag of the VXLAN port of a cross-host link, 0 without one
  track,     \* the tag of an endpoint in the plugin, 0 if it has none
  file,      \* the endpoints in the state file
  pool,      \* _allocated_vlans and _allocated_linked_vlans
  held,      \* the tag libvirt holds for the interface of a defined machine
  req,       \* the requests under way
  lock,      \* the request that holds the plugin's lock
  lost,      \* endpoints to be reconnected after a start
  spent      \* how much of each bound is used

vars == <<attached, bridge, tunnel, track, file, pool, held, req, lock, lost, spent>>

Kinds == {"plug", "unplug", "repair", "attach", "detach", "connect", "disconnect"}
Locked == {"plug", "unplug", "repair", "detach"}
Makes  == {"plug", "repair"}  \* these make the port
Pairs  == {"connect", "disconnect"}

\* seen: the tags on the bridge when the request looked; want and was: the new
\* and the old tags of its ports; left: ports whose tag is still to be set;
\* snap: the endpoints it writes to the file.
Step == {"idle", "look", "pick", "set", "note", "sync", "save", "write", "tunnel"}
NoTags == [p \in Ports |-> 0]
NoEnds == [p \in Containers |-> 0]
Req  == [kind : Kinds \cup {"none"}, pc : Step, a : Ports \cup {"none"}, b : Ports \cup {"none"},
         seen : SUBSET Tags, want : [Ports -> Tags \cup {0}], was : [Ports -> Tags \cup {0}],
         left : SUBSET Ports, snap : [Containers -> Tags \cup {0}]]
Idle == [kind |-> "none", pc |-> "idle", a |-> "none", b |-> "none", seen |-> {},
         want |-> NoTags, was |-> NoTags, left |-> {}, snap |-> NoEnds]

Init ==
  /\ attached = {} /\ bridge = NoTags /\ tunnel = NoTags /\ track = NoEnds /\ file = NoEnds
  /\ pool = {} /\ held = [m \in Machines |-> 0]
  /\ req = [s \in Slots |-> Idle] /\ lock = "none" /\ lost = {}
  /\ spent = [event |-> 0, bare |-> 0, fault |-> 0]

\* Mutant: a port that is not there counts as tag 0.
OnBridgeAll == {bridge[p] : p \in Ports} \cup {tunnel[p] : p \in Ports}
OnBridge == ({bridge[p] : p \in Ports} \cup {tunnel[p] : p \in Ports}) \ {0}
First(S) == CHOOSE t \in S : \A u \in S : t <= u
Both(r)  == {r.a, r.b} \ {"none"}

Event == spent.event < MaxEvents /\ spent' = [spent EXCEPT !.event = @ + 1]
Bare  == spent.event < MaxEvents /\ spent.bare < MaxBare
         /\ spent' = [spent EXCEPT !.event = @ + 1, !.bare = @ + 1]
Fault == spent.fault < MaxFaults /\ spent' = [spent EXCEPT !.fault = @ + 1]
-----------------------------------------------------------------------------
(* Requests *)

FirstStep(kind) == CASE kind = "unplug" -> "note" [] kind = "repair" -> "set" [] OTHER -> "look"
Begin(s, kind, a, b) ==
  /\ req[s].pc = "idle"
  /\ kind \in Locked => lock = "none"
  /\ lock' = IF kind \in Locked THEN s ELSE lock
  /\ req' = [req EXCEPT ![s] = [Idle EXCEPT !.kind = kind, !.a = a, !.b = b,
               !.pc = FirstStep(kind),
               !.want = IF kind = "repair" THEN [NoTags EXCEPT ![a] = track[a]] ELSE NoTags,
               !.was = [p \in Ports |-> IF p \in {a, b} THEN bridge[p] ELSE 0],
               !.left = {a, b} \ {"none"}]]

Unasked(p) == \A s \in Slots : p \notin Both(req[s])

\* Docker attaches an endpoint that is new to everybody: a container starts, or
\* the plugin has it reconnected.
New(p) == p \in Containers \ attached /\ track[p] = 0 /\ bridge[p] = 0 /\ Unasked(p)
Plug(s, p) ==
  /\ New(p) /\ Begin(s, "plug", p, "none")
  /\ IF p \in lost THEN UNCHANGED spent ELSE Event
  /\ UNCHANGED <<attached, bridge, tunnel, track, file, pool, held, lost>>

\* Docker detaches one: the container stops, or it is about to be reconnected.
Unplug(s, p) ==
  /\ p \in attached \cap Containers /\ Begin(s, "unplug", p, "none")
  /\ IF p \in lost THEN UNCHANGED spent ELSE Event
  /\ attached' = attached \ {p}
  /\ UNCHANGED <<bridge, tunnel, track, file, pool, held, lost>>

\* repair_endpoints: a tracked endpoint without a port gets one with its stored tag.
Repair(s, p) ==
  /\ Event /\ p \in attached \cap Containers /\ track[p] # 0 /\ bridge[p] = 0 /\ Unasked(p)
  /\ Begin(s, "repair", p, "none")
  /\ UNCHANGED <<attached, bridge, tunnel, track, file, pool, held, lost>>

\* attach_overlay_interface and detach_overlay_interface; the controller asks for
\* one thing at a time of an interface.
Overlay(s, kind, p) ==
  /\ kind \in {"attach", "detach"} /\ Event /\ bridge[p] # 0 /\ Unasked(p)
  /\ kind = "detach" => p \in Containers /\ track[p] # 0
  /\ Begin(s, kind, p, "none")
  /\ UNCHANGED <<attached, bridge, tunnel, track, file, pool, held, lost>>

\* create_link and delete_link.
Two(s, kind, a, b) ==
  /\ kind \in Pairs /\ Bare /\ a # b /\ bridge[a] # 0 /\ bridge[b] # 0
  /\ Unasked(a) /\ Unasked(b)
  /\ Begin(s, kind, a, b)
  /\ UNCHANGED <<attached, bridge, tunnel, track, file, pool, held, lost>>

Go(s, pc) == req' = [req EXCEPT ![s].pc = pc]
End(s) == /\ req' = [req EXCEPT ![s] = Idle]
          /\ lock' = IF lock = s THEN "none" ELSE lock

\* A command that lists the ports; when it fails nothing is in use.
Look(s) ==
  /\ req[s].pc = "look"
  /\ \/ req' = [req EXCEPT ![s].pc = "pick", ![s].seen = OnBridge] /\ UNCHANGED spent
     \/ Fault /\ req' = [req EXCEPT ![s].pc = "pick", ![s].seen = {}]
  /\ UNCHANGED <<attached, bridge, tunnel, track, file, pool, held, lock, lost>>

\* The preferred range, or the other one when it is used up.
Prefer(R, used) == IF R \ used # {} THEN R \ used ELSE Tags \ used
Range(kind) == CASE kind \in {"attach", "connect"} -> Linked [] kind = "repair" -> Tags
                 [] OTHER -> Isolated

\* Mutant: the allocator forgets the bridge.
UsedOwn(s) == pool
\* _allocate_vlan and _allocate_linked_vlan: the pool as it is now, the bridge as
\* it was, the next tag in turn.
Used(s) == req[s].seen \cup pool

PickOne(s) ==
  LET r == req[s]
  IN /\ r.pc = "pick" /\ r.kind \notin Pairs
     /\ \E t \in Prefer(Range(r.kind), Used(s)) :
          /\ pool' = pool \cup {t}
          /\ req' = [req EXCEPT ![s].pc = "set", ![s].want[r.a] = t]
     /\ UNCHANGED <<attached, bridge, tunnel, track, file, held, lock, lost, spent>>

\* create_link takes the first free tag for both ports, delete_link one for each.
PickTwo(s) ==
  LET r == req[s]
      one == Prefer(Range(r.kind), r.seen)
      two == IF r.kind = "connect" THEN one ELSE Prefer(Isolated, r.seen \cup {First(one)})
  IN /\ r.pc = "pick" /\ r.kind \in Pairs /\ one # {} /\ two # {}
     /\ req' = [req EXCEPT ![s].pc = "set",
                           ![s].want = [@ EXCEPT ![r.a] = First(one), ![r.b] = First(two)]]
     /\ UNCHANGED <<attached, bridge, tunnel, track, file, pool, held, lock, lost, spent>>

\* An error that ends a request leaves an endpoint without its reconnection.
Fails(s) == End(s) /\ lost' = IF req[s].kind = "plug" THEN lost \ {req[s].a} ELSE lost

PickNone(s) ==
  LET r == req[s]
  IN /\ r.pc = "pick"
     /\ IF r.kind \in Pairs
        THEN Cardinality(Tags \ r.seen) < (IF r.kind = "connect" THEN 1 ELSE 2)
        ELSE Tags \subseteq Used(s)
     /\ Fails(s) /\ UNCHANGED <<attached, bridge, tunnel, track, file, pool, held, spent>>

\* The port whose tag is set next.
Next1(r) == IF r.a \in r.left THEN r.a ELSE r.b
Done(s, p) == req' = [req EXCEPT ![s].left = @ \ {p},
                                 ![s].pc = IF req[s].left = {p} THEN "note" ELSE @]

\* Plugging and repairing make the port; any other command fails if the port has gone.
SetPort(s) ==
  LET r == req[s]  p == Next1(r)
  IN /\ r.pc = "set" /\ r.kind # "unplug"
     /\ r.kind \in Makes \/ bridge[p] # 0
     /\ bridge' = [bridge EXCEPT ![p] = r.want[p]] /\ Done(s, p)
     /\ UNCHANGED <<attached, tunnel, track, file, pool, held, lock, lost, spent>>

\* A request for two ports sets the first back when the second fails; a tag that
\* was allocated stays allocated; attach_overlay_interface does not look at the
\* result, and detach_overlay_interface goes on to the tunnel.
SetFails(s) ==
  LET r == req[s]  p == Next1(r)
      back == [bridge EXCEPT ![r.a] = IF @ = 0 THEN 0 ELSE r.was[r.a]]
  IN /\ r.pc = "set" /\ r.kind # "unplug"
     /\ IF r.kind \in Makes \/ bridge[p] # 0 THEN Fault ELSE UNCHANGED spent
     /\ \/ r.kind = "attach" /\ Done(s, p) /\ UNCHANGED <<lock, lost>>
        \/ r.kind = "detach" /\ Go(s, "tunnel") /\ lock' = "none" /\ UNCHANGED lost
        \/ r.kind \notin {"attach", "detach"} /\ Fails(s)
     /\ bridge' = IF r.kind \in Pairs /\ p = r.b THEN back ELSE bridge
     /\ UNCHANGED <<attached, tunnel, track, file, pool, held>>

DeletePort(s) ==
  /\ req[s].kind = "unplug" /\ req[s].pc = "set"
  /\ bridge' = [bridge EXCEPT ![req[s].a] = 0] /\ Go(s, "save")
  /\ UNCHANGED <<attached, tunnel, track, file, pool, held, lock, lost, spent>>

\* What the plugin is told: its endpoints get the new tags, and tags go back.
Tracked(r) == {p \in Both(r) \cap Containers : track[p] # 0}
Record(S, r) == track' = [p \in Containers |-> IF p \in S THEN r.want[p] ELSE track[p]]

NoteOne(s) ==
  LET r == req[s]
  IN /\ r.pc = "note" /\ r.kind \notin Pairs
     /\ \/ r.kind \in {"plug", "repair", "detach"} /\ Record({r.a}, r) /\ Go(s, "save")
           /\ UNCHANGED <<pool, lock>>
        \/ /\ r.kind = "unplug" /\ track[r.a] # 0 /\ Go(s, "set")
           /\ track' = [track EXCEPT ![r.a] = 0] /\ pool' = pool \ {track[r.a]}
           /\ UNCHANGED lock
        \/ r.kind = "unplug" /\ track[r.a] = 0 /\ End(s) /\ UNCHANGED <<track, pool>>
        \/ r.kind = "attach" /\ Go(s, "sync") /\ pool' = pool \ {r.was[r.a]}
           /\ UNCHANGED <<track, lock>>
     /\ UNCHANGED <<attached, bridge, tunnel, file, held, lost, spent>>

NoteTwo(s) ==
  LET r == req[s]
      old == {r.was[p] : p \in Tracked(r)}
      new == {r.want[p] : p \in Tracked(r)}
  IN /\ r.pc = "note" /\ r.kind \in Pairs /\ Record(Tracked(r), r) /\ Go(s, "save")
     /\ pool' = IF r.kind = "connect" THEN pool \ old ELSE (pool \ old) \cup new
     /\ UNCHANGED <<attached, bridge, tunnel, file, held, lock, lost, spent>>

\* set_endpoint_vlan_by_host_veth, under the lock.
Sync(s) ==
  LET r == req[s]  p == r.a
  IN /\ r.pc = "sync" /\ lock = "none"
     /\ IF p \in Containers /\ track[p] \notin {0, r.want[p]}
        THEN /\ pool' = (pool \ {track[p]}) \cup {r.want[p]} /\ lock' = s
             /\ track' = [track EXCEPT ![p] = r.want[p]] /\ Go(s, "save")
        ELSE Go(s, "tunnel") /\ UNCHANGED <<pool, track, lock>>
     /\ UNCHANGED <<attached, bridge, tunnel, file, held, lost, spent>>

\* _save_state: the endpoints as they are, written to the file by a thread.
Save(s) ==
  /\ req[s].pc = "save" /\ req' = [req EXCEPT ![s].pc = "write", ![s].snap = track]
  /\ UNCHANGED <<attached, bridge, tunnel, track, file, pool, held, lock, lost, spent>>

Write(s) ==
  LET r == req[s]
  IN /\ r.pc = "write" /\ file' = r.snap
     /\ IF r.kind \in {"attach", "detach"}
        THEN req' = [req EXCEPT ![s].pc = "tunnel", ![s].snap = NoEnds] /\ lock' = "none"
        ELSE End(s)
     /\ attached' = IF r.kind = "plug" THEN attached \cup {r.a} ELSE attached
     /\ lost' = IF r.kind \in Makes THEN lost \ {r.a} ELSE lost
     /\ UNCHANGED <<bridge, tunnel, track, pool, held, spent>>

\* overlay_create_link_tunnel and overlay_delete_link_tunnel.
Tunnel(s) ==
  LET r == req[s]
  IN /\ r.pc = "tunnel" /\ End(s)
     /\ tunnel' = [tunnel EXCEPT ![r.a] = IF r.kind = "attach" THEN r.want[r.a] ELSE 0]
     /\ UNCHANGED <<attached, bridge, track, file, pool, held, lost, spent>>
-----------------------------------------------------------------------------
(* Virtual machines *)

\* _allocate_vlans: a new allocation avoids the tags on the bridge, and by going
\* round those of its own lab.
Define(m) ==
  LET used == OnBridge \cup {held[n] : n \in {n \in Machines : Lab[n] = Lab[m]}}
  IN /\ Bare /\ held[m] = 0 /\ Isolated \ used # {}
     /\ held' = [held EXCEPT ![m] = First(Isolated \ used)]
     /\ UNCHANGED <<attached, bridge, tunnel, track, file, pool, req, lock, lost>>

Start(m) ==
  /\ held[m] # 0 /\ m \notin attached /\ attached' = attached \cup {m}
  /\ bridge' = [bridge EXCEPT ![m] = held[m]]
  /\ UNCHANGED <<tunnel, track, file, pool, held, req, lock, lost, spent>>

Stop(m) ==
  /\ Event /\ m \in attached /\ attached' = attached \ {m}
  /\ bridge' = [bridge EXCEPT ![m] = 0]
  /\ UNCHANGED <<tunnel, track, file, pool, held, req, lock, lost>>

Undefine(m) ==
  /\ Event /\ held[m] # 0 /\ attached' = attached \ {m}
  /\ bridge' = [bridge EXCEPT ![m] = 0] /\ held' = [held EXCEPT ![m] = 0]
  /\ UNCHANGED <<tunnel, track, file, pool, req, lock, lost>>
-----------------------------------------------------------------------------
(* The agent starts again *)

\* _reconcile_state: endpoints without a port are forgotten.
Kept == {p \in Containers : file[p] # 0 /\ bridge[p] # 0}

\* Mutant: no port is an orphan.
OrphanedNot(p) == FALSE
\* _cleanup_orphaned_ovs_ports goes over the shared bridge once for each lab, and
\* takes for orphans all container ports that lab does not track.
Orphaned(p) == \E l \in {Lab[q] : q \in Containers} : ~(p \in Kept /\ Lab[p] = l)

\* Mutant: only the endpoints it forgot are reconnected.
BareForgotten(S) == {p \in attached \cap Containers : bridge[p] = 0}
\* _post_start_reconcile: what Docker has attached and has no port any more.
BareEnds(S) == {p \in attached \cap Containers : bridge[p] = 0 \/ p \in S}

\* Requests under way die; endpoints come from the file, the pool from the endpoints.
Restart ==
  LET gone == {p \in Containers : bridge[p] # 0 /\ Orphaned(p)}
  IN /\ Event
     /\ bridge' = [p \in Ports |-> IF p \in gone THEN 0 ELSE bridge[p]]
     /\ track' = [p \in Containers |-> IF p \in Kept THEN file[p] ELSE 0]
     /\ file' = track' /\ pool' = {file[p] : p \in Kept}
     /\ lost' = BareEnds(gone)
     /\ req' = [s \in Slots |-> Idle] /\ lock' = "none"
     /\ UNCHANGED <<attached, tunnel, held>>
-----------------------------------------------------------------------------
Work(s) == \/ Look(s) \/ PickOne(s) \/ PickTwo(s) \/ PickNone(s) \/ SetPort(s) \/ SetFails(s)
           \/ DeletePort(s) \/ NoteOne(s) \/ NoteTwo(s) \/ Sync(s) \/ Save(s) \/ Write(s)
           \/ Tunnel(s)

Ask(s) ==
  \/ \E p \in Containers : Plug(s, p) \/ Unplug(s, p) \/ Repair(s, p)
  \/ \E p \in Ports, k \in {"attach", "detach"} : Overlay(s, k, p)
  \/ \E p, q \in Ports, k \in Pairs : Two(s, k, p, q)

Next == \/ \E s \in Slots : Work(s) \/ Ask(s)
        \/ \E m \in Machines : Define(m) \/ Start(m) \/ Stop(m) \/ Undefine(m)
        \/ Restart

Spec == Init /\ [][Next]_vars
FairSpec == /\ Spec /\ \A s \in Slots : WF_vars(Work(s))
            /\ \A p \in Containers : WF_vars(p \in lost /\ \E s \in Slots : Plug(s, p) \/ Unplug(s, p))
-----------------------------------------------------------------------------
TypeOK ==
  /\ attached \subseteq Ports /\ bridge \in [Ports -> Tags \cup {0}]
  /\ tunnel \in [Ports -> Tags \cup {0}]
  /\ track \in [Containers -> Tags \cup {0}] /\ file \in [Containers -> Tags \cup {0}]
  /\ pool \subseteq Tags /\ held \in [Machines -> Tags \cup {0}]
  /\ req \in [Slots -> Req] /\ lock \in Slots \cup {"none"} /\ lost \subseteq Containers
  /\ spent \in [event : 0..MaxEvents, bare : 0..MaxBare, fault : 0..MaxFaults]

OtherHas(p, t) == \E q \in Ports \ {p} : t \in {bridge[q], tunnel[q]}
\* Nobody had to leave the preferred range.
Unspilled == /\ \A p \in Ports : tunnel[p] \notin Isolated
             /\ \A s \in Slots : req[s].a # "none" =>
                  req[s].want[req[s].a] \in Range(req[s].kind) \cup {0}
\* As long as everybody allocates from the pool, no command fails and the
\* ranges suffice, the new tag that the holder of the plugin's lock puts on a port is
\* on nobody else's port or tunnel.
Allocates(s) == SetPort(s) /\ lock = s /\ req[s].kind # "repair"
Fresh == [][\A s \in Slots : Allocates(s) /\ spent.fault = 0 /\ spent.bare = 0 /\ Unspilled
              => ~OtherHas(req[s].a, req[s].want[req[s].a])]_vars

Quiet == \A s \in Slots : req[s].pc = "idle"
\* When nothing is under way every container port on the bridge has an endpoint.
NoStray == Quiet => \A p \in Containers : bridge[p] # 0 => track[p] # 0
\* An endpoint that stays attached has a port and is tracked.
Served == \A p \in Containers : <>[](p \in attached) => <>[](bridge[p] # 0 /\ track[p] # 0)
=============================================================================
