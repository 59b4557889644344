----------------------------- MODULE RedisLease -----------------------------
(***************************************************************************)
(* The lock both reconciliation_lock and link_ops_lock implement: a Redis  *)
(* key set with NX and a time to live, a random token that names its       *)
(* owner, a thread that extends the key while the scope runs, and a        *)
(* release that deletes the key only for its owner.  Time is discrete.     *)
(***************************************************************************)
EXTENDS Naturals

CONSTANTS
  Processes,   \* tasks that may enter the scope
  TTL,         \* the key's time to live
  Interval,    \* the renewal thread's wait
  Delay,       \* how late the thread may wake up
  MaxErrors,   \* Redis calls that fail (bound)
  MaxCrashes   \* processes that die inside the scope (bound)

\* 60 and 20 seconds for reconciliation, 300 and 100 for link operations.
ASSUME LeaseAssumption ==
  /\ {TTL, Interval, Delay, MaxErrors, MaxCrashes} \subseteq Nat
  /\ 0 < Interval /\ Interval + Delay < TTL
  /\ "free" \notin Processes /\ "orphan" \notin Processes

VARIABLES
  owner,     \* whose token the key holds; "orphan": a token of nobody inside
  ttl,       \* what is left of the key's time to live
  inside,    \* the processes inside the scope
  renewing,  \* those whose renewal thread still runs
  waited,    \* how long each thread has waited since its last renewal
  spent      \* how much of each bound is used

vars == <<owner, ttl, inside, renewing, waited, spent>>

Init ==
  /\ owner = "free" /\ ttl = 0 /\ inside = {} /\ renewing = {}
  /\ waited = [p \in Processes |-> 0]
  /\ spent = [errors |-> 0, crashes |-> 0]

RedisError == spent.errors < MaxErrors /\ spent' = [spent EXCEPT !.errors = @ + 1]

\* SET NX: only a key that does not exist is set.
\* Mutant: SET without NX.
VacantAlways == TRUE
Vacant == owner = "free"

Acquire(p) ==
  /\ p \notin inside /\ Vacant
  /\ owner' = p /\ ttl' = TTL
  /\ inside' = inside \cup {p} /\ renewing' = renewing \cup {p}
  /\ waited' = [waited EXCEPT ![p] = 0]
  /\ UNCHANGED spent

\* The caller stays out when the call fails, whether or not the key was set.
AcquireFails(p) ==
  /\ p \notin inside /\ Vacant /\ RedisError
  /\ owner' = "orphan" /\ ttl' = TTL
  /\ UNCHANGED <<inside, renewing, waited>>

\* Mutant: the key is found but not extended.
ExtendedNot == ttl
Extended == TTL

\* The thread extends a key that is still its own, and ends otherwise.
Renew(p) ==
  /\ p \in renewing /\ waited[p] >= Interval
  /\ IF owner = p
     THEN ttl' = Extended /\ waited' = [waited EXCEPT ![p] = 0] /\ UNCHANGED renewing
     ELSE renewing' = renewing \ {p} /\ UNCHANGED <<ttl, waited>>
  /\ UNCHANGED <<owner, inside, spent>>

\* One failed call ends the thread for good; the scope is not told.
RenewFails(p) ==
  /\ p \in renewing /\ waited[p] >= Interval /\ RedisError
  /\ ttl' \in IF owner = p THEN {ttl, TTL} ELSE {ttl}
  /\ renewing' = renewing \ {p}
  /\ UNCHANGED <<owner, inside, waited>>

\* The key's owner once p has released.
\* Mutant: the key is deleted whoever owns it.
ReleasedAnyway(p) == "free"
Released(p) == IF owner = p THEN "free" ELSE owner

\* Mutant: the renewal thread is not stopped.
LeaveThread(p) == inside' = inside \ {p} /\ UNCHANGED renewing
Leave(p) == inside' = inside \ {p} /\ renewing' = renewing \ {p}

Exit(p) ==
  /\ p \in inside /\ Leave(p)
  /\ owner' = Released(p)
  /\ ttl' = IF owner' = "free" THEN 0 ELSE ttl
  /\ UNCHANGED <<waited, spent>>

\* The release call fails: the token stays until the key expires.
ExitFails(p) ==
  /\ p \in inside /\ RedisError /\ Leave(p)
  /\ owner' = IF owner = p THEN "orphan" ELSE owner
  /\ UNCHANGED <<ttl, waited>>

Crash(p) ==
  /\ p \in inside /\ Leave(p)
  /\ spent.crashes < MaxCrashes /\ spent' = [spent EXCEPT !.crashes = @ + 1]
  /\ owner' = IF owner = p THEN "orphan" ELSE owner
  /\ UNCHANGED <<ttl, waited>>

\* Mutant: SET without EX.
LeftForever == ttl
Left == ttl - 1

\* One unit of time; a renewal thread is at most Delay late.
Tick ==
  /\ owner # "free" \/ renewing # {}
  /\ \A p \in renewing : waited[p] < Interval + Delay
  /\ waited' = [p \in Processes |-> IF p \in renewing THEN waited[p] + 1 ELSE waited[p]]
  /\ IF owner = "free" THEN UNCHANGED <<owner, ttl>>
     ELSE /\ ttl' = Left
          /\ owner' = IF Left = 0 THEN "free" ELSE owner
  /\ UNCHANGED <<inside, renewing, spent>>

Next ==
  \/ Tick
  \/ \E p \in Processes : \/ Acquire(p) \/ AcquireFails(p) \/ Renew(p) \/ RenewFails(p)
                          \/ Exit(p) \/ ExitFails(p) \/ Crash(p)

Spec == Init /\ [][Next]_vars

\* Time passes, renewal threads are scheduled.  Nobody has to leave the scope.
FairSpec == Spec /\ WF_vars(Tick) /\ \A p \in Processes : WF_vars(Renew(p))
-----------------------------------------------------------------------------
(* Properties *)

\* Every variable has its type, and a free key has no time left.
TypeOK ==
  /\ owner \in Processes \cup {"free", "orphan"}
  /\ ttl \in 0..TTL /\ (owner = "free" <=> ttl = 0)
  /\ inside \subseteq Processes /\ renewing \subseteq inside
  /\ waited \in [Processes -> 0..(Interval + Delay)]
  /\ spent \in [errors : 0..MaxErrors, crashes : 0..MaxCrashes]

\* A process whose renewal thread runs owns the key, however long its scope is
\* and whatever others with an outlived lease do when they leave.
RenewedMeansOwner == \A p \in renewing : owner = p

\* As long as Redis answers, the lock excludes: crashes and slow threads do not
\* let a second process in beside a live one.
ExclusiveWhileRedisAnswers ==
  spent.errors = 0 => \A p, q \in inside : p = q

\* What the two scopes rely on is the lock of ScopeLock: those who renew are
\* protected, and one who outlived its lease takes nothing from them by leaving.
Lock == INSTANCE ScopeLock WITH
  Processes <- Processes, inside <- inside,
  protected <- renewing, answering <- (spent.errors = 0)
LockSpec == Lock!Spec

\* A key nobody will release is gone in the end, so the lab is not locked for
\* ever after a crash or a lost reply.
OrphanExpires == (owner = "orphan") ~> (owner # "orphan")
=============================================================================
