-------------------------- MODULE RedisLeaseProofs --------------------------
(***************************************************************************)
(* Why a process whose renewal thread runs owns the key, for all processes *)
(* and all timings the assumption allows: together, the time left on the   *)
(* key and the time the thread has waited never fall below the time to     *)
(* live, so that the key cannot expire before the thread has to wake up.   *)
(***************************************************************************)
EXTENDS RedisLease, TLAPS

\* The key outlives the wait of its owner's renewal thread.
Covered == \A p \in renewing : ttl + waited[p] >= TTL

\* Only a failed Redis call parts a process inside from its renewal thread.
Renewed == spent.errors = 0 => inside \subseteq renewing

IInv == TypeOK /\ RenewedMeansOwner /\ Covered /\ Renewed

\* The invariant holds while nobody has taken the lock.
LEMMA InitIInv == Init => IInv
BY LeaseAssumption
DEF Init, IInv, TypeOK, RenewedMeansOwner, Covered, Renewed, LeaseAssumption

\* A failed Redis call is counted, so some error has happened afterwards.
LEMMA ErrorCounts ==
  ASSUME TypeOK, RedisError
  PROVE  /\ spent' \in [errors : 0..MaxErrors, crashes : 0..MaxCrashes]
         /\ spent'.errors # 0
BY LeaseAssumption DEF TypeOK, RedisError, LeaseAssumption

\* Whoever acquires a free key is the only process with a running thread.
LEMMA AcquireKeepsIInv ==
  ASSUME IInv, NEW p \in Processes, Acquire(p)
  PROVE  IInv'
<1> USE LeaseAssumption DEF LeaseAssumption
<1>1. renewing = {} /\ owner = "free"
  BY DEF IInv, TypeOK, RenewedMeansOwner, Acquire, Vacant
<1>2. TypeOK'
  BY DEF IInv, TypeOK, Acquire
<1>3. RenewedMeansOwner' /\ Covered' /\ Renewed'
  BY <1>1 DEF IInv, TypeOK, Acquire, RenewedMeansOwner, Covered, Renewed
<1> QED BY <1>2, <1>3 DEF IInv

\* A set whose answer is lost leaves a token that belongs to nobody.
LEMMA AcquireFailsKeepsIInv ==
  ASSUME IInv, NEW p \in Processes, AcquireFails(p)
  PROVE  IInv'
<1> USE LeaseAssumption DEF LeaseAssumption
<1>1. renewing = {}
  BY DEF IInv, TypeOK, RenewedMeansOwner, AcquireFails, Vacant
<1>2. TypeOK' /\ spent'.errors # 0
  BY ErrorCounts DEF IInv, TypeOK, AcquireFails
<1>3. RenewedMeansOwner' /\ Covered' /\ Renewed'
  BY <1>1, <1>2 DEF AcquireFails, RenewedMeansOwner, Covered, Renewed
<1> QED BY <1>2, <1>3 DEF IInv

\* A thread that runs finds its own key and extends it: it is the only one.
LEMMA RenewKeepsIInv ==
  ASSUME IInv, NEW p \in Processes, Renew(p)
  PROVE  IInv'
<1> USE LeaseAssumption DEF LeaseAssumption
<1>1. owner = p /\ renewing = {p}
  BY DEF IInv, RenewedMeansOwner, Renew
<1>2. TypeOK'
  BY <1>1 DEF IInv, TypeOK, Renew, Extended
<1>3. RenewedMeansOwner' /\ Covered' /\ Renewed'
  BY <1>1 DEF IInv, TypeOK, Renew, Extended, RenewedMeansOwner, Covered, Renewed
<1> QED BY <1>2, <1>3 DEF IInv

\* A failed renewal ends the thread, which asks nothing of the key any more.
LEMMA RenewFailsKeepsIInv ==
  ASSUME IInv, NEW p \in Processes, RenewFails(p)
  PROVE  IInv'
<1> USE LeaseAssumption DEF LeaseAssumption
<1>1. renewing' = {} /\ owner = p
  BY DEF IInv, RenewedMeansOwner, RenewFails
<1>2. TypeOK' /\ spent'.errors # 0
  BY <1>1, ErrorCounts DEF IInv, TypeOK, RenewFails
<1>3. RenewedMeansOwner' /\ Covered' /\ Renewed'
  BY <1>1, <1>2 DEF RenewedMeansOwner, Covered, Renewed
<1> QED BY <1>2, <1>3 DEF IInv

\* Whoever leaves takes its own token away at most, so that the key of any
\* other process, and its time, stay as they are.
LEMMA LeavingKeepsIInv ==
  ASSUME IInv, NEW p \in Processes, Leave(p), waited' = waited,
         owner' \in IF owner = p THEN {"free", "orphan"} ELSE {owner},
         ttl' = IF owner' = "free" THEN 0 ELSE ttl,
         spent' \in [errors : 0..MaxErrors, crashes : 0..MaxCrashes],
         spent'.errors = 0 => spent.errors = 0
  PROVE  IInv'
<1> USE LeaseAssumption DEF LeaseAssumption
<1>1. TypeOK'
  BY DEF IInv, TypeOK, Leave
<1>2. \A q \in renewing' : q \in renewing /\ q # p /\ owner = q
  BY DEF IInv, RenewedMeansOwner, Leave
<1>3. RenewedMeansOwner'
  BY <1>2 DEF RenewedMeansOwner
<1>4. Covered'
  BY <1>2 DEF IInv, TypeOK, Covered
<1>5. Renewed'
  BY DEF IInv, Renewed, Leave
<1> QED BY <1>1, <1>3, <1>4, <1>5 DEF IInv

\* Time takes from the key what it adds to the wait of its owner.
LEMMA TickKeepsIInv ==
  ASSUME IInv, Tick
  PROVE  IInv'
<1> USE LeaseAssumption DEF LeaseAssumption
<1>1. \A q \in renewing : /\ waited[q] \in Nat /\ waited'[q] = waited[q] + 1
                          /\ waited[q] < Interval + Delay /\ owner = q /\ owner # "free"
                          /\ ttl + waited[q] >= TTL
  BY DEF IInv, TypeOK, RenewedMeansOwner, Covered, Tick
<1>2. TypeOK'
  <2>1. waited' \in [Processes -> 0..(Interval + Delay)]
    BY DEF IInv, TypeOK, Tick
  <2>2. ttl' \in 0..TTL /\ (owner' = "free" <=> ttl' = 0)
    BY DEF IInv, TypeOK, Tick, Left
  <2>3. owner' \in Processes \cup {"free", "orphan"}
    BY DEF IInv, TypeOK, Tick
  <2> QED BY <2>1, <2>2, <2>3 DEF IInv, TypeOK, Tick
<1>3. \A q \in renewing : owner' = q /\ ttl' = ttl - 1
  <2> SUFFICES ASSUME NEW q \in renewing
               PROVE  owner' = q /\ ttl' = ttl - 1
    OBVIOUS
  <2>1. ttl \in Nat /\ ttl - 1 # 0
    <3>1. ttl \in Nat
      BY DEF IInv, TypeOK
    <3> QED BY <1>1, <3>1
  <2>2. /\ owner # "free" => ttl' = ttl - 1
        /\ owner # "free" /\ ttl - 1 # 0 => owner' = owner
    BY DEF Tick, Left
  <2> QED BY <1>1, <2>1, <2>2
<1>4. RenewedMeansOwner' /\ Covered'
  BY <1>1, <1>3 DEF IInv, TypeOK, Tick, RenewedMeansOwner, Covered
<1>5. Renewed'
  BY DEF IInv, Tick, Renewed
<1> QED BY <1>2, <1>4, <1>5 DEF IInv

\* The strengthened invariant holds.
THEOREM IInvHolds == Spec => []IInv
<1>1. ASSUME IInv, [Next]_vars PROVE IInv'
  <2>1. ASSUME NEW p \in Processes, Exit(p) PROVE IInv'
    BY <1>1, <2>1, LeavingKeepsIInv DEF Exit, Released, IInv, TypeOK
  <2>2. ASSUME NEW p \in Processes, ExitFails(p) PROVE IInv'
    <3>1. /\ spent' \in [errors : 0..MaxErrors, crashes : 0..MaxCrashes]
          /\ spent'.errors # 0
      BY <1>1, <2>2, ErrorCounts DEF ExitFails, IInv
    <3> QED BY <1>1, <2>2, <3>1, LeavingKeepsIInv DEF ExitFails, IInv, TypeOK
  <2>3. ASSUME NEW p \in Processes, Crash(p) PROVE IInv'
    <3>1. /\ spent' \in [errors : 0..MaxErrors, crashes : 0..MaxCrashes]
          /\ spent'.errors = spent.errors
      BY <1>1, <2>3, LeaseAssumption DEF Crash, IInv, TypeOK, LeaseAssumption
    <3> QED BY <1>1, <2>3, <3>1, LeavingKeepsIInv DEF Crash, IInv, TypeOK
  <2>4. CASE UNCHANGED vars
    BY <1>1, <2>4
    DEF vars, IInv, TypeOK, RenewedMeansOwner, Covered, Renewed
  <2> QED BY <1>1, <2>1, <2>2, <2>3, <2>4, AcquireKeepsIInv, AcquireFailsKeepsIInv,
             RenewKeepsIInv, RenewFailsKeepsIInv, TickKeepsIInv DEF Next
<1> QED BY InitIInv, <1>1, PTL DEF Spec

\* Owner, time to live, threads and waits keep their types, and a key is free
\* exactly when it has no time left.
THEOREM LeaseTypes == Spec => []TypeOK
<1>1. IInv => TypeOK
  BY DEF IInv
<1> QED BY IInvHolds, <1>1, PTL

\* A process whose renewal thread runs owns the key, for any number of
\* processes, any failures, and any timing in which a late thread is in time.
THEOREM RenewalKeepsOwnership == Spec => []RenewedMeansOwner
<1>1. IInv => RenewedMeansOwner
  BY DEF IInv
<1> QED BY IInvHolds, <1>1, PTL

\* While every Redis call succeeds the lock is a mutual exclusion.
THEOREM ExclusionWhileRedisAnswers == Spec => []ExclusiveWhileRedisAnswers
<1>1. IInv => ExclusiveWhileRedisAnswers
  BY DEF IInv, Renewed, RenewedMeansOwner, ExclusiveWhileRedisAnswers
<1> QED BY IInvHolds, <1>1, PTL

-----------------------------------------------------------------------------
(* The lease implements the lock *)

\* Only a free key is acquired, and then nobody renews; without errors nobody
\* is inside either.
LEMMA AcquireEnters ==
  ASSUME IInv, NEW p \in Processes, Acquire(p)
  PROVE  Lock!Enter(p)
<1>1. renewing = {}
  BY LeaseAssumption DEF IInv, TypeOK, RenewedMeansOwner, Acquire, Vacant, LeaseAssumption
<1>2. spent.errors = 0 => inside = {}
  BY <1>1 DEF IInv, Renewed
<1> QED BY <1>1, <1>2 DEF Acquire, Lock!Enter

\* A call that fails ends at most the thread that made it.
LEMMA FailuresFail ==
  ASSUME IInv, NEW p \in Processes, AcquireFails(p) \/ RenewFails(p)
  PROVE  Lock!Fail(p)
<1>1. spent'.errors # 0
  BY ErrorCounts DEF IInv, AcquireFails, RenewFails
<1>2. CASE AcquireFails(p)
  <2>1. renewing = {}
    BY <1>2, LeaseAssumption
    DEF IInv, TypeOK, RenewedMeansOwner, AcquireFails, Vacant, LeaseAssumption
  <2> QED BY <1>1, <1>2, <2>1 DEF AcquireFails, Lock!Fail
<1>3. CASE RenewFails(p)
  BY <1>1, <1>3 DEF RenewFails, Lock!Fail
<1> QED BY <1>2, <1>3

\* However a process leaves, the others keep what they have.
LEMMA LeavingLeaves ==
  ASSUME IInv, NEW p \in Processes, Exit(p) \/ ExitFails(p) \/ Crash(p)
  PROVE  Lock!Leave(p)
<1>1. (spent'.errors = 0) \in {spent.errors = 0, FALSE}
  <2>1. CASE Exit(p)
    BY <2>1 DEF Exit
  <2>2. CASE ExitFails(p)
    BY <2>2, ErrorCounts DEF ExitFails, IInv
  <2>3. CASE Crash(p)
    BY <2>3 DEF Crash, IInv, TypeOK
  <2> QED BY <2>1, <2>2, <2>3
<1> QED BY <1>1 DEF Exit, ExitFails, Crash, Leave, Lock!Leave

\* A thread that wakes up finds its own key, so a renewal is no step of the
\* lock, and neither is the time that passes, even when the key expires.
LEMMA QuietSteps ==
  ASSUME IInv, Tick \/ \E p \in Processes : Renew(p)
  PROVE  UNCHANGED Lock!scope
<1>1. CASE Tick
  BY <1>1 DEF Tick, Lock!scope
<1>2. ASSUME NEW p \in Processes, Renew(p) PROVE UNCHANGED Lock!scope
  BY <1>2 DEF IInv, RenewedMeansOwner, Renew, Lock!scope
<1> QED BY <1>1, <1>2

\* The lease with its tokens, its clock and its threads is a lock as the scopes
\* expect it, for all processes, all timings, and whatever fails.
THEOREM ImplementsLock == Spec => LockSpec
<1>1. Init => Lock!Init
  BY DEF Init, Lock!Init
<1>2. IInv /\ [Next]_vars => [Lock!Next]_(Lock!scope)
  <2> SUFFICES ASSUME IInv, [Next]_vars
               PROVE  Lock!Next \/ UNCHANGED Lock!scope
    OBVIOUS
  <2>1. CASE UNCHANGED vars
    BY <2>1 DEF vars, Lock!scope
  <2>2. CASE Next
    BY <2>2, AcquireEnters, FailuresFail, LeavingLeaves, QuietSteps DEF Next, Lock!Next
  <2> QED BY <2>1, <2>2
<1> QED BY IInvHolds, <1>1, <1>2, PTL DEF Spec, LockSpec, Lock!Spec
=============================================================================
