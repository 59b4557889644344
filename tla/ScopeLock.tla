------------------------------ MODULE ScopeLock ------------------------------
(***************************************************************************)
(* What a lock around a scope promises its callers: nobody enters beside a *)
(* process that is still protected, while the lock service answers nobody  *)
(* enters beside anyone, and a process inside keeps its protection as long *)
(* as it stays and the service answers.  Whoever has lost it may stay, and *)
(* does no harm to the protection of others when it leaves.                *)
(***************************************************************************)
CONSTANT Processes
VARIABLES
  inside,     \* the processes inside the scope
  protected,  \* those beside whom nobody is let in
  answering   \* no call to the lock service has failed so far

scope == <<inside, protected, answering>>

Init == inside = {} /\ protected = {} /\ answering = TRUE

Enter(p) ==
  /\ p \notin inside /\ protected = {}
  /\ answering => inside = {}
  /\ inside' = inside \cup {p} /\ protected' = {p}
  /\ UNCHANGED answering

\* The end of the scope or of the process; the last call may fail.
Leave(p) ==
  /\ p \in inside
  /\ inside' = inside \ {p} /\ protected' = protected \ {p}
  /\ answering' \in {answering, FALSE}

\* A failed call costs the caller its protection, or it was outside anyway.
Fail(p) ==
  /\ answering' = FALSE
  /\ protected' = protected \ {p}
  /\ UNCHANGED inside

Next == \E p \in Processes : Enter(p) \/ Leave(p) \/ Fail(p)

Spec == Init /\ [][Next]_scope
=============================================================================
