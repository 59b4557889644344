-------------------------- MODULE EnforcementBudget --------------------------
(***************************************************************************)
(* What state enforcement promises about retries, whatever else happens to *)
(* the nodes: each node has a budget of MaxRetries attempts; it is given   *)
(* up on only when the budget is used up, or when a reset came too late to *)
(* be seen; the counter goes back only by a reset, and the mark goes away  *)
(* only with the counter, by an attempt on a fresh budget, or by a reset   *)
(* that saw a mark on a fresh budget and is late itself.                   *)
(***************************************************************************)
EXTENDS Naturals

CONSTANTS Nodes, MaxRetries
VARIABLES
  attempts, failed,
  unmarking   \* nodes a reset under way takes the mark from, and not the counter

budget == <<attempts, failed, unmarking>>

Init ==
  /\ attempts = [n \in Nodes |-> 0]
  /\ failed = [n \in Nodes |-> FALSE]
  /\ unmarking = {}

\* An attempt on the nodes of S.  The counter grows by more than one when the
\* attempt overwrites a reset it has not seen.
Attempt(S) ==
  /\ \A n \in S : /\ attempts'[n] \in (attempts[n] + 1)..MaxRetries
                  /\ failed[n] => attempts'[n] = 1
  /\ attempts' = [n \in Nodes |-> IF n \in S THEN attempts'[n] ELSE attempts[n]]
  /\ failed' = [n \in Nodes |-> n \notin S /\ failed[n]]

GiveUp(S) ==
  /\ \A n \in S : attempts[n] \in {0, MaxRetries}
  /\ failed' = [n \in Nodes |-> n \in S \/ failed[n]]
  /\ UNCHANGED attempts

\* The counters of S are reset, and of these or of late resets the marks of T.
Reset(S, T) ==
  /\ attempts' = [n \in Nodes |-> IF n \in S THEN 0 ELSE attempts[n]]
  /\ failed' = [n \in Nodes |-> n \notin T /\ failed[n]]

\* Only a mark on a fresh budget is seen without a counter to reset.
SeesFresh == \A n \in unmarking' \ unmarking : failed'[n] /\ attempts'[n] = 0

Next ==
  /\ SeesFresh
  /\ \E S \in SUBSET Nodes :
       Attempt(S) \/ GiveUp(S) \/ \E T \in SUBSET (S \cup unmarking) : Reset(S, T)

Spec == Init /\ [][Next]_budget
=============================================================================
