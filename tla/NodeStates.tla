----------------------------- MODULE NodeStates -----------------------------
(***************************************************************************)
(* The state tables of api/app/services/state_machine.py as pure           *)
(* operators: which states a node and a lab may have, which transition a   *)
(* lifecycle job announces, what enforcement does about a mismatch, which  *)
(* commands a node accepts, and how a lab's state follows from its nodes'. *)
(***************************************************************************)

NodeActualState == {"undeployed", "pending", "starting", "running",
                    "stopping", "stopped", "exited", "error"}
NodeDesiredState == {"running", "stopped"}
LabState == {"stopped", "starting", "running", "stopping", "error", "unknown"}

\* NodeStateMachine.VALID_TRANSITIONS: the documented edges between states.
ValidTransitions ==
  [undeployed |-> {"pending", "error"},
   pending    |-> {"starting", "running", "undeployed", "error"},
   starting   |-> {"running", "stopped", "error"},
   running    |-> {"stopping", "stopped", "error"},
   stopping   |-> {"stopped", "error"},
   stopped    |-> {"starting", "pending", "undeployed", "error"},
   exited     |-> {"starting", "pending", "stopped", "error"},
   error      |-> {"pending", "starting", "stopped", "undeployed"}]

CanTransition(current, target) ==
  \/ current = target
  \/ target \in ValidTransitions[current]

StoppedEquivalentStates == {"stopped", "exited", "undeployed", "pending"}

\* The state a job announces before it acts; a node with no transition toward
\* its desired state keeps the state it has (None in the code).
TransitionForDesired(current, desired) ==
  IF desired = "running"
  THEN CASE current = "undeployed" -> "pending"
         [] current \in StoppedEquivalentStates \ {"undeployed"} -> "starting"
         [] current = "error" -> "pending"
         [] OTHER -> current
  ELSE CASE current = "running" -> "stopping"
         [] current = "pending" -> "undeployed"
         [] OTHER -> current

MatchesDesired(actual, desired) ==
  IF desired = "running" THEN actual = "running"
                         ELSE actual \in StoppedEquivalentStates

NeedsEnforcement(actual, desired) ==
  /\ ~MatchesDesired(actual, desired)
  /\ actual \notin {"pending", "starting", "stopping"}

\* Mutant: enforcement only ever starts nodes.
EnforcementStartOnly(actual, desired) ==
  IF desired = "running" /\ actual \in StoppedEquivalentStates \cup {"error"}
  THEN "start" ELSE "none"

\* "start", "stop", or "none" when enforcement has nothing it can do.
EnforcementAction(actual, desired) ==
  CASE ~NeedsEnforcement(actual, desired) -> "none"
    [] desired = "running" /\ actual \in StoppedEquivalentStates \cup {"error"} -> "start"
    [] desired = "stopped" /\ actual = "running" -> "stop"
    [] OTHER -> "none"

\* A single-node command is refused only for a start while stopping.
CanAcceptCommand(actual, wanted) == ~(wanted = "running" /\ actual = "stopping")

BulkClass(actual, desired, wanted) ==
  CASE /\ actual \in {"starting", "stopping", "pending"}
       /\ ~(wanted = "stopped" /\ actual = "starting") -> "skip"
    [] wanted = "running" /\ actual = "running" /\ desired = "running" -> "already"
    [] wanted = "stopped" /\ actual \in {"stopped", "undeployed"}
                          /\ desired = "stopped" -> "already"
    [] wanted = "running" /\ actual = "error" /\ desired = "running" -> "reset"
    [] OTHER -> "proceed"

NeedsSync(actual, wanted) ==
  IF wanted = "running" THEN actual \notin {"running", "pending", "starting"}
                        ELSE actual \notin {"stopped", "undeployed", "stopping"}

\* compute_lab_state reads only which of its counts are positive, so the
\* counts are the set of node states that occur.
ComputeLabState(occurring) ==
  CASE "error" \in occurring                        -> "error"
    [] "stopping" \in occurring                     -> "stopping"
    [] occurring \cap {"starting", "pending"} # {}  -> "starting"
    [] "running" \in occurring                      -> "running"
    [] OTHER                                        -> "stopped"
=============================================================================
