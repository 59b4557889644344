--------------------------- MODULE NodeLifecycle ---------------------------
(***************************************************************************)
(* The control loop that keeps the nodes of one lab in the state the user  *)
(* asked for: the desired-state endpoints, the per-job node lifecycle      *)
(* manager, the enforcement monitor, the reconciliation loop, the          *)
(* stuck-node and stuck-job checks, and one agent with its containers and  *)
(* event stream.  The controller is two processes over one database: the   *)
(* API runs user commands, events and the jobs users create, the scheduler *)
(* runs the monitors and the jobs they create.  An action is what runs     *)
(* between two awaits, on freshly read rows unless a field of job, recon   *)
(* or enf says what was read earlier; its transaction is atomic.           *)
(***************************************************************************)
EXTENDS NodeStates, Naturals, Sequences, FiniteSets

CONSTANTS
  Nodes,           \* the nodes of the lab
  Slots,           \* jobs that can exist at once (bound)
  MaxRetries,      \* settings.state_enforcement_max_retries
  DeployAttempts,  \* DEPLOY_RETRY_ATTEMPTS
  MaxJobRetries,   \* settings.job_max_retries
  EventQueue,      \* node events in flight (bound; 0: the agent sends none)
  MaxUser,         \* user commands (bound)
  MaxFaults,       \* calls and checks of a job that fail (bound)
  MaxOutages,      \* container crashes, agent outages, failed queries (bound)
  MaxTimeouts,     \* jobs taken for stuck while their task runs (bound)
  MaxRestarts,     \* restarts of the API or the scheduler (bound)
  MaxDisruptions   \* outages and restarts together (bound)

ASSUME ConstantsAssumption ==
  /\ Nodes # {} /\ IsFiniteSet(Nodes) /\ Slots # {}
  /\ MaxRetries \in Nat \ {0} /\ DeployAttempts \in Nat \ {0}
  /\ {MaxJobRetries, EventQueue, MaxUser, MaxFaults, MaxOutages, MaxTimeouts, MaxRestarts,
      MaxDisruptions}
       \subseteq Nat

VARIABLES
  desired, actual,   \* NodeState.desired_state, actual_state
  stopTs, startTs,   \* stopping_started_at, starting_started_at: unset, fresh or past the threshold
  attempts, failed,  \* enforcement_attempts, enforcement_failed_at
  cooling,           \* the backoff or the Redis cooldown key has not expired
  lab,               \* Lab.state
  job,               \* the jobs and their running tasks
  cont,              \* the agent's containers
  online,            \* the agent answers and its heartbeat is recent
  events,            \* node events the agent has sent and the controller not handled
  recon,             \* the reconciliation loop
  enf,               \* the enforcement monitor
  spent              \* how much of each bound is used

nodeVars  == <<desired, actual, stopTs, startTs, attempts, failed, cooling>>
agentVars == <<cont, online, events>>
loopVars  == <<recon, enf>>
vars == <<nodeVars, lab, job, agentVars, loopVars, spent>>

Timestamp == {"none", "fresh", "stale"}
Container == {"absent", "created", "running", "exited"}
EventKind == {"creating", "started", "died", "killed", "destroying"}
JobPc  == {"none", "load", "gates", "place", "sort", "phases", "settle", "deployed", "placed", "close"}
Columns == {"actual", "stop", "start", "count", "mark"}
Phases == {"deploy", "start", "stop"}
Call   == {"idle", "create", "created", "createError", "createLost",
           "stop", "stopped", "stopError", "stopLost"}

\* One job: its status, where its task is ("none": no task runs it), the node
\* ids its action names and those the task works on, the phase each node is
\* sorted into, the agent call each node waits for, and the columns of each
\* row that are changed in the task's session and not in the database yet.
Job == [st : {"none", "queued", "running", "over"}, pc : JobPc,
        kind : {"node", "lab", "batch"}, ids : SUBSET Nodes, nodes : SUBSET Nodes,
        retry : 0..MaxJobRetries, todo : [Nodes -> Phases \cup {"none"}],
        call : [Nodes -> Call], tries : [Nodes -> 0..DeployAttempts],
        dirty : [Nodes -> SUBSET Columns]]

FreeJob == [st |-> "none", pc |-> "none", kind |-> "node", ids |-> {}, nodes |-> {},
            retry |-> 0, todo |-> [n \in Nodes |-> "none"],
            call |-> [n \in Nodes |-> "idle"], tries |-> [n \in Nodes |-> 0],
            dirty |-> [n \in Nodes |-> {}]]

NewJob(kind, ids, nodes, retry) ==
  [FreeJob EXCEPT !.st = "queued", !.pc = "load", !.kind = kind, !.ids = ids,
                  !.nodes = nodes, !.retry = retry]

IdleRecon == [pc |-> "idle", snap |-> [n \in Nodes |-> "unknown"], active |-> FALSE,
              todo |-> {}, kinds |-> {}]
Unread    == [verdict |-> "none", attempts |-> 0]
IdleEnf   == [pc |-> "idle", todo |-> {}, nodes |-> {}, busy |-> {}, wide |-> FALSE,
              seen |-> [n \in Nodes |-> Unread]]

\* A lab at rest, whatever was last wanted of its nodes.
Init ==
  /\ desired \in [Nodes -> NodeDesiredState] /\ actual = [n \in Nodes |-> "undeployed"]
  /\ stopTs = [n \in Nodes |-> "none"] /\ startTs = [n \in Nodes |-> "none"]
  /\ attempts = [n \in Nodes |-> 0] /\ failed = [n \in Nodes |-> FALSE]
  /\ cooling = [n \in Nodes |-> FALSE]
  /\ lab = "stopped" /\ job = [j \in Slots |-> FreeJob]
  /\ cont = [n \in Nodes |-> "absent"] /\ online = TRUE /\ events = [n \in Nodes |-> <<>>]
  /\ recon = IdleRecon /\ enf = IdleEnf
  /\ spent = [user |-> 0, fault |-> 0, outage |-> 0, timeout |-> 0, restart |-> 0]

-----------------------------------------------------------------------------
(* Shared vocabulary *)

Active(j)    == job[j].st \in {"queued", "running"}
AnyActive    == \E j \in Slots : Active(j)
Fault        == spent.fault < MaxFaults /\ spent' = [spent EXCEPT !.fault = @ + 1]
Disruption   == spent.outage + spent.restart < MaxDisruptions
Outage       == /\ Disruption /\ spent.outage < MaxOutages
                /\ spent' = [spent EXCEPT !.outage = @ + 1]
UserCommand  == spent.user < MaxUser /\ spent' = [spent EXCEPT !.user = @ + 1]

\* f with the value v at every member of S.
Put(f, S, v) == [n \in Nodes |-> IF n \in S THEN v ELSE f[n]]

\* Start a job in a free slot; with nothing to do no job is made.
Spawn(kind, ids) ==
  IF ids = {} THEN job' = job
  ELSE \E j \in Slots : /\ job[j].st = "none"
                        /\ job' = [job EXCEPT ![j] = NewJob(kind, ids, ids, 0)]

\* An agent event is posted once and lost if the controller cannot take it.
Emit(n, kinds) ==
  events' = IF Len(events[n]) + Len(kinds) <= EventQueue
            THEN [events EXCEPT ![n] = @ \o kinds] ELSE events

LabStateOf(act) ==
  ComputeLabState({IF act[n] = "exited" THEN "stopped" ELSE act[n] : n \in Nodes})

-----------------------------------------------------------------------------
(* User commands *)

\* _converge_stopped_error_state, for the nodes S that are to be stopped.
Converge(S) ==
  LET C == {n \in S : actual[n] \in {"error", "stopped", "undeployed"}}
  IN /\ actual'   = Put(actual, {n \in C : actual[n] = "error"}, "stopped")
     /\ stopTs'   = Put(stopTs, C, "none")
     /\ startTs'  = Put(startTs, C, "none")
     /\ attempts' = Put(attempts, C, 0)
     /\ failed'   = Put(failed, C, FALSE)

\* Mutant: the mark is cleared and the counter forgotten.
ResetMarkOnly(S) == failed' = Put(failed, S, FALSE) /\ UNCHANGED attempts

ResetEnforcement(S) == /\ attempts' = Put(attempts, S, 0)
                       /\ failed'   = Put(failed, S, FALSE)

StartNode(n) ==
  /\ UserCommand
  /\ CanAcceptCommand(actual[n], "running")
  /\ \/ /\ desired[n] = "stopped"
        /\ desired' = [desired EXCEPT ![n] = "running"]
        /\ Spawn("node", IF NeedsSync(actual[n], "running") THEN {n} ELSE {})
        /\ UNCHANGED <<attempts, failed>>
     \/ /\ desired[n] = "running" /\ actual[n] = "error"
        /\ ResetEnforcement({n})
        /\ Spawn("node", {n})
        /\ UNCHANGED desired
  /\ UNCHANGED <<actual, stopTs, startTs, cooling, lab, agentVars, loopVars>>

StopNode(n) ==
  /\ UserCommand
  /\ desired' = [desired EXCEPT ![n] = "stopped"]
  /\ Converge({n})
  /\ Spawn("node", IF desired[n] = "running" /\ NeedsSync(actual'[n], "stopped")
                   THEN {n} ELSE {})
  /\ UNCHANGED <<cooling, lab, agentVars, loopVars>>

\* A bulk start leaves alone a deployed node the user stopped by hand.
StartAll ==
  LET Affected == {n \in Nodes :
        /\ BulkClass(actual[n], desired[n], "running") \in {"reset", "proceed"}
        /\ desired[n] = "stopped" => actual[n] = "undeployed"}
  IN /\ UserCommand
     /\ desired' = Put(desired, Affected, "running")
     /\ ResetEnforcement({n \in Affected : actual[n] = "error"})
     /\ Spawn("lab", {n \in Affected : NeedsSync(actual[n], "running")})
     /\ UNCHANGED <<actual, stopTs, startTs, cooling, lab, agentVars, loopVars>>

StopAll ==
  LET Affected == {n \in Nodes : BulkClass(actual[n], desired[n], "stopped") = "proceed"}
  IN /\ UserCommand
     /\ desired' = Put(desired, Affected, "stopped")
     /\ Converge(Affected)
     /\ Spawn("lab", {n \in Affected : NeedsSync(actual'[n], "stopped")})
     /\ UNCHANGED <<cooling, lab, agentVars, loopVars>>

\* Whoever lists the nodes' states clears what is left of nodes that are to be
\* stopped: a read that writes, under running jobs or not.
ListNodeStates ==
  /\ Converge({n \in Nodes : desired[n] = "stopped"})
  /\ UNCHANGED <<desired, cooling, lab, job, agentVars, loopVars, spent>>

-----------------------------------------------------------------------------
(* The node lifecycle manager: run_node_reconcile, one task per job *)

At(j, pc) == job[j].pc = pc
Step(j, pc) == job' = [job EXCEPT ![j].pc = pc]
Finish(j)   == job' = [job EXCEPT ![j] = FreeJob]

NeedsAction(n) == IF desired[n] = "running" THEN actual[n] # "running"
                  ELSE actual[n] \notin {"stopped", "undeployed", "exited"}

LoadAndValidate(j) ==
  /\ At(j, "load")
  /\ IF \E n \in job[j].nodes : NeedsAction(n) THEN Step(j, "gates") ELSE Finish(j)
  /\ UNCHANGED <<nodeVars, lab, agentVars, loopVars, spent>>

\* A preflight gate blocks nodes that are to run: the job is over at once.
FailPreflight(j) ==
  /\ At(j, "gates") /\ Fault
  /\ \E B \in SUBSET {n \in job[j].nodes : desired[n] = "running" /\ actual[n] # "running"} :
       /\ B # {}
       /\ actual' = Put(actual, B, "error")
  /\ Finish(j)
  /\ UNCHANGED <<desired, stopTs, startTs, attempts, failed, cooling, lab, agentVars, loopVars>>

SetTransitionalStates(j) ==
  LET next(n) == TransitionForDesired(actual[n], desired[n])
      Moved == {n \in job[j].nodes : next(n) # actual[n]}
  IN /\ At(j, "gates")
     /\ actual'  = [n \in Nodes |-> IF n \in Moved THEN next(n) ELSE actual[n]]
     /\ stopTs'  = Put(stopTs, {n \in Moved : next(n) = "stopping"}, "fresh")
     /\ startTs' = Put(startTs, {n \in Moved : next(n) = "starting"}, "fresh")
     /\ Step(j, "place")
     /\ UNCHANGED <<desired, attempts, failed, cooling, lab, agentVars, loopVars, spent>>

\* The status is set to running whatever it was: a job that was failed or
\* cancelled while it waited here becomes active again.
ResolveAgents(j) ==
  /\ At(j, "place")
  /\ IF online THEN /\ job' = [job EXCEPT ![j].pc = "sort", ![j].st = "running"]
                    /\ UNCHANGED actual
               ELSE /\ actual' = Put(actual, job[j].nodes, "error")
                    /\ Finish(j)
  /\ UNCHANGED <<desired, stopTs, startTs, attempts, failed, cooling, lab, agentVars, loopVars, spent>>

\* The resource safety net finds the agent far too small for the deploys.
FailResources(j) ==
  LET Candidates == {n \in job[j].nodes : desired[n] = "running"
                                          /\ actual[n] \in {"undeployed", "pending"}}
  IN /\ At(j, "sort") /\ Fault /\ Candidates # {}
     /\ actual' = Put(actual, Candidates, "error")
     /\ Finish(j)
     /\ UNCHANGED <<desired, stopTs, startTs, attempts, failed, cooling, lab, agentVars, loopVars>>

PhaseOf(n) ==
  CASE desired[n] = "running" /\ actual[n] \in {"undeployed", "pending"} -> "deploy"
    [] desired[n] = "running" /\ actual[n] \in {"stopped", "error", "starting"} -> "start"
    [] desired[n] = "stopped" /\ actual[n] \in {"running", "stopping", "starting"} -> "stop"
    [] OTHER -> "none"

CategorizeNodes(j) ==
  /\ At(j, "sort")
  /\ job' = [job EXCEPT ![j].pc = "phases",
                        ![j].todo = [n \in Nodes |-> IF n \in job[j].nodes THEN PhaseOf(n)
                                                                          ELSE "none"]]
  /\ UNCHANGED <<nodeVars, lab, agentVars, loopVars, spent>>

Waiting(j) == {n \in Nodes : job[j].call[n] # "idle"}
Sorted(j, phase) == {n \in Nodes : job[j].todo[n] = phase}

\* Deploy, start and stop follow each other; each phase re-reads the desired
\* states and sends one call per node that still wants it.
BeginPhase(j, phase) ==
  LET wanted == IF phase = "stop" THEN "stopped" ELSE "running"
      Kept == {n \in Sorted(j, phase) : desired[n] = wanted}
  IN /\ At(j, "phases") /\ Waiting(j) = {} /\ Sorted(j, phase) # {}
     /\ phase # "deploy" => Sorted(j, "deploy") = {}
     /\ phase = "stop" => Sorted(j, "start") = {}
     /\ job' = [job EXCEPT ![j].todo = Put(@, Sorted(j, phase), "none"),
                           ![j].tries = Put(@, Kept, 0),
                           ![j].call = Put(@, Kept, IF phase = "stop" THEN "stop" ELSE "create")]
     /\ UNCHANGED <<nodeVars, lab, agentVars, loopVars, spent>>

PostOperation(j) ==
  /\ At(j, "phases") /\ Waiting(j) = {}
  /\ \A phase \in Phases : Sorted(j, phase) = {}
  /\ Step(j, "settle")
  /\ UNCHANGED <<nodeVars, lab, agentVars, loopVars, spent>>

Answer(j, n, c) == job' = [job EXCEPT ![j].call[n] = c]

\* The agent creates the container unless it has one, and starts it.
AgentCreates(j, n) ==
  /\ job[j].call[n] = "create" /\ online
  /\ cont' = [cont EXCEPT ![n] = "running"]
  /\ Emit(n, CASE cont[n] = "absent"  -> <<"creating", "started">>
               [] cont[n] = "running" -> <<>>
               [] OTHER               -> <<"started">>)
  /\ Answer(j, n, "created")
  /\ UNCHANGED <<nodeVars, lab, online, loopVars, spent>>

\* Stopping removes the container; one that is absent counts as stopped.
AgentStops(j, n) ==
  /\ job[j].call[n] = "stop" /\ online
  /\ cont' = [cont EXCEPT ![n] = "absent"]
  /\ Emit(n, CASE cont[n] = "running" -> <<"killed", "died", "destroying">>
               [] cont[n] = "absent"  -> <<>>
               [] OTHER               -> <<"destroying">>)
  /\ Answer(j, n, "stopped")
  /\ UNCHANGED <<nodeVars, lab, online, loopVars, spent>>

\* The agent answers with an error and has changed nothing.
AgentRefuses(j, n) ==
  /\ job[j].call[n] \in {"create", "stop"} /\ online /\ Fault
  /\ Answer(j, n, IF job[j].call[n] = "create" THEN "createError" ELSE "stopError")
  /\ UNCHANGED <<nodeVars, lab, agentVars, loopVars>>

\* The container is created and does not start: it stays, never started.
AgentStartFails(j, n) ==
  /\ job[j].call[n] = "create" /\ online /\ Fault
  /\ cont[n] = "absent"
  /\ cont' = [cont EXCEPT ![n] = "created"]
  /\ Emit(n, <<"creating">>)
  /\ Answer(j, n, "createError")
  /\ UNCHANGED <<nodeVars, lab, online, loopVars>>

\* AgentUnavailableError: before or after the agent acted.
CallLost(j, n) ==
  /\ job[j].call[n] \in {"create", "created", "stop", "stopped"}
  /\ IF online THEN Fault ELSE UNCHANGED spent
  /\ Answer(j, n, IF job[j].call[n] \in {"create", "created"} THEN "createLost" ELSE "stopLost")
  /\ UNCHANGED <<nodeVars, lab, agentVars, loopVars>>

\* _deploy_single_node after its calls: the agent is asked whether it has the
\* container, running or not, before the node counts as running.
CreateResult(j, n) ==
  /\ job[j].call[n] \in {"created", "createError"}
  /\ actual' = [actual EXCEPT ![n] = IF job[j].call[n] = "created" /\ cont[n] # "absent"
                                     THEN "running" ELSE "error"]
  /\ Answer(j, n, "idle")
  /\ UNCHANGED <<desired, stopTs, startTs, attempts, failed, cooling, lab, agentVars, loopVars, spent>>

\* A transient failure leaves the node pending; the retry does not look at the
\* desired state again.
CreateUnavailable(j, n) ==
  /\ job[j].call[n] = "createLost"
  /\ actual' = [actual EXCEPT ![n] = "pending"]
  /\ stopTs' = [stopTs EXCEPT ![n] = "none"] /\ startTs' = [startTs EXCEPT ![n] = "none"]
  /\ job' = IF job[j].tries[n] + 1 < DeployAttempts
            THEN [job EXCEPT ![j].call[n] = "create", ![j].tries[n] = @ + 1]
            ELSE [job EXCEPT ![j].call[n] = "idle"]
  /\ UNCHANGED <<desired, attempts, failed, cooling, lab, agentVars, loopVars, spent>>

\* A stop that succeeds keeps stopping_started_at set; one that is lost leaves
\* the node as it is.
StopResult(j, n) ==
  /\ job[j].call[n] \in {"stopped", "stopError", "stopLost"}
  /\ actual' = CASE job[j].call[n] = "stopped"   -> [actual EXCEPT ![n] = "stopped"]
                 [] job[j].call[n] = "stopError" -> [actual EXCEPT ![n] = "error"]
                 [] OTHER -> actual
  /\ stopTs' = IF job[j].call[n] = "stopError" THEN [stopTs EXCEPT ![n] = "none"] ELSE stopTs
  /\ Answer(j, n, "idle")
  /\ UNCHANGED <<desired, startTs, attempts, failed, cooling, lab, agentVars, loopVars, spent>>

\* Mutant: the reset of a job forgets the counter.
ResetColumnsMark(n) == {c \in {"mark"} : failed[n]}

\* What an assignment in memory changes: a column that has the value already
\* is not written.
ResetColumns(n) == {c \in {"count", "mark"} : IF c = "count" THEN attempts[n] # 0 ELSE failed[n]}
ConvergedColumns(n) ==
  ResetColumns(n) \cup {"actual"}
  \cup {c \in {"stop", "start"} : (IF c = "stop" THEN stopTs[n] ELSE startTs[n]) # "none"}

\* A commit writes the changed columns, whatever is in the database by now.
Flush(j) ==
  LET Rows(c) == {n \in Nodes : c \in job[j].dirty[n]}
  IN /\ actual'   = Put(actual, Rows("actual"), "stopped")
     /\ stopTs'   = Put(stopTs, Rows("stop"), "none")
     /\ startTs'  = Put(startTs, Rows("start"), "none")
     /\ attempts' = Put(attempts, Rows("count"), 0)
     /\ failed'   = Put(failed, Rows("mark"), FALSE)

\* Columns changed in memory wait for the next commit of the job.
Moves(j, pc, rows) == job' = [job EXCEPT ![j] = [job[j] EXCEPT !.pc = pc, !.dirty = rows]]

\* The errors are counted.  Without one, and unless the post-operation cleanup
\* failed, nodes that are not in error get their enforcement counters reset.
CountErrors(j, act, dirty) ==
  LET Well == {n \in job[j].nodes : act[n] # "error"}
      Close(rows) == Moves(j, "close", rows)
  IN \/ /\ Well = job[j].nodes /\ UNCHANGED spent
        /\ Close([n \in Nodes |-> dirty[n] \cup (IF n \in Well THEN ResetColumns(n)' ELSE {})])
     \/ Well # job[j].nodes /\ Close(dirty) /\ UNCHANGED spent
     \/ Fault /\ Close(dirty)

\* _finalize up to its first await: stopped-desired errors become stopped in
\* memory, placements are saved if some node runs or should and does not.
Settle(j) ==
  LET N == job[j].nodes
      Converged == {n \in N : desired[n] = "stopped" /\ actual[n] = "error"}
      act == Put(actual, Converged, "stopped")
      dirty == [n \in Nodes |-> IF n \in Converged THEN ConvergedColumns(n) ELSE {}]
      deployed == \E n \in N : act[n] = "running"
      undone == \E n \in N : /\ desired[n] = "running"
                             /\ act[n] \in {"error", "undeployed", "stopped", "exited"}
  IN /\ At(j, "settle") /\ UNCHANGED nodeVars
     /\ IF deployed \/ undone
        THEN /\ Moves(j, IF deployed /\ undone THEN "deployed" ELSE "placed", dirty)
             /\ UNCHANGED spent
        ELSE CountErrors(j, act, dirty)
     /\ UNCHANGED <<lab, agentVars, loopVars>>

\* The agent has been asked for its status, and the commit of the placements
\* writes the rows too: those of deployed nodes first, then those of the others.
PlaceDeployed(j) ==
  /\ At(j, "deployed") /\ Flush(j)
  /\ Moves(j, "placed", FreeJob.dirty)
  /\ UNCHANGED <<desired, cooling, lab, agentVars, loopVars, spent>>

Place(j) ==
  /\ At(j, "placed") /\ Flush(j)
  /\ CountErrors(j, actual', FreeJob.dirty)
  /\ UNCHANGED <<desired, cooling, lab, agentVars, loopVars>>

\* The outcome has been broadcast; the lab state is counted in the database
\* before the rows are written.
Finalize(j) ==
  /\ At(j, "close") /\ Flush(j)
  /\ lab' = LabStateOf(actual)
  /\ Finish(j)
  /\ UNCHANGED <<desired, cooling, agentVars, loopVars, spent>>

-----------------------------------------------------------------------------
(* State enforcement *)

\* Mutant: a batch job that has not started does not count.
LabWideJobRunning == \E j \in Slots : job[j].st = "running" /\ job[j].kind = "batch"

\* Jobs the monitor counts as lab-wide: sync:batch:N.  A bulk command's job is
\* named sync:lab:<ids>, which the test for "sync:lab" does not match.
LabWideJob == \E j \in Slots : Active(j) /\ job[j].kind = "batch"
NodeJob(n) == \E j \in Slots : Active(j) /\ job[j].kind = "node" /\ n \in job[j].ids

Mismatched(n) == desired[n] # actual[n]
EnforceAction(n) == IF desired[n] = "running" /\ actual[n] = "pending" THEN "start"
                    ELSE EnforcementAction(actual[n], desired[n])
\* Mutants: enforcement gives up one attempt early, or late.
ExhaustedEarly(n) == attempts[n] + 1 >= MaxRetries
ExhaustedLate(n)  == attempts[n] > MaxRetries
Exhausted(n) == attempts[n] >= MaxRetries

\* What a node's row calls for: nothing, the mark that ends its retries, or
\* another try.
Row(n) ==
  [attempts |-> attempts[n],
   verdict  |-> CASE EnforceAction(n) = "none"     -> "none"
                  [] Exhausted(n) /\ failed[n]     -> "none"
                  [] Exhausted(n) /\ ~failed[n]    -> "mark"
                  [] OTHER                         -> "try"]

\* enforce_lab_states loads the rows that differ and the lab's active jobs.
EnforceScan ==
  LET Due == {n \in Nodes : Mismatched(n)}
  IN /\ enf.pc = "idle" /\ Due # {} /\ lab \in {"running", "stopped", "error"}
     /\ enf' = [IdleEnf EXCEPT !.pc = "filter", !.todo = Due, !.wide = LabWideJob,
                               !.busy = {n \in Due : NodeJob(n)},
                               !.seen = [n \in Nodes |-> IF n \in Due THEN Row(n) ELSE Unread]]
     /\ UNCHANGED <<nodeVars, lab, job, agentVars, recon, spent>>

\* The scan is over with its last node; under a lab-wide job it has no batch.
Filtered(n, nodes, row) ==
  enf' = IF enf.todo # {n} THEN [enf EXCEPT !.todo = @ \ {n}, !.nodes = nodes, !.seen[n] = row]
         ELSE IF nodes = {} \/ enf.wide THEN IdleEnf
         ELSE [enf EXCEPT !.pc = "batch", !.todo = {}, !.nodes = nodes, !.busy = {},
                          !.seen[n] = row]

\* Mutant: the cooldown is not looked at.
SelectableHot(n) == n \notin enf.busy
Selectable(n) == ~cooling[n] /\ n \notin enf.busy

\* _is_enforceable, one node after the other with awaits in between, on the
\* row the scan loaded.  The commit of another node's mark makes the session
\* read the row again; the mark itself starts the crash cooldown.
EnforceFilter(n) ==
  /\ enf.pc = "filter" /\ n \in enf.todo
  /\ \E row \in {enf.seen[n], Row(n)} :
       \/ /\ row.verdict = "mark"
          /\ failed' = [failed EXCEPT ![n] = TRUE] /\ actual' = [actual EXCEPT ![n] = "error"]
          /\ cooling' = [cooling EXCEPT ![n] = TRUE]
          /\ Filtered(n, enf.nodes, Unread)
       \/ /\ row.verdict = "try" /\ Selectable(n)
          /\ Filtered(n, enf.nodes \cup {n}, row)
          /\ UNCHANGED <<actual, failed, cooling>>
       \/ /\ row.verdict = "none" \/ (row.verdict = "try" /\ ~Selectable(n))
          /\ Filtered(n, enf.nodes, Unread)
          /\ UNCHANGED <<actual, failed, cooling>>
  /\ UNCHANGED <<desired, stopTs, startTs, attempts, lab, job, agentVars, recon, spent>>

\* After the cooldown keys and config extraction were awaited the batch job is
\* made without another look.  The counters are those read by the scan, unless
\* a commit in between made the session read them again.
EnforceCreate ==
  /\ enf.pc = "batch"
  /\ \E base \in {[n \in Nodes |-> enf.seen[n].attempts], attempts} :
       attempts' = [n \in Nodes |-> IF n \in enf.nodes THEN base[n] + 1 ELSE attempts[n]]
  /\ failed'  = Put(failed, enf.nodes, FALSE)
  /\ cooling' = Put(cooling, enf.nodes, TRUE)
  /\ Spawn("batch", enf.nodes)
  /\ enf' = IdleEnf
  /\ UNCHANGED <<desired, actual, stopTs, startTs, lab, agentVars, recon, spent>>

\* Time passes, or a bulk command has the node's cooldown key deleted.
CooldownElapses(n) ==
  /\ cooling[n]
  /\ cooling' = [cooling EXCEPT ![n] = FALSE]
  /\ UNCHANGED <<desired, actual, stopTs, startTs, attempts, failed, lab, job, agentVars, loopVars, spent>>

-----------------------------------------------------------------------------
(* Reconciliation *)

\* The agent's container status is read; what follows uses this snapshot.  An
\* agent that is offline or fails the query says nothing about its nodes.
ReconcileQuery ==
  /\ recon.pc = "idle"
  /\ \/ /\ online /\ UNCHANGED spent
        /\ recon' = [recon EXCEPT !.pc = "query", !.snap = cont]
     \/ /\ IF online THEN Outage ELSE UNCHANGED spent
        /\ recon' = [recon EXCEPT !.pc = "query"]
  /\ UNCHANGED <<nodeVars, lab, job, agentVars, enf>>

\* Mutant: the lab state is not written.
TalliedSilently(n, kinds) ==
  LET left == (IF recon.pc = "query" THEN Nodes ELSE recon.todo) \ {n}
  IN /\ recon' = IF left = {} THEN IdleRecon
                 ELSE [recon EXCEPT !.pc = "apply", !.active = AnyActive, !.todo = left]
     /\ UNCHANGED lab

\* Whether the lab has an active job is read once, when the first node's turn
\* comes; the lab state is written with the last node.
JobSeen == IF recon.pc = "query" THEN AnyActive ELSE recon.active
Pending == IF recon.pc = "query" THEN Nodes ELSE recon.todo

Tallied(n, kinds) ==
  LET all == recon.kinds \cup kinds
  IN IF Pending = {n} THEN recon' = IdleRecon /\ lab' = ComputeLabState(all)
     ELSE /\ recon' = [recon EXCEPT !.pc = "apply", !.active = JobSeen,
                                    !.todo = Pending \ {n}, !.kinds = all,
                                    !.snap[n] = "unknown"]
          /\ UNCHANGED lab

\* Nodes left to someone else: failed ones to enforcement, those with a fresh
\* timestamp or a stopping/starting state under an active job to that job.
\* A timestamp past its threshold is cleared on the way.
ReconcileSkip(n) ==
  LET cleared(ts) == IF ts = "stale" THEN "none" ELSE ts
      stop == cleared(stopTs[n])
      start == cleared(startTs[n])
  IN /\ recon.pc # "idle" /\ n \in Pending
     /\ \/ failed[n] /\ Tallied(n, {"error"}) /\ UNCHANGED <<stopTs, startTs>>
        \/ /\ ~failed[n] /\ stop = "fresh"
           /\ Tallied(n, {"stopped"}) /\ UNCHANGED <<stopTs, startTs>>
        \/ /\ ~failed[n] /\ stop = "none" /\ start = "fresh"
           /\ Tallied(n, {"running"})
           /\ stopTs' = [stopTs EXCEPT ![n] = "none"] /\ UNCHANGED startTs
        \/ /\ ~failed[n] /\ stop = "none" /\ start = "none" /\ JobSeen
           /\ actual[n] \in {"stopping", "starting"}
           /\ Tallied(n, {IF actual[n] = "stopping" THEN "stopped" ELSE "running"})
           /\ stopTs' = [stopTs EXCEPT ![n] = "none"] /\ startTs' = [startTs EXCEPT ![n] = "none"]
     /\ UNCHANGED <<desired, actual, attempts, failed, cooling, job, agentVars, enf, spent>>

\* Every other node takes the state the snapshot shows.  It keeps the one it
\* has when the snapshot shows a container that was never started.
ReconcileApply(n) ==
  /\ recon.pc # "idle" /\ n \in Pending
  /\ ~failed[n] /\ "fresh" \notin {stopTs[n], startTs[n]}
  /\ ~(JobSeen /\ actual[n] \in {"stopping", "starting"})
  /\ stopTs' = [stopTs EXCEPT ![n] = "none"] /\ startTs' = [startTs EXCEPT ![n] = "none"]
  /\ \/ /\ recon.snap[n] = "unknown"
        /\ Tallied(n, {}) /\ UNCHANGED actual
     \/ /\ recon.snap[n] = "created"
        /\ Tallied(n, {"stopped"}) /\ UNCHANGED actual
     \/ /\ recon.snap[n] \notin {"unknown", "created"}
        /\ LET seen == CASE recon.snap[n] = "running" -> "running"
                         [] recon.snap[n] = "exited" -> "stopped"
                         [] OTHER -> "undeployed"
           IN actual' = [actual EXCEPT ![n] = seen] /\ Tallied(n, {seen})
  /\ UNCHANGED <<desired, attempts, failed, cooling, job, agentVars, enf, spent>>

ReconcileNode(n) == ReconcileSkip(n) \/ ReconcileApply(n)

-----------------------------------------------------------------------------
(* Health checks, events, the environment *)

\* check_stuck_stopping_nodes and check_stuck_starting_nodes.
CheckStuckStopping ==
  LET Stuck == {n \in Nodes : actual[n] = "stopping" /\ stopTs[n] = "stale"}
  IN /\ Stuck # {} /\ ~AnyActive
     /\ actual' = Put(actual, Stuck, "stopped") /\ stopTs' = Put(stopTs, Stuck, "none")
     /\ UNCHANGED <<desired, startTs, attempts, failed, cooling, lab, job, agentVars, loopVars, spent>>

CheckStuckStarting ==
  LET Stuck == {n \in Nodes : actual[n] = "starting" /\ startTs[n] = "stale"}
  IN /\ Stuck # {} /\ ~AnyActive
     /\ actual' = Put(actual, Stuck, "stopped") /\ startTs' = Put(startTs, Stuck, "none")
     /\ UNCHANGED <<desired, stopTs, attempts, failed, cooling, lab, job, agentVars, loopVars, spent>>

\* A timestamp passes its threshold.  The threshold is far above the time one
\* reconciliation holds a snapshot, so none does in between.
TimestampAges(n) ==
  /\ recon.pc = "idle"
  /\ \/ /\ stopTs[n] = "fresh" /\ stopTs' = [stopTs EXCEPT ![n] = "stale"] /\ UNCHANGED startTs
     \/ /\ startTs[n] = "fresh" /\ startTs' = [startTs EXCEPT ![n] = "stale"] /\ UNCHANGED stopTs
  /\ UNCHANGED <<desired, actual, attempts, failed, cooling, lab, job, agentVars, loopVars, spent>>

SameAction(a, b) ==
  /\ a.kind = b.kind
  /\ IF a.kind = "batch" THEN Cardinality(a.ids) = Cardinality(b.ids) ELSE a.ids = b.ids

\* Mutant: queued jobs are not watched.
WatchedRunning(j) == job[j].st = "running"

\* A queued job counts as stuck too, after two minutes.
Watched(j) == job[j].st \in {"queued", "running"}
RetriesUsed(j) == job[j].retry >= MaxJobRetries

\* A stuck job is failed, which puts the lab in error, or retried: the retry of
\* anything but a single-node job takes all the lab's nodes.  No retry is made
\* beside a job with the same action, and it fails at once without an agent.
\* The task of a job that is only slow, or that the API runs while a restarted
\* scheduler takes it for stranded, is not stopped.
CheckStuckJob(j) ==
  LET dead == At(j, "none")
      ended == IF dead THEN FreeJob ELSE [job[j] EXCEPT !.st = "over"]
      duplicate == \E k \in Slots \ {j} : Active(k) /\ SameAction(job[k], job[j])
      retried == NewJob(job[j].kind, job[j].ids,
                        IF job[j].kind = "node" THEN job[j].ids ELSE Nodes, job[j].retry + 1)
  IN /\ Watched(j)
     /\ IF dead THEN UNCHANGED spent
        ELSE spent.timeout < MaxTimeouts /\ spent' = [spent EXCEPT !.timeout = @ + 1]
     /\ \/ RetriesUsed(j) /\ job' = [job EXCEPT ![j] = ended] /\ lab' = "error"
        \/ /\ ~RetriesUsed(j) /\ (duplicate \/ ~online)
           /\ job' = [job EXCEPT ![j] = ended] /\ UNCHANGED lab
        \/ /\ ~RetriesUsed(j) /\ ~duplicate /\ online /\ UNCHANGED lab
           /\ \E k \in Slots : /\ IF dead THEN k = j ELSE job[k].st = "none"
                              /\ job' = [job EXCEPT ![j] = ended, ![k] = retried]
     /\ UNCHANGED <<nodeVars, agentVars, loopVars>>

\* Mutant: an event that has no state of its own is written as it is.
EventStateUnmapped(kind, current) ==
  IF kind = "destroying" THEN kind ELSE current

\* receive_node_event: the agent's report is written as it comes.
EventState(kind, current) ==
  CASE kind = "creating" -> "pending"
    [] kind = "started" -> "running"
    [] kind \in {"killed", "destroying"} -> "stopped"
    [] kind = "died" /\ current \in {"stopped", "stopping"} -> "stopped"
    [] OTHER -> "error"

ReceiveNodeEvent(n) ==
  /\ events[n] # <<>>
  /\ LET kind == Head(events[n])
         ignored == kind = "died" /\ actual[n] = "stopped"
         new == EventState(kind, actual[n])
         cleared == IF ~ignored /\ new # "pending" THEN {n} ELSE {}
     IN /\ actual' = [actual EXCEPT ![n] = new]
        /\ stopTs' = Put(stopTs, cleared, "none") /\ startTs' = Put(startTs, cleared, "none")
  /\ events' = [events EXCEPT ![n] = Tail(@)]
  /\ UNCHANGED <<desired, attempts, failed, cooling, lab, job, cont, online, loopVars, spent>>

LoseNodeEvent(n) ==
  /\ events[n] # <<>>
  /\ events' = [events EXCEPT ![n] = Tail(@)]
  /\ UNCHANGED <<nodeVars, lab, job, cont, online, loopVars, spent>>

ContainerCrashes(n) ==
  /\ cont[n] = "running" /\ Outage
  /\ cont' = [cont EXCEPT ![n] = "exited"]
  /\ Emit(n, <<"died">>)
  /\ UNCHANGED <<nodeVars, lab, job, online, loopVars>>

AgentGoesDown ==
  /\ online /\ Outage /\ online' = FALSE
  /\ UNCHANGED <<nodeVars, lab, job, cont, events, loopVars>>

AgentComesBack ==
  /\ ~online /\ online' = TRUE
  /\ UNCHANGED <<nodeVars, lab, job, cont, events, loopVars, spent>>

\* Tasks die with their process; the rows of their jobs stay.
LoseTasks(Lost) ==
  job' = [j \in Slots |->
            IF j \notin Lost THEN job[j]
            ELSE IF Active(j) THEN [FreeJob EXCEPT !.st = job[j].st, !.kind = job[j].kind,
                                      !.ids = job[j].ids, !.nodes = job[j].nodes,
                                      !.retry = job[j].retry]
            ELSE FreeJob]

InScheduler(j) == job[j].kind = "batch" \/ job[j].retry > 0
Restart == /\ Disruption /\ spent.restart < MaxRestarts
           /\ spent' = [spent EXCEPT !.restart = @ + 1]

ApiRestarts ==
  /\ Restart
  /\ LoseTasks({j \in Slots : ~InScheduler(j)})
  /\ UNCHANGED <<nodeVars, lab, agentVars, loopVars>>

SchedulerRestarts ==
  /\ Restart
  /\ LoseTasks({j \in Slots : InScheduler(j)})
  /\ recon' = IdleRecon /\ enf' = IdleEnf
  /\ UNCHANGED <<nodeVars, lab, agentVars>>

-----------------------------------------------------------------------------
User == StartAll \/ StopAll \/ ListNodeStates \/ \E n \in Nodes : StartNode(n) \/ StopNode(n)

JobStep(j) ==
  \/ LoadAndValidate(j) \/ SetTransitionalStates(j) \/ ResolveAgents(j)
  \/ CategorizeNodes(j) \/ PostOperation(j)
  \/ Settle(j) \/ PlaceDeployed(j) \/ Place(j) \/ Finalize(j)
  \/ \E phase \in Phases : BeginPhase(j, phase)
  \/ \E n \in Nodes : CreateResult(j, n) \/ CreateUnavailable(j, n) \/ StopResult(j, n)
JobFailure(j) == FailPreflight(j) \/ FailResources(j)

AgentStep(j, n) == AgentCreates(j, n) \/ AgentStops(j, n) \/ CallLost(j, n)
AgentFailure(j, n) == AgentRefuses(j, n) \/ AgentStartFails(j, n)

EnforceStep == EnforceScan \/ EnforceCreate \/ \E n \in Nodes : EnforceFilter(n)
ReconcileStep == ReconcileQuery \/ \E n \in Nodes : ReconcileNode(n)
CheckStuckNodes == CheckStuckStopping \/ CheckStuckStarting

Environment ==
  \/ AgentGoesDown \/ AgentComesBack \/ ApiRestarts \/ SchedulerRestarts
  \/ \E n \in Nodes : \/ ContainerCrashes(n) \/ LoseNodeEvent(n) \/ ReceiveNodeEvent(n)
                      \/ TimestampAges(n) \/ CooldownElapses(n)

Next ==
  \/ User \/ EnforceStep \/ ReconcileStep \/ CheckStuckNodes \/ Environment
  \/ \E j \in Slots : \/ JobStep(j) \/ JobFailure(j) \/ CheckStuckJob(j)
                      \/ \E n \in Nodes : AgentStep(j, n) \/ AgentFailure(j, n)

\* Coroutines are scheduled, monitors fire periodically, the agent answers or
\* its call times out, time passes, and an agent that is down comes back.
Fairness ==
  /\ WF_vars(EnforceStep) /\ WF_vars(ReconcileStep)
  /\ WF_vars(CheckStuckNodes) /\ WF_vars(AgentComesBack)
  /\ \A j \in Slots : /\ WF_vars(JobStep(j))
                      /\ WF_vars(At(j, "none") /\ CheckStuckJob(j))
                      /\ \A n \in Nodes : WF_vars(AgentStep(j, n))
  /\ \A n \in Nodes : /\ WF_vars(ReceiveNodeEvent(n)) /\ WF_vars(CooldownElapses(n))
                      /\ SF_vars(TimestampAges(n))

Spec == Init /\ [][Next]_vars
FairSpec == Spec /\ Fairness
-----------------------------------------------------------------------------
(* Properties *)

NodesTypeOK ==
  /\ desired \in [Nodes -> NodeDesiredState] /\ actual \in [Nodes -> NodeActualState]
  /\ stopTs \in [Nodes -> Timestamp] /\ startTs \in [Nodes -> Timestamp]
  /\ attempts \in [Nodes -> Nat] /\ failed \in [Nodes -> BOOLEAN]
  /\ cooling \in [Nodes -> BOOLEAN]
AgentTypeOK ==
  /\ cont \in [Nodes -> Container] /\ online \in BOOLEAN
  /\ events \in [Nodes -> Seq(EventKind)]
ReconTypeOK ==
  recon \in [pc : {"idle", "query", "apply"}, snap : [Nodes -> Container \cup {"unknown"}],
             active : BOOLEAN, todo : SUBSET Nodes, kinds : SUBSET NodeActualState]
EnfTypeOK ==
  enf \in [pc : {"idle", "filter", "batch"}, todo : SUBSET Nodes, nodes : SUBSET Nodes,
           busy : SUBSET Nodes, wide : BOOLEAN,
           seen : [Nodes -> [verdict : {"none", "mark", "try"}, attempts : Nat]]]
SpentTypeOK ==
  spent \in [user : 0..MaxUser, fault : 0..MaxFaults, outage : 0..MaxOutages,
             timeout : 0..MaxTimeouts, restart : 0..MaxRestarts]

\* Every variable has its type.
TypeOK ==
  /\ NodesTypeOK /\ lab \in LabState /\ job \in [Slots -> Job] /\ AgentTypeOK
  /\ ReconTypeOK /\ EnfTypeOK /\ SpentTypeOK

\* Enforcement never exceeds its retry budget, although the attempt is counted
\* from a row read before the awaits of the scan, while jobs and users reset
\* the counter.  It has only given up on nodes whose budget is used up, or was
\* when the row was read: the reset of a user who came in between is not seen.
EnforcementBounded ==
  \A n \in Nodes : /\ attempts[n] <= MaxRetries
                   /\ failed[n] => attempts[n] \in {0, MaxRetries}

\* Between a node's turn in the scan and the creation of the batch job nothing
\* makes it ineligible: it is not given up on, not cooling down, within budget.
BatchStillDue ==
  \A n \in enf.nodes : ~cooling[n] /\ attempts[n] < MaxRetries /\ (failed[n] => attempts[n] = 0)

\* Enforcement does not pile up batch jobs, although it reads the active jobs
\* long before it makes one, and whatever a restart leaves behind.  Unless a job
\* is taken for stuck while its task runs: the task makes it active again.
OneBatchJob ==
  spent.timeout = 0 =>
    \A j, k \in Slots : Active(j) /\ Active(k) /\ job[j].kind = "batch" /\ job[k].kind = "batch"
                        => j = k

\* Nodes a job is about to take the mark from and not the counter, which it read
\* as zero.
Unmarking ==
  {n \in Nodes : \E j \in Slots : "mark" \in job[j].dirty[n] /\ "count" \notin job[j].dirty[n]}

\* A node enforcement gave up on is taken up again only with a fresh budget: by
\* the reset, or by the first attempt after one the mark came too late for.  One
\* way around: a job that read a mark on a fresh budget takes it away when it
\* closes, though the node has been given up on anew meanwhile.
FailedUntilReset ==
  [][\A n \in Nodes : failed[n] /\ ~failed'[n]
       => n \in Unmarking \/ attempts'[n] = 0 \/ (attempts[n] = 0 /\ attempts'[n] = 1)]_vars

\* As far as retries go, all of this is the retry budget of EnforcementBudget:
\* each node's counter and mark move only by an attempt, by giving up when the
\* budget is used up, or by a reset.
Budget == INSTANCE EnforcementBudget WITH
  Nodes <- Nodes, MaxRetries <- MaxRetries, attempts <- attempts, failed <- failed,
  unmarking <- Unmarking
BudgetSpec == Budget!Spec

\* A failed operation followed by a restart can leave a node that is to be
\* stopped in error: whoever lists the states next turns that into stopped.
Shown(n) == IF desired[n] = "stopped" /\ actual[n] = "error" THEN "stopped" ELSE actual[n]

\* A container that was created and never started is reported in a state
\* reconciliation has no rule for and can stay "starting" for ever.
Settled(n) ==
  \/ failed[n] \/ cont[n] = "created"
  \/ desired[n] = "running" /\ actual[n] = "running" /\ cont[n] = "running"
  \/ desired[n] = "stopped" /\ MatchesDesired(Shown(n), "stopped") /\ cont[n] # "running"

\* Once users and faults stop, every node reaches its desired state, in the
\* database and on the agent, or enforcement has given up on it.
Converges == <>[](\A n \in Nodes : Settled(n))

\* No job stays active for ever: it finishes, or the stuck-job check ends it.
JobsEnd == \A j \in Slots : []<>(~Active(j))

\* In the end the lab's state is the one the agent's containers add up to,
\* unless a node enforcement gave up on keeps the lab in error.
LabFollows ==
  <>[](\/ lab = ComputeLabState({CASE cont[n] = "running" -> "running"
                                   [] cont[n] = "absent"  -> "undeployed"
                                   [] OTHER               -> "stopped" : n \in Nodes})
       \/ \E n \in Nodes : failed[n])
=============================================================================
