------------------------------ MODULE LabJobs ------------------------------
(***************************************************************************)
(* The deploy ("up") and destroy ("down") jobs of one lab on one agent:    *)
(* the endpoints that create and cancel them (routers/jobs.py), the task   *)
(* that runs each (run_agent_job), its HTTP requests with their retries,   *)
(* the agent's deploy lock, the job health checks of the scheduler, and    *)
(* the lab state with its reconciliation.  The lab's containers are        *)
(* present or absent as a whole.                                           *)
(***************************************************************************)
EXTENDS Naturals, FiniteSets

CONSTANTS
  Jobs,          \* rows of the job table (bound on jobs that matter at once)
  NoJob,
  Tries,         \* requests of one call, per kind of job: 2 up and 4 down
  MaxRetries,    \* settings.job_max_retries
  MaxCommands,   \* user commands (bound)
  MaxTroubles    \* failing or unanswered calls, Redis errors, a silent agent,
                 \* restarts, jobs that run past their timeout (bound)

Kind == {"up", "down"}

ASSUME LabJobsAssumption ==
  /\ NoJob \notin Jobs /\ IsFiniteSet(Jobs)
  /\ Tries \in [Kind -> Nat \ {0}]
  /\ {MaxRetries, MaxCommands, MaxTroubles} \subseteq Nat

VARIABLES
  job,       \* the job rows and their tasks
  req,       \* the requests of each job's call, as the agent has them
  key,       \* the lab's deploy lock exists in Redis
  locking,   \* the agent's lock manager: "redis" or "noop"
  cont,      \* the lab's containers: "present" or "absent"
  online,    \* Host.status
  lab,       \* Lab.state
  admitted,  \* lab_up requests past validation, waiting for image sync
  health,    \* the job whose lock the health check is releasing
  stranded,  \* jobs the recovery of a started scheduler has still to take
  seen,      \* the agents' answer a reconciliation holds
  spent      \* how much of each bound is used

vars == <<job, req, key, locking, cont, online, lab, admitted, health, stranded, seen, spent>>

Attempts == 1 .. (IF Tries["up"] > Tries["down"] THEN Tries["up"] ELSE Tries["down"])

\* Where a task is: none, about to begin, in its call to the agent, or (the
\* up job of a restart) behind the down job.
JobRow ==
  [st : {"none", "queued", "running", "completed", "failed", "cancelled"},
   kind : Kind, pc : {"none", "begin", "call", "waits"},
   retry : 0 .. MaxRetries, tries : {0} \cup Attempts, late : BOOLEAN,
   after : Jobs \cup {NoJob},   \* restart_sequence: the down job of this up job
   next : Jobs \cup {NoJob}]    \* superseded_by_id, kept while the job's task waits

\* A waiting request is on its way, behind the configuration extraction of a
\* destroy, or behind the agent's local lock; an unattended one runs without
\* its heartbeat.
Live == {"waiting", "locked", "running", "unattended"}
Answers == {"ok", "failed", "busy", "broken"}
LabStates == {"stopped", "starting", "running", "stopping", "error", "unknown"}

TypeOK ==
  /\ job \in [Jobs -> JobRow]
  /\ req \in [Jobs -> [Attempts -> {"none"} \cup Live \cup Answers]]
  /\ key \in BOOLEAN /\ locking \in {"redis", "noop"}
  /\ cont \in {"present", "absent"} /\ online \in BOOLEAN
  /\ lab \in LabStates
  /\ admitted \in 0 .. MaxCommands
  /\ health \in Jobs \cup {NoJob} /\ stranded \subseteq Jobs
  /\ seen \in {"none", "present", "absent"}
  /\ spent \in [command : 0 .. MaxCommands, trouble : 0 .. MaxTroubles]

NewJob(kind, pc) ==
  [st |-> "queued", kind |-> kind, pc |-> pc, retry |-> 0, tries |-> 0,
   late |-> FALSE, after |-> NoJob, next |-> NoJob]

\* A job without its task; how far the task was does not count any more.
WithoutTask(r) == [r EXCEPT !.pc = "none", !.tries = 0, !.late = FALSE,
                              !.after = NoJob, !.next = NoJob]

NoRequests == [a \in Attempts |-> "none"]

ShownBy(c) == IF c = "present" THEN "running" ELSE "stopped"

Init ==
  /\ job = [j \in Jobs |-> [NewJob("up", "none") EXCEPT !.st = "none"]]
  /\ req = [j \in Jobs |-> NoRequests]
  /\ key = FALSE /\ locking \in {"redis", "noop"}
  /\ cont \in {"present", "absent"} /\ lab = ShownBy(cont) /\ online = TRUE
  /\ admitted = 0 /\ health = NoJob /\ stranded = {} /\ seen = "none"
  /\ spent = [command |-> 0, trouble |-> 0]

Command == spent.command < MaxCommands /\ spent' = [spent EXCEPT !.command = @ + 1]
Trouble == spent.trouble < MaxTroubles /\ spent' = [spent EXCEPT !.trouble = @ + 1]

Active(j) == job[j].st \in {"queued", "running"}
ActiveJobs == {j \in Jobs : Active(j)}

\* A row serves for a new job once nothing can act on it or read it.
Idle(j) ==
  /\ job[j].pc = "none"
  /\ \A a \in Attempts : req[j][a] \notin Live
  /\ \A k \in Jobs : job[k].pc = "waits" => job[k].after # j
FreeRows == {j \in Jobs : Idle(j) /\ ~Active(j) /\ health # j /\ j \notin stranded}

\* Rows are alike: which free one is taken makes no difference.
OneOf(rows) == CHOOSE j \in rows : TRUE

-----------------------------------------------------------------------------
(* Endpoints                                                               *)

\* has_conflicting_job for the actions "up" and "down".
Conflict == ActiveJobs # {}

Creates(kind) ==
  /\ FreeRows # {}
  /\ LET j == OneOf(FreeRows) IN
       /\ job' = [job EXCEPT ![j] = NewJob(kind, "begin")]
       /\ req' = [req EXCEPT ![j] = NoRequests]

\* A refused request (409, 503) changes nothing and is not an action.
LabUpChecks ==
  /\ ~Conflict /\ online /\ Command
  /\ admitted' = admitted + 1
  /\ UNCHANGED <<job, req, key, locking, cont, online, lab, health, stranded, seen>>

LabUpCreates ==
  /\ admitted > 0 /\ admitted' = admitted - 1
  /\ Creates("up")
  /\ UNCHANGED <<key, locking, cont, online, lab, health, stranded, seen, spent>>

\* Images are missing after the sync: 503.
LabUpGivesUp ==
  /\ admitted > 0 /\ admitted' = admitted - 1
  /\ UNCHANGED <<job, req, key, locking, cont, online, lab, health, stranded, seen, spent>>

LabDown ==
  /\ ~Conflict /\ online /\ Command
  /\ Creates("down")
  /\ UNCHANGED <<key, locking, cont, online, lab, admitted, health, stranded, seen>>

LabRestart ==
  /\ ~Conflict /\ online /\ Command
  /\ FreeRows # {}
  /\ LET d == OneOf(FreeRows)
         u == OneOf(FreeRows \ {d})
     IN /\ FreeRows \ {d} # {}
        /\ job' = [job EXCEPT ![d] = NewJob("down", "begin"),
                              ![u] = [NewJob("up", "waits") EXCEPT !.after = d]]
        /\ req' = [req EXCEPT ![d] = NoRequests, ![u] = NoRequests]
  /\ UNCHANGED <<key, locking, cont, online, lab, admitted, health, stranded, seen>>

\* restart_sequence after its down job's task has returned; by then the up job
\* may have been queued for two minutes.
RestartContinues(u) ==
  LET d == job[u].after IN
  /\ job[u].pc = "waits" /\ job[d].pc = "none"
  /\ \E old \in BOOLEAN :
       job' = [job EXCEPT ![u] =
                 IF job[d].st = "failed"
                 THEN [WithoutTask(@) EXCEPT !.st = "failed"]
                 ELSE [@ EXCEPT !.pc = "begin", !.after = NoJob, !.late = old]]
  /\ UNCHANGED <<req, key, locking, cont, online, lab, admitted, health, stranded, seen, spent>>

CancelJob(j) ==
  /\ Active(j) /\ Command
  /\ job' = [job EXCEPT ![j].st = "cancelled"]
  /\ lab' = "unknown"
  /\ UNCHANGED <<req, key, locking, cont, online, admitted, health, stranded, seen>>

-----------------------------------------------------------------------------
(* run_agent_job                                                           *)

\* The task ends: its status and lab state are written whatever they are by now.
JobEnds(j, st, state) ==
  /\ job' = [job EXCEPT ![j] = [WithoutTask(@) EXCEPT !.st = st]]
  /\ lab' = state

\* The preflight checks are over.  The job is running, whatever it has become
\* while they took their time.
JobStarts(j) ==
  /\ job[j].pc = "begin" /\ online
  /\ job' = [job EXCEPT ![j].st = "running", ![j].pc = "call", ![j].tries = 1,
                        ![j].late = FALSE]
  /\ req' = [req EXCEPT ![j][1] = "waiting"]
  /\ lab' = IF job[j].kind = "up" THEN "starting" ELSE "stopping"
  /\ UNCHANGED <<key, locking, cont, online, admitted, health, stranded, seen, spent>>

NoAgent(j) ==
  /\ job[j].pc = "begin" /\ ~online
  /\ JobEnds(j, "failed", "error")
  /\ UNCHANGED <<req, key, locking, cont, online, admitted, health, stranded, seen, spent>>

PreflightFails(j) ==
  /\ job[j].pc = "begin" /\ online /\ Trouble
  /\ JobEnds(j, "failed", "error")
  /\ UNCHANGED <<req, key, locking, cont, online, admitted, health, stranded, seen>>

Answer(j) == req[j][job[j].tries]
Answered(j, answers) == job[j].pc = "call" /\ Answer(j) \in answers
MayRetry(j) == job[j].tries < Tries[job[j].kind]

Forgotten(j) == [req EXCEPT ![j][job[j].tries] = "none"]

CallSucceeds(j) ==
  /\ Answered(j, {"ok"})
  /\ JobEnds(j, "completed", IF job[j].kind = "up" THEN "running" ELSE "stopped")
  /\ req' = Forgotten(j)
  /\ UNCHANGED <<key, locking, cont, online, admitted, health, stranded, seen, spent>>

\* The agent reports a failure, the connection breaks, or the last attempt is
\* answered with 503.
CallFails(j) ==
  /\ Answered(j, {"failed", "broken"} \cup (IF MayRetry(j) THEN {} ELSE {"busy"}))
  /\ JobEnds(j, "failed", "error")
  /\ req' = Forgotten(j)
  /\ UNCHANGED <<key, locking, cont, online, admitted, health, stranded, seen, spent>>

\* with_retry: 503 and timeouts are tried again.
TriesAgain(j, rs) ==
  /\ MayRetry(j)
  /\ job' = [job EXCEPT ![j].tries = @ + 1]
  /\ req' = [rs EXCEPT ![j][job[j].tries + 1] = "waiting"]
  /\ UNCHANGED <<key, locking, cont, online, lab, admitted, health, stranded, seen>>

CallRetried(j) ==
  /\ Answered(j, {"busy"})
  /\ TriesAgain(j, Forgotten(j))
  /\ UNCHANGED spent

\* What became of a request nobody waits for any more: it runs on at the
\* agent, or never arrived there.
Abandoned(j) ==
  {req} \cup (IF Answer(j) = "waiting" THEN {Forgotten(j)} ELSE {})

CallTimesOut(j) ==
  /\ Answered(j, Live) /\ Trouble
  /\ \E rs \in Abandoned(j) : TriesAgain(j, rs)

AgentUnavailable(j) ==
  /\ Answered(j, Live) /\ Trouble /\ ~MayRetry(j)
  /\ JobEnds(j, "failed", "unknown")
  /\ req' \in Abandoned(j)
  /\ online' = FALSE
  /\ UNCHANGED <<key, locking, cont, admitted, health, stranded, seen>>

\* The job passes its timeout while its task lives: running ones that of their
\* kind, queued ones two minutes, while the preflight of a deploy waits for images.
RunsLate(j) ==
  /\ \/ job[j].pc = "call" /\ job[j].st = "running"
     \/ job[j].pc = "begin" /\ job[j].st = "queued" /\ job[j].kind = "up"
  /\ ~job[j].late /\ Trouble
  /\ job' = [job EXCEPT ![j].late = TRUE]
  /\ UNCHANGED <<req, key, locking, cont, online, lab, admitted, health, stranded, seen>>

-----------------------------------------------------------------------------
(* The agent                                                               *)

Awaited(j, a) == job[j].pc = "call" /\ job[j].tries = a

\* The request ends; its answer is kept if someone still waits for it.
\* Mutant: a request nobody waits for any more is not ended.
RepliesIfAwaited(j, a, r) == Awaited(j, a) /\ req' = [req EXCEPT ![j][a] = r]
Replies(j, a, r) == req' = [req EXCEPT ![j][a] = IF Awaited(j, a) THEN r ELSE "none"]

At(j, a, where) == req[j][a] \in where
Holders == {r \in Jobs \X Attempts : At(r[1], r[2], {"locked", "running", "unattended"})}

\* The asyncio lock of the lab, waited for without a timeout.
\* Mutant: only the Redis key.
LocalLockNone == TRUE
LocalLockFree == Holders = {}

TakesLocalLock(j, a) ==
  /\ locking = "redis" /\ At(j, a, {"waiting"}) /\ LocalLockFree
  /\ req' = [req EXCEPT ![j][a] = "locked"]
  /\ UNCHANGED <<job, key, locking, cont, online, lab, admitted, health, stranded, seen, spent>>

\* SET NX succeeds and the operation runs.
TakesKey(j, a) ==
  /\ At(j, a, {"locked"}) /\ ~key
  /\ key' = TRUE
  /\ req' = [req EXCEPT ![j][a] = "running"]
  /\ UNCHANGED <<job, locking, cont, online, lab, admitted, health, stranded, seen, spent>>

\* LockAcquisitionTimeout: 503.
KeyTimesOut(j, a) ==
  /\ At(j, a, {"locked"}) /\ key
  /\ Replies(j, a, "busy")
  /\ UNCHANGED <<job, key, locking, cont, online, lab, admitted, health, stranded, seen, spent>>

\* NoopDeployLockManager.
RunsUnlocked(j, a) ==
  /\ locking = "noop" /\ At(j, a, {"waiting"})
  /\ req' = [req EXCEPT ![j][a] = "running"]
  /\ UNCHANGED <<job, key, locking, cont, online, lab, admitted, health, stranded, seen, spent>>

\* A Redis error while the key is taken, which may have been set nevertheless.
KeyFails(j, a) ==
  /\ At(j, a, {"locked"}) /\ Trouble
  /\ key' \in {key, TRUE}
  /\ Replies(j, a, "failed")
  /\ UNCHANGED <<job, locking, cont, online, lab, admitted, health, stranded, seen>>

Operating == {"running", "unattended"}
ContAfter(kind) == IF kind = "up" THEN "present" ELSE "absent"

\* No lock, nothing to release.
Releases == IF locking = "redis" THEN FALSE ELSE key

\* The operation is done; the lock is released while the key is this agent's.
\* The error that ended the heartbeat is raised now, after a success too.
Done(j, a) ==
  /\ At(j, a, Operating)
  /\ cont' = ContAfter(job[j].kind)
  /\ key' = Releases
  /\ Replies(j, a, IF req[j][a] = "running" THEN "ok" ELSE "failed")
  /\ UNCHANGED <<job, locking, online, lab, admitted, health, stranded, seen, spent>>

\* The operation fails half-way.
OperationFails(j, a) ==
  /\ At(j, a, Operating) /\ Trouble
  /\ cont' \in {cont, ContAfter(job[j].kind)}
  /\ key' = Releases
  /\ Replies(j, a, "failed")
  /\ UNCHANGED <<job, locking, online, lab, admitted, health, stranded, seen>>

\* A Redis error on release makes a failure of a success and leaves the key.
ReleaseFails(j, a) ==
  /\ locking = "redis" /\ At(j, a, Operating) /\ Trouble
  /\ cont' = ContAfter(job[j].kind)
  /\ Replies(j, a, "failed")
  /\ UNCHANGED <<job, key, locking, online, lab, admitted, health, stranded, seen>>

Running == {r \in Jobs \X Attempts : At(r[1], r[2], Operating)}

\* A key nobody extends expires.
KeyExpires ==
  /\ key /\ (locking = "noop" \/ \A r \in Running : At(r[1], r[2], {"unattended"}))
  /\ key' = FALSE
  /\ UNCHANGED <<job, req, locking, cont, online, lab, admitted, health, stranded, seen, spent>>

\* A Redis error ends heartbeat_loop: nobody extends the key any more.
HeartbeatFails(j, a) ==
  /\ locking = "redis" /\ At(j, a, {"running"}) /\ Trouble
  /\ req' = [req EXCEPT ![j][a] = "unattended"]
  /\ UNCHANGED <<job, key, locking, cont, online, lab, admitted, health, stranded, seen>>

\* The agent restarts: calls break, an operation is left half-way, and the keys
\* of the last run are cleared, or Redis is away and there is no lock.
AgentRestarts ==
  /\ Trouble
  /\ req' = [j \in Jobs |-> [a \in Attempts |->
               IF At(j, a, Live) THEN IF Awaited(j, a) THEN "broken" ELSE "none"
                                 ELSE req[j][a]]]
  /\ cont' \in {cont} \cup {ContAfter(job[r[1]].kind) : r \in Running}
  /\ \/ locking' = "redis" /\ key' = FALSE
     \/ locking' = "noop" /\ key' = key
  /\ UNCHANGED <<job, online, lab, admitted, health, stranded, seen>>

AgentSilent ==
  /\ online /\ Trouble /\ online' = FALSE
  /\ UNCHANGED <<job, req, key, locking, cont, lab, admitted, health, stranded, seen>>

AgentHeartbeat ==
  /\ ~online /\ online' = TRUE
  /\ UNCHANGED <<job, req, key, locking, cont, lab, admitted, health, stranded, seen, spent>>

-----------------------------------------------------------------------------
(* Job health (scheduler)                                                  *)

\* is_job_stuck: a job queued for two minutes, a running one past its timeout.
\* A job whose task died gets there, and the up job of a restart whose down job
\* takes its time.
\* Mutant: running jobs alone.
StuckRunning(j) == job[j].st = "running" /\ (job[j].pc = "none" \/ job[j].late)
Stuck(j) ==
  \/ Active(j) /\ (job[j].pc = "none" \/ job[j].late)
  \/ job[j].st = "queued" /\ job[j].pc = "waits" /\ job[job[j].after].st # "queued"

\* check_jobs_on_offline_agents: jobs that have begun have an agent.
OnOfflineAgent(j) == job[j].st = "running" /\ ~online

\* recover_stranded_jobs comes first: it takes every job it found active,
\* whether a task of the API runs it or not and whatever it has become since.
Unhealthy(j) ==
  /\ health = NoJob
  /\ IF stranded = {} THEN Stuck(j) \/ OnOfflineAgent(j) ELSE j \in stranded
Treated(j) == stranded' = stranded \ {j}
Duplicates(j) == {k \in ActiveJobs \ {j} : job[k].kind = job[j].kind}

SupersededBy(j, k) == IF job[j].pc = "waits" THEN k ELSE NoJob

FailJob(j) ==
  /\ Unhealthy(j) /\ job[j].retry = MaxRetries
  /\ job' = [job EXCEPT ![j].st = "failed"]
  /\ lab' = "error" /\ Treated(j)
  /\ UNCHANGED <<req, key, locking, cont, online, admitted, health, seen, spent>>

\* Another job of the same kind is active already.
DropDuplicate(j) ==
  /\ Unhealthy(j) /\ job[j].retry < MaxRetries
  /\ \E k \in Duplicates(j) :
       job' = [job EXCEPT ![j].st = "cancelled", ![j].next = SupersededBy(j, k)]
  /\ Treated(j)
  /\ UNCHANGED <<req, key, locking, cont, online, lab, admitted, health, seen, spent>>

\* The new job begins if there is a healthy agent and fails at once otherwise.
\* It may take the row of the old one if nothing reads that any more.
RetryJob(j) ==
  LET rows == IF FreeRows = {} /\ Idle(j) THEN {j} ELSE FreeRows
      k == OneOf(rows)
  IN
  /\ rows # {}
  /\ job' = [job EXCEPT
       ![j].st = "failed", ![j].next = SupersededBy(j, k),
       ![k] = [NewJob(job[j].kind, IF online THEN "begin" ELSE "none") EXCEPT
                 !.st = IF online THEN "queued" ELSE "failed",
                 !.retry = job[j].retry + 1]]
  /\ req' = [req EXCEPT ![k] = NoRequests]
  /\ health' = NoJob /\ Treated(j)
  /\ UNCHANGED <<key, locking, cont, online, lab, admitted, seen, spent>>

\* Mutant: retries are not counted.
ToRetryAlways(j) == Unhealthy(j) /\ Duplicates(j) = {}
ToRetry(j) == Unhealthy(j) /\ job[j].retry < MaxRetries /\ Duplicates(j) = {}
HasAgent(j) == job[j].st = "running" /\ online

RetryWithoutLock(j) == ToRetry(j) /\ ~HasAgent(j) /\ RetryJob(j)

\* release_agent_lock is awaited before the retry.
ForceRelease(j) ==
  /\ ToRetry(j) /\ HasAgent(j)
  /\ health' = j
  /\ UNCHANGED <<job, req, key, locking, cont, online, lab, admitted, stranded, seen, spent>>

KeyForced ==
  /\ health # NoJob /\ key /\ locking = "redis" /\ key' = FALSE
  /\ UNCHANGED <<job, req, locking, cont, online, lab, admitted, health, stranded, seen, spent>>

\* The old job's status is overwritten, whatever it has become.
RetryAfterLock == health # NoJob /\ RetryJob(health)

-----------------------------------------------------------------------------
(* Reconciliation and restarts                                             *)

\* Up and down jobs within their timeout keep reconciliation away; the first
\* active job decides.
ReconcileQueries ==
  /\ seen = "none" /\ online /\ stranded = {}
  /\ ActiveJobs = {} \/ \E j \in ActiveJobs : Stuck(j)
  /\ seen' = cont
  /\ UNCHANGED <<job, req, key, locking, cont, online, lab, admitted, health, stranded, spent>>

\* Mutant: a lab in error is left as it is.
ReconciledUnlessError == IF lab = "error" THEN lab ELSE ShownBy(seen)
Reconciled == ShownBy(seen)

ReconcileWrites ==
  /\ seen # "none" /\ seen' = "none"
  /\ lab' = Reconciled
  /\ UNCHANGED <<job, req, key, locking, cont, online, admitted, health, stranded, spent>>

\* Tasks of jobs created by a request run in the API process, those of
\* retries in the scheduler.
Killed(mine) ==
  [j \in Jobs |-> IF j \in mine THEN WithoutTask(job[j]) ELSE job[j]]

ApiRestarts ==
  /\ Trouble
  /\ job' = Killed({j \in Jobs : job[j].retry = 0}) /\ admitted' = 0
  /\ UNCHANGED <<req, key, locking, cont, online, lab, health, stranded, seen>>

\* The recovery loads the jobs that have been active for a minute.
SchedulerRestarts ==
  /\ Trouble
  /\ job' = Killed({j \in Jobs : job[j].retry > 0}) /\ health' = NoJob /\ seen' = "none"
  /\ stranded' \in SUBSET ActiveJobs
  /\ UNCHANGED <<req, key, locking, cont, online, lab, admitted>>

-----------------------------------------------------------------------------
(* The system                                                              *)

Endpoint ==
  LabUpChecks \/ LabUpCreates \/ LabUpGivesUp \/ LabDown \/ LabRestart
  \/ \E j \in Jobs : CancelJob(j)

TaskRuns(j) ==
  JobStarts(j) \/ NoAgent(j) \/ CallSucceeds(j) \/ CallFails(j) \/ CallRetried(j)
  \/ RestartContinues(j)
TaskFails(j) == PreflightFails(j) \/ CallTimesOut(j) \/ AgentUnavailable(j) \/ RunsLate(j)

RequestRuns(j, a) ==
  TakesLocalLock(j, a) \/ TakesKey(j, a) \/ KeyTimesOut(j, a) \/ RunsUnlocked(j, a)
  \/ Done(j, a)
RequestFails(j, a) ==
  KeyFails(j, a) \/ OperationFails(j, a) \/ ReleaseFails(j, a) \/ HeartbeatFails(j, a)

AgentRuns ==
  KeyExpires \/ AgentHeartbeat \/ \E j \in Jobs, a \in Attempts : RequestRuns(j, a)

Health(j) == FailJob(j) \/ DropDuplicate(j) \/ RetryWithoutLock(j) \/ ForceRelease(j)

Next ==
  \/ Endpoint
  \/ \E j \in Jobs : TaskRuns(j) \/ TaskFails(j) \/ Health(j)
  \/ \E j \in Jobs, a \in Attempts : RequestFails(j, a)
  \/ AgentRuns \/ AgentSilent
  \/ KeyForced \/ RetryAfterLock
  \/ ReconcileQueries \/ ReconcileWrites
  \/ AgentRestarts \/ ApiRestarts \/ SchedulerRestarts

Spec == Init /\ [][Next]_vars

\* Controller tasks, the agent, the scheduler's checks and reconciliation each
\* get on; commands and troubles are not fair.
Fairness ==
  /\ WF_vars(\E j \in Jobs : TaskRuns(j))
  /\ WF_vars(AgentRuns)
  /\ WF_vars(RetryAfterLock \/ \E j \in Jobs : Health(j))
  /\ WF_vars(ReconcileQueries) /\ WF_vars(ReconcileWrites)

FairSpec == Spec /\ Fairness

-----------------------------------------------------------------------------
(* Properties                                                              *)

\* At most one operation of the lab runs at the agent while it has a lock
\* manager, although job health takes the Redis key away from a running
\* operation (job_health.py:281), the key can expire under it, and requests
\* given up on by their callers run late (agent/locks.py:130).
OneOperation == locking = "redis" => \A r, s \in Running : r = s

\* Once commands and troubles are over every up or down job has ended: tasks
\* end their rows, job health those without a task (job_health.py:134).
JobsEnd == <>[](ActiveJobs = {})

\* Then no request is left at the agent either, even behind a key that a failed
\* release has left (agent/locks.py:166).
RequestsEnd == <>[](\A j \in Jobs, a \in Attempts : ~At(j, a, Live))

\* Once commands and troubles are over the lab shows what the agent has, whatever
\* jobs, cancels and stale reconciliations have written (reconciliation_db.py:510).
LabTruthful == <>[](lab = ShownBy(cont))

=============================================================================
