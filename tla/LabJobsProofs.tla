--------------------------- MODULE LabJobsProofs ---------------------------
(***************************************************************************)
(* Type correctness of LabJobs and the mutual exclusion of the operations  *)
(* of a lab at its agent.                                                  *)
(***************************************************************************)
EXTENDS LabJobs, TLAPS

\* What the types rest on: admitted requests are paid for, and a job whose lock
\* is being released still has a retry.
AdmittedPaid == admitted <= spent.command
RetryLeft == health # NoJob => job[health].retry < MaxRetries
TInv == TypeOK /\ AdmittedPaid /\ RetryLeft

LEMMA OneOfMember == ASSUME NEW S, S # {} PROVE OneOf(S) \in S
  BY DEF OneOf

LEMMA FreeRowsAreJobs == FreeRows \subseteq Jobs /\ health \notin FreeRows
  BY DEF FreeRows

LEMMA AttemptsFacts ==
  /\ Attempts \subseteq Nat /\ 0 \notin Attempts /\ 1 \in Attempts
  /\ \A k \in Kind, t \in {0} \cup Attempts : t < Tries[k] => t + 1 \in Attempts
  BY LabJobsAssumption, SMTT(30) DEF Attempts, Kind

\* New rows and requests have their types.
LEMMA NewJobType ==
  ASSUME NEW kind \in Kind, NEW pc \in {"none", "begin", "call", "waits"}
  PROVE  NewJob(kind, pc) \in JobRow
  BY LabJobsAssumption DEF NewJob, JobRow

LEMMA NoRequestsType == NoRequests \in [Attempts -> {"none"} \cup Live \cup Answers]
  BY DEF NoRequests

Bounds == spent \in [command : 0 .. MaxCommands, trouble : 0 .. MaxTroubles]

LEMMA CommandType == Bounds /\ Command => Bounds' /\ spent'.command = spent.command + 1
  BY LabJobsAssumption DEF Bounds, Command

LEMMA TroubleType == Bounds /\ Trouble => Bounds' /\ spent'.command = spent.command
  BY LabJobsAssumption DEF Bounds, Trouble

\* A step that leaves retry counts and the health check alone keeps RetryLeft.
LEMMA SameRetries ==
  ASSUME TypeOK, RetryLeft, health' \in {health, NoJob},
         \A j \in Jobs : j = health => job'[j].retry = job[j].retry
  PROVE  RetryLeft'
  BY DEF RetryLeft, TypeOK

LEMMA InitType == Init => TInv
  <1> SUFFICES ASSUME Init PROVE TInv
    OBVIOUS
  <1>1. job \in [Jobs -> JobRow]
    <2>1. NewJob("up", "none") \in JobRow
      BY NewJobType DEF Kind
    <2> QED
      BY <2>1 DEF Init, JobRow
  <1>2. req \in [Jobs -> [Attempts -> {"none"} \cup Live \cup Answers]]
    BY NoRequestsType DEF Init
  <1>3. Bounds /\ spent.command = 0
    BY LabJobsAssumption DEF Init, Bounds
  <1>4. lab \in LabStates
    BY DEF Init, ShownBy, LabStates
  <1>5. AdmittedPaid /\ RetryLeft /\ admitted \in 0 .. MaxCommands
    BY <1>3, LabJobsAssumption DEF Init, AdmittedPaid, RetryLeft
  <1> QED
    BY <1>1, <1>2, <1>3, <1>4, <1>5 DEF Init, TInv, TypeOK, Bounds

Requests == [Jobs -> [Attempts -> {"none"} \cup Live \cup Answers]]
JobRows == [Jobs -> JobRow]
SameRetry == \A j \in Jobs : job'[j].retry = job[j].retry

\* One row is replaced by another with the same retry count.
LEMMA RowReplaced ==
  ASSUME TInv, NEW j \in Jobs, NEW r \in JobRow, r.retry = job[j].retry,
         job' = [job EXCEPT ![j] = r]
  PROVE  job' \in JobRows /\ SameRetry
  BY DEF TInv, TypeOK, JobRows, SameRetry

-----------------------------------------------------------------------------
(* Steps of the endpoints                                                  *)

USE DEF Bounds

LEMMA CreatesType ==
  ASSUME TInv, NEW kind \in Kind, Creates(kind)
  PROVE  /\ job' \in [Jobs -> JobRow]
         /\ req' \in [Jobs -> [Attempts -> {"none"} \cup Live \cup Answers]]
         /\ \A j \in Jobs : j = health => job'[j].retry = job[j].retry
  <1> DEFINE k == OneOf(FreeRows)
  <1>1. k \in FreeRows
    BY OneOfMember DEF Creates
  <1>2. k \in Jobs /\ k # health
    BY <1>1, FreeRowsAreJobs
  <1>3. NewJob(kind, "begin") \in JobRow
    BY NewJobType
  <1> QED
    BY <1>2, <1>3, NoRequestsType DEF TInv, TypeOK, Creates

LEMMA LabRestartType ==
  ASSUME TInv, LabRestart
  PROVE  TInv'
  <1> DEFINE d == OneOf(FreeRows)
             u == OneOf(FreeRows \ {d})
  <1>1. d \in FreeRows /\ u \in FreeRows
    BY OneOfMember, FreeRows \ {d} # {} DEF LabRestart
  <1>2. d \in Jobs /\ u \in Jobs /\ health \notin {d, u}
    BY <1>1, FreeRowsAreJobs
  <1>3. NewJob("down", "begin") \in JobRow /\ [NewJob("up", "waits") EXCEPT !.after = d] \in JobRow
    BY <1>2, NewJobType DEF JobRow, Kind
  <1>4. /\ job' \in [Jobs -> JobRow]
        /\ req' \in [Jobs -> [Attempts -> {"none"} \cup Live \cup Answers]]
        /\ \A j \in Jobs : j = health => job'[j].retry = job[j].retry
    BY <1>2, <1>3, NoRequestsType DEF TInv, TypeOK, LabRestart
  <1>5. Bounds' /\ AdmittedPaid'
    BY CommandType DEF TInv, TypeOK, LabRestart, AdmittedPaid
  <1> QED
    BY <1>4, <1>5, SameRetries DEF TInv, TypeOK, LabRestart

\* One admitted request less.
LEMMA AdmittedLess ==
  ASSUME TInv, admitted > 0, admitted' = admitted - 1, UNCHANGED spent
  PROVE  admitted' \in 0 .. MaxCommands /\ AdmittedPaid'
  BY LabJobsAssumption DEF TInv, TypeOK, AdmittedPaid

LEMMA EndpointType ==
  ASSUME TInv, Endpoint
  PROVE  TInv'
  <1>1. CASE LabUpChecks
    BY <1>1, CommandType, SameRetries, LabJobsAssumption DEF TInv, TypeOK, LabUpChecks, AdmittedPaid
  <1>2. CASE LabUpCreates
    BY <1>2, AdmittedLess, CreatesType, SameRetries DEF TInv, TypeOK, LabUpCreates, Kind
  <1>3. CASE LabUpGivesUp
    BY <1>3, AdmittedLess, SameRetries DEF TInv, TypeOK, LabUpGivesUp
  <1>4. CASE LabDown
    BY <1>4, CreatesType, CommandType, SameRetries DEF TInv, TypeOK, LabDown, AdmittedPaid, Kind
  <1>5. CASE LabRestart
    BY <1>5, LabRestartType
  <1>6. ASSUME NEW j \in Jobs, CancelJob(j) PROVE TInv'
    <2> DEFINE r == [job[j] EXCEPT !.st = "cancelled"]
    <2>0. job[j] \in JobRow
      BY DEF TInv, TypeOK
    <2>1. r \in JobRow /\ r.retry = job[j].retry
      BY <2>0 DEF JobRow
    <2>2. job' \in JobRows /\ SameRetry
      BY <1>6, <2>1, RowReplaced DEF CancelJob
    <2> QED
      BY <1>6, <2>2, CommandType, SameRetries
      DEF TInv, TypeOK, CancelJob, AdmittedPaid, LabStates, JobRows, SameRetry
  <1> QED
    BY <1>1, <1>2, <1>3, <1>4, <1>5, <1>6 DEF Endpoint

-----------------------------------------------------------------------------
(* Steps of the tasks                                                      *)

LEMMA WithoutTaskType ==
  ASSUME TInv, NEW j \in Jobs
  PROVE  WithoutTask(job[j]) \in JobRow /\ WithoutTask(job[j]).retry = job[j].retry
  <1>1. job[j] \in JobRow
    BY DEF TInv, TypeOK
  <1> QED
    BY <1>1, ZenonT(60) DEF JobRow, WithoutTask

LEMMA JobEndsType ==
  ASSUME TInv, NEW j \in Jobs, NEW st \in {"completed", "failed"},
         NEW state \in LabStates, JobEnds(j, st, state)
  PROVE  job' \in JobRows /\ SameRetry /\ lab' \in LabStates
  <1> DEFINE r == [WithoutTask(job[j]) EXCEPT !.st = st]
  <1>2. r \in JobRow /\ r.retry = job[j].retry
    BY WithoutTaskType, ZenonT(60) DEF JobRow
  <1>3. job' = [job EXCEPT ![j] = r]
    BY DEF JobEnds, TInv, TypeOK
  <1> QED
    BY <1>2, <1>3, RowReplaced DEF JobEnds

LEMMA ForgottenType ==
  ASSUME TInv, NEW j \in Jobs
  PROVE  Forgotten(j) \in Requests /\ Abandoned(j) \subseteq Requests
  <1>1. Forgotten(j) \in Requests
    BY DEF TInv, TypeOK, Forgotten, Requests
  <1> QED
    BY <1>1 DEF TInv, TypeOK, Abandoned, Requests

LEMMA TriesAgainType ==
  ASSUME TInv, NEW j \in Jobs, NEW rs \in Requests, TriesAgain(j, rs)
  PROVE  job' \in JobRows /\ SameRetry /\ req' \in Requests
  <1>1. job[j] \in JobRow
    BY DEF TInv, TypeOK
  <1>2. job[j].tries + 1 \in Attempts
    BY <1>1, AttemptsFacts DEF TriesAgain, MayRetry, JobRow
  <1>3. [job[j] EXCEPT !.tries = @ + 1] \in JobRow
    BY <1>1, <1>2 DEF JobRow
  <1>4. job' = [job EXCEPT ![j] = [job[j] EXCEPT !.tries = @ + 1]]
    BY DEF TriesAgain, TInv, TypeOK
  <1>5. job' \in JobRows
    BY <1>3, <1>4 DEF TInv, TypeOK, JobRows
  <1>6. SameRetry
    BY <1>1, <1>4 DEF TInv, TypeOK, JobRow, SameRetry
  <1>7. req' \in Requests
    BY <1>2 DEF TriesAgain, Requests, Live
  <1> QED
    BY <1>5, <1>6, <1>7

LEMMA TaskRunsType ==
  ASSUME TInv, NEW j \in Jobs, TaskRuns(j)
  PROVE  TInv'
  <1> USE DEF TInv, TypeOK, AdmittedPaid
  <1>1. CASE JobStarts(j)
    <2> DEFINE r == [job[j] EXCEPT !.st = "running", !.pc = "call", !.tries = 1, !.late = FALSE]
    <2>5. job[j] \in JobRow
      OBVIOUS
    <2>0. r \in JobRow /\ r.retry = job[j].retry
      BY <2>5, AttemptsFacts, ZenonT(60) DEF JobRow
    <2>4. job' = [job EXCEPT ![j] = r]
      BY <1>1 DEF JobStarts
    <2>1. job' \in JobRows /\ SameRetry
      BY <2>0, <2>4, RowReplaced
    <2>2. req' \in Requests
      BY <1>1 DEF JobStarts, Requests, Live
    <2>3. lab' \in LabStates
      BY <1>1 DEF JobStarts, LabStates
    <2> QED
      BY <1>1, <2>1, <2>2, <2>3, SameRetries DEF JobStarts, JobRows, SameRetry, Requests
  <1>2. CASE NoAgent(j)
    BY <1>2, JobEndsType, SameRetries DEF NoAgent, JobRows, SameRetry, LabStates
  <1>3. CASE CallSucceeds(j)
    BY <1>3, JobEndsType, ForgottenType, SameRetries DEF CallSucceeds, JobRows, SameRetry, LabStates, Requests
  <1>4. CASE CallFails(j)
    BY <1>4, JobEndsType, ForgottenType, SameRetries DEF CallFails, JobRows, SameRetry, LabStates, Requests
  <1>5. CASE CallRetried(j)
    <2>1. job' \in JobRows /\ SameRetry /\ req' \in Requests
      BY <1>5, ForgottenType, TriesAgainType DEF CallRetried
    <2> QED
      BY <1>5, <2>1, SameRetries DEF CallRetried, TriesAgain, JobRows, SameRetry, Requests
  <1>6. CASE RestartContinues(j)
    <2> DEFINE r(old) == IF job[job[j].after].st = "failed"
                         THEN [WithoutTask(job[j]) EXCEPT !.st = "failed"]
                         ELSE [job[j] EXCEPT !.pc = "begin", !.after = NoJob, !.late = old]
    <2>2. ASSUME NEW old \in BOOLEAN PROVE r(old) \in JobRow /\ r(old).retry = job[j].retry
      <3>1. CASE job[job[j].after].st = "failed"
        BY <3>1, WithoutTaskType, ZenonT(60) DEF JobRow
      <3>2. CASE job[job[j].after].st # "failed"
        BY <3>2, ZenonT(60) DEF JobRow
      <3> QED
        BY <3>1, <3>2
    <2>3. PICK old \in BOOLEAN : job' = [job EXCEPT ![j] = r(old)]
      BY <1>6 DEF RestartContinues
    <2>1. job' \in JobRows /\ SameRetry
      BY <2>2, <2>3, RowReplaced
    <2> QED
      BY <1>6, <2>1, SameRetries DEF RestartContinues, JobRows, SameRetry
  <1> QED
    BY <1>1, <1>2, <1>3, <1>4, <1>5, <1>6 DEF TaskRuns

LEMMA TaskFailsType ==
  ASSUME TInv, NEW j \in Jobs, TaskFails(j)
  PROVE  TInv'
  <1> USE DEF TInv, TypeOK, AdmittedPaid
  <1>1. CASE PreflightFails(j)
    BY <1>1, TroubleType, JobEndsType, SameRetries DEF PreflightFails, JobRows, SameRetry, LabStates
  <1>2. CASE CallTimesOut(j)
    <2>1. job' \in JobRows /\ SameRetry /\ req' \in Requests
      BY <1>2, ForgottenType, TriesAgainType DEF CallTimesOut
    <2> QED
      BY <1>2, <2>1, TroubleType, SameRetries DEF CallTimesOut, TriesAgain, JobRows, SameRetry, Requests
  <1>3. CASE AgentUnavailable(j)
    BY <1>3, TroubleType, JobEndsType, ForgottenType, SameRetries
    DEF AgentUnavailable, JobRows, SameRetry, LabStates, Requests
  <1>4. CASE RunsLate(j)
    <2>1. job' \in JobRows /\ SameRetry
      BY <1>4, ZenonT(60) DEF RunsLate, JobRow, JobRows, SameRetry
    <2> QED
      BY <1>4, <2>1, TroubleType, SameRetries DEF RunsLate, JobRows, SameRetry
  <1> QED
    BY <1>1, <1>2, <1>3, <1>4 DEF TaskFails

-----------------------------------------------------------------------------
(* Steps of the agent, the health checks and the rest                      *)

LEMMA RepliesType ==
  ASSUME TInv, NEW j \in Jobs, NEW a \in Attempts, NEW r \in Answers, Replies(j, a, r)
  PROVE  req' \in Requests
  BY DEF TInv, TypeOK, Replies, Requests

LEMMA RequestType ==
  ASSUME TInv, NEW j \in Jobs, NEW a \in Attempts, RequestRuns(j, a) \/ RequestFails(j, a)
  PROVE  TInv'
  <1> USE DEF TInv, TypeOK, AdmittedPaid
  <1>1. CASE TakesLocalLock(j, a)
    BY <1>1, SameRetries DEF TakesLocalLock, Live
  <1>2. CASE TakesKey(j, a)
    BY <1>2, SameRetries DEF TakesKey, Live
  <1>3. CASE KeyTimesOut(j, a)
    BY <1>3, RepliesType, SameRetries DEF KeyTimesOut, Requests, Answers
  <1>4. CASE RunsUnlocked(j, a)
    BY <1>4, SameRetries DEF RunsUnlocked, Live
  <1>5. CASE Done(j, a)
    <2>1. req' \in Requests
      BY <1>5, RepliesType DEF Done, Answers
    <2> QED
      BY <1>5, <2>1, SameRetries DEF Done, Requests, ContAfter, Releases
  <1>6. CASE KeyFails(j, a)
    BY <1>6, RepliesType, TroubleType, SameRetries DEF KeyFails, Requests, Answers
  <1>7. CASE OperationFails(j, a)
    BY <1>7, RepliesType, TroubleType, SameRetries
    DEF OperationFails, Requests, Answers, ContAfter, Releases
  <1>8. CASE ReleaseFails(j, a)
    BY <1>8, RepliesType, TroubleType, SameRetries DEF ReleaseFails, Requests, Answers, ContAfter
  <1>9. CASE HeartbeatFails(j, a)
    BY <1>9, TroubleType, SameRetries DEF HeartbeatFails, Live
  <1> QED
    BY <1>1, <1>2, <1>3, <1>4, <1>5, <1>6, <1>7, <1>8, <1>9 DEF RequestRuns, RequestFails

LEMMA AgentType ==
  ASSUME TInv, KeyExpires \/ AgentHeartbeat \/ AgentSilent \/ AgentRestarts
  PROVE  TInv'
  <1> USE DEF TInv, TypeOK, AdmittedPaid
  <1>1. CASE KeyExpires
    BY <1>1, SameRetries DEF KeyExpires
  <1>2. CASE AgentHeartbeat
    BY <1>2, SameRetries DEF AgentHeartbeat
  <1>3. CASE AgentSilent
    BY <1>3, TroubleType, SameRetries DEF AgentSilent
  <1>4. CASE AgentRestarts
    <2>1. req' \in Requests
      BY <1>4 DEF AgentRestarts, Requests, Answers
    <2>2. cont' \in {"present", "absent"}
      BY <1>4 DEF AgentRestarts, ContAfter
    <2> QED
      BY <1>4, <2>1, <2>2, TroubleType, SameRetries DEF AgentRestarts, Requests
  <1> QED
    BY <1>1, <1>2, <1>3, <1>4

LEMMA RetryJobType ==
  ASSUME TInv, NEW j \in Jobs, job[j].retry < MaxRetries, RetryJob(j)
  PROVE  TInv'
  <1> DEFINE rows == IF FreeRows = {} /\ Idle(j) THEN {j} ELSE FreeRows
             k == OneOf(rows)
             old == [job[j] EXCEPT !.st = "failed", !.next = SupersededBy(j, k)]
             new == [NewJob(job[j].kind, IF online THEN "begin" ELSE "none") EXCEPT
                       !.st = IF online THEN "queued" ELSE "failed",
                       !.retry = job[j].retry + 1]
  <1>1. k \in Jobs
    BY OneOfMember, FreeRowsAreJobs DEF RetryJob
  <1>2. job[j] \in JobRow
    BY DEF TInv, TypeOK
  <1>3. old \in JobRow
    BY <1>1, <1>2, ZenonT(60) DEF JobRow, SupersededBy
  <1>4. NewJob(job[j].kind, IF online THEN "begin" ELSE "none") \in JobRow
    BY <1>2, NewJobType DEF JobRow
  <1>5. job[j].retry + 1 \in 0 .. MaxRetries
    BY <1>2, LabJobsAssumption DEF JobRow
  <1>6. new \in JobRow
    BY <1>4, <1>5, ZenonT(60) DEF JobRow
  <1>7. job' = [job EXCEPT ![j] = old, ![k] = new]
    BY DEF RetryJob, TInv, TypeOK
  <1>8. req' \in Requests
    BY <1>1, NoRequestsType DEF RetryJob, TInv, TypeOK, Requests
  <1>9. job' \in JobRows
    <2> HIDE DEF k, old, new
    <2> QED
      BY <1>1, <1>3, <1>6, <1>7 DEF TInv, TypeOK, JobRows
  <1> QED
    BY <1>8, <1>9 DEF RetryJob, Treated, TInv, TypeOK, AdmittedPaid, RetryLeft, JobRows, Requests

LEMMA HealthType ==
  ASSUME TInv, NEW j \in Jobs, Health(j)
  PROVE  TInv'
  <1>1. job[j] \in JobRow
    BY DEF TInv, TypeOK
  <1>2. CASE FailJob(j)
    <2> DEFINE r == [job[j] EXCEPT !.st = "failed"]
    <2>1. r \in JobRow /\ r.retry = job[j].retry
      BY <1>1 DEF JobRow
    <2>2. job' \in JobRows /\ SameRetry
      BY <1>2, <2>1, RowReplaced DEF FailJob
    <2> QED
      BY <1>2, <2>2, SameRetries
      DEF FailJob, Treated, TInv, TypeOK, AdmittedPaid, JobRows, SameRetry, LabStates
  <1>3. CASE DropDuplicate(j)
    <2>1. PICK k \in Duplicates(j) :
            job' = [job EXCEPT ![j].st = "cancelled", ![j].next = SupersededBy(j, k)]
      BY <1>3 DEF DropDuplicate
    <2> DEFINE r == [job[j] EXCEPT !.st = "cancelled", !.next = SupersededBy(j, k)]
    <2>2. k \in Jobs
      BY DEF Duplicates, ActiveJobs
    <2>3. r \in JobRow /\ r.retry = job[j].retry
      BY <1>1, <2>2, ZenonT(60) DEF JobRow, SupersededBy
    <2>4. job' = [job EXCEPT ![j] = r]
      BY <2>1 DEF TInv, TypeOK
    <2>5. job' \in JobRows /\ SameRetry
      BY <2>3, <2>4, RowReplaced
    <2> QED
      BY <1>3, <2>5, SameRetries
      DEF DropDuplicate, Treated, TInv, TypeOK, AdmittedPaid, JobRows, SameRetry
  <1>4. CASE RetryWithoutLock(j)
    BY <1>4, RetryJobType DEF RetryWithoutLock, ToRetry
  <1>5. CASE ForceRelease(j)
    BY <1>5 DEF ForceRelease, ToRetry, TInv, TypeOK, AdmittedPaid, RetryLeft
  <1> QED
    BY <1>2, <1>3, <1>4, <1>5 DEF Health

LEMMA KilledType ==
  ASSUME TInv, NEW mine \in SUBSET Jobs, job' = Killed(mine)
  PROVE  job' \in JobRows /\ SameRetry
  <1>1. ASSUME NEW j \in Jobs
        PROVE  WithoutTask(job[j]) \in JobRow /\ WithoutTask(job[j]).retry = job[j].retry
    BY WithoutTaskType
  <1>2. job' \in JobRows
    BY <1>1 DEF TInv, TypeOK, Killed, JobRows
  <1>3. SameRetry
    BY <1>1 DEF Killed, SameRetry
  <1> QED
    BY <1>2, <1>3

LEMMA ControllerType ==
  ASSUME TInv,
         KeyForced \/ RetryAfterLock \/ ReconcileQueries \/ ReconcileWrites
         \/ ApiRestarts \/ SchedulerRestarts
  PROVE  TInv'
  <1>1. CASE KeyForced
    BY <1>1, SameRetries DEF KeyForced, TInv, TypeOK, AdmittedPaid
  <1>2. CASE RetryAfterLock
    BY <1>2, RetryJobType DEF RetryAfterLock, TInv, TypeOK, RetryLeft
  <1>3. CASE ReconcileQueries
    BY <1>3, SameRetries DEF ReconcileQueries, TInv, TypeOK, AdmittedPaid
  <1>4. CASE ReconcileWrites
    BY <1>4, SameRetries
    DEF ReconcileWrites, Reconciled, ShownBy, LabStates, TInv, TypeOK, AdmittedPaid
  <1>5. CASE ApiRestarts
    <2>1. job' \in JobRows /\ SameRetry
      BY <1>5, KilledType DEF ApiRestarts
    <2>2. admitted' \in 0 .. MaxCommands /\ AdmittedPaid' /\ Bounds'
      BY <1>5, TroubleType, LabJobsAssumption DEF ApiRestarts, TInv, TypeOK, AdmittedPaid
    <2> QED
      BY <1>5, <2>1, <2>2, SameRetries DEF ApiRestarts, TInv, TypeOK, JobRows, SameRetry
  <1>6. CASE SchedulerRestarts
    <2>1. job' \in JobRows /\ SameRetry
      BY <1>6, KilledType DEF SchedulerRestarts
    <2> QED
      BY <1>6, <2>1, TroubleType, SameRetries
      DEF SchedulerRestarts, ActiveJobs, TInv, TypeOK, AdmittedPaid, JobRows, SameRetry
  <1> QED
    BY <1>1, <1>2, <1>3, <1>4, <1>5, <1>6

LEMMA NextType == TInv /\ [Next]_vars => TInv'
  <1> SUFFICES ASSUME TInv, [Next]_vars PROVE TInv'
    OBVIOUS
  <1>1. CASE UNCHANGED vars
    BY <1>1 DEF vars, TInv, TypeOK, AdmittedPaid, RetryLeft
  <1>2. CASE Next
    BY <1>2, EndpointType, TaskRunsType, TaskFailsType, HealthType, RequestType, AgentType,
       ControllerType
    DEF Next, AgentRuns
  <1> QED
    BY <1>1, <1>2

\* Every reachable state of the job table, the requests at the agent, the lock
\* and the lab has its type, for any number of rows, attempts and retries.
THEOREM TypeCorrect == Spec => []TypeOK
  <1>1. TInv => TypeOK
    BY DEF TInv
  <1> QED
    BY InitType, NextType, <1>1, PTL DEF Spec

-----------------------------------------------------------------------------
(* One operation at a time                                                 *)

\* OneOperation does not hold by itself: a request about to run has to be alone
\* too.  The local lock is held from before the Redis key is asked for until the
\* answer, so what counts is one holder of the local lock; the key plays no part.
OneHolder == locking = "redis" => \A r, s \in Holders : r = s
LInv == TInv /\ OneHolder

\* No step but the local lock's adds a holder.
LEMMA NoNewHolder ==
  ASSUME OneHolder, locking' = locking, Holders' \subseteq Holders
  PROVE  OneHolder'
  BY DEF OneHolder

LEMMA SameRequests ==
  ASSUME UNCHANGED req
  PROVE  Holders' = Holders
  BY DEF Holders, At

\* A row of the requests is reset, or one request is forgotten or sent.
LEMMA RowResetHolders ==
  ASSUME TInv, NEW j \in Jobs, req' = [req EXCEPT ![j] = NoRequests]
  PROVE  Holders' \subseteq Holders
  BY DEF TInv, TypeOK, Holders, At, NoRequests

LEMMA RequestHolders ==
  ASSUME TInv, NEW j \in Jobs, NEW t,
         NEW v \in {"none", "waiting"} \cup Answers, req' = [req EXCEPT ![j][t] = v]
  PROVE  Holders' \subseteq Holders
  BY DEF TInv, TypeOK, Holders, At, Answers

LEMMA EndpointHolders ==
  ASSUME LInv, Endpoint
  PROVE  OneHolder'
  <1>1. CASE LabUpChecks \/ LabUpGivesUp \/ \E j \in Jobs : CancelJob(j)
    BY <1>1, SameRequests, NoNewHolder DEF LInv, LabUpChecks, LabUpGivesUp, CancelJob
  <1>2. CASE LabUpCreates \/ LabDown
    <2>1. PICK j \in Jobs : req' = [req EXCEPT ![j] = NoRequests]
      BY <1>2, OneOfMember, FreeRowsAreJobs DEF LabUpCreates, LabDown, Creates
    <2> QED
      BY <1>2, <2>1, RowResetHolders, NoNewHolder DEF LInv, LabUpCreates, LabDown
  <1>3. CASE LabRestart
    <2>1. PICK d, u : req' = [req EXCEPT ![d] = NoRequests, ![u] = NoRequests]
      BY <1>3 DEF LabRestart
    <2>2. Holders' \subseteq Holders
      BY <2>1 DEF LInv, TInv, TypeOK, Holders, At, NoRequests
    <2> QED
      BY <1>3, <2>2, NoNewHolder DEF LInv, LabRestart
  <1> QED
    BY <1>1, <1>2, <1>3 DEF Endpoint

LEMMA TriesAgainHolders ==
  ASSUME LInv, NEW j \in Jobs, NEW rs \in Abandoned(j) \cup {Forgotten(j)}, TriesAgain(j, rs)
  PROVE  OneHolder'
  <1>1. Holders' \subseteq Holders
    BY DEF TriesAgain, Abandoned, Forgotten, LInv, TInv, TypeOK, Holders, At
  <1> QED
    BY <1>1, NoNewHolder DEF TriesAgain, LInv

LEMMA TaskHolders ==
  ASSUME LInv, NEW j \in Jobs, TaskRuns(j) \/ TaskFails(j)
  PROVE  OneHolder'
  <1>1. CASE NoAgent(j) \/ RestartContinues(j) \/ PreflightFails(j) \/ RunsLate(j)
    BY <1>1, SameRequests, NoNewHolder
    DEF LInv, NoAgent, RestartContinues, PreflightFails, RunsLate
  <1>2. CASE JobStarts(j) \/ CallSucceeds(j) \/ CallFails(j)
    <2>1. CASE JobStarts(j)
      BY <2>1, RequestHolders, NoNewHolder DEF LInv, JobStarts
    <2>2. CASE CallSucceeds(j) \/ CallFails(j)
      BY <2>2, RequestHolders, NoNewHolder DEF LInv, CallSucceeds, CallFails, Forgotten
    <2> QED
      BY <1>2, <2>1, <2>2
  <1>3. CASE CallRetried(j)
    BY <1>3, TriesAgainHolders DEF CallRetried
  <1>4. CASE CallTimesOut(j)
    BY <1>4, TriesAgainHolders DEF CallTimesOut
  <1>5. CASE AgentUnavailable(j)
    <2>1. req' \in {req, Forgotten(j)}
      BY <1>5 DEF AgentUnavailable, Abandoned
    <2>2. Holders' \subseteq Holders
      BY <2>1, SameRequests, RequestHolders DEF LInv, Forgotten
    <2> QED
      BY <1>5, <2>2, NoNewHolder DEF LInv, AgentUnavailable
  <1> QED
    BY <1>1, <1>2, <1>3, <1>4, <1>5 DEF TaskRuns, TaskFails

LEMMA AgentHolders ==
  ASSUME LInv, NEW j \in Jobs, NEW a \in Attempts, RequestRuns(j, a) \/ RequestFails(j, a)
  PROVE  OneHolder'
  <1>1. CASE TakesLocalLock(j, a)
    <2>1. Holders' \subseteq {<<j, a>>}
      BY <1>1 DEF TakesLocalLock, LocalLockFree, LInv, TInv, TypeOK, Holders, At
    <2> QED
      BY <2>1 DEF OneHolder
  <1>2. CASE TakesKey(j, a)
    <2>1. Holders' \subseteq Holders
      BY <1>2 DEF TakesKey, LInv, TInv, TypeOK, Holders, At
    <2> QED
      BY <1>2, <2>1, NoNewHolder DEF LInv, TakesKey
  <1>3. CASE RunsUnlocked(j, a)
    BY <1>3 DEF RunsUnlocked, OneHolder
  <1>4. CASE \/ KeyTimesOut(j, a) \/ Done(j, a) \/ KeyFails(j, a)
             \/ OperationFails(j, a) \/ ReleaseFails(j, a)
    <2>1. \E r \in Answers : Replies(j, a, r)
      BY <1>4 DEF KeyTimesOut, Done, KeyFails, OperationFails, ReleaseFails, Answers
    <2>2. PICK r \in Answers : Replies(j, a, r)
      BY <2>1
    <2>3. PICK v \in {"none"} \cup Answers : req' = [req EXCEPT ![j][a] = v]
      BY <2>2 DEF Replies
    <2>4. Holders' \subseteq Holders
      BY <2>3, RequestHolders DEF LInv
    <2> QED
      BY <1>4, <2>4, NoNewHolder
      DEF LInv, KeyTimesOut, Done, KeyFails, OperationFails, ReleaseFails
  <1>5. CASE HeartbeatFails(j, a)
    <2>1. Holders' \subseteq Holders
      BY <1>5 DEF HeartbeatFails, LInv, TInv, TypeOK, Holders, At
    <2> QED
      BY <1>5, <2>1, NoNewHolder DEF LInv, HeartbeatFails
  <1> QED
    BY <1>1, <1>2, <1>3, <1>4, <1>5 DEF RequestRuns, RequestFails

LEMMA RestHolders ==
  ASSUME LInv,
         \/ KeyExpires \/ AgentHeartbeat \/ AgentSilent \/ AgentRestarts
         \/ KeyForced \/ ReconcileQueries \/ ReconcileWrites \/ ApiRestarts \/ SchedulerRestarts
  PROVE  OneHolder'
  <1>1. CASE AgentRestarts
    <2>1. Holders' = {}
      BY <1>1 DEF AgentRestarts, Holders, At, Live
    <2> QED
      BY <2>1 DEF OneHolder
  <1>2. CASE ~AgentRestarts
    BY <1>2, SameRequests, NoNewHolder
    DEF LInv, KeyExpires, AgentHeartbeat, AgentSilent, KeyForced,
        ReconcileQueries, ReconcileWrites, ApiRestarts, SchedulerRestarts
  <1> QED
    BY <1>1, <1>2

LEMMA RetryHolders ==
  ASSUME LInv, NEW j \in Jobs, RetryJob(j)
  PROVE  OneHolder'
  <1>1. PICK k \in Jobs : req' = [req EXCEPT ![k] = NoRequests]
    BY OneOfMember, FreeRowsAreJobs DEF RetryJob
  <1> QED
    BY <1>1, RowResetHolders, NoNewHolder DEF LInv, RetryJob

LEMMA HealthHolders ==
  ASSUME LInv, NEW j \in Jobs, Health(j)
  PROVE  OneHolder'
  <1>1. CASE RetryWithoutLock(j)
    BY <1>1, RetryHolders DEF RetryWithoutLock
  <1>2. CASE ~RetryWithoutLock(j)
    BY <1>2, SameRequests, NoNewHolder DEF LInv, Health, FailJob, DropDuplicate, ForceRelease
  <1> QED
    BY <1>1, <1>2

\* The agent never runs two operations of a lab at once while it has a lock
\* manager: requests of retried, cancelled and restarted jobs, forced releases
\* and expired keys included.
THEOREM OperationsExclude == Spec => []OneOperation
  <1>1. Init => OneHolder
    BY DEF Init, OneHolder, Holders, At, NoRequests
  <1>2. LInv /\ [Next]_vars => OneHolder'
    <2> SUFFICES ASSUME LInv, [Next]_vars PROVE OneHolder'
      OBVIOUS
    <2>1. CASE UNCHANGED vars
      BY <2>1, SameRequests, NoNewHolder DEF vars, LInv
    <2>2. CASE RetryAfterLock
      BY <2>2, RetryHolders DEF RetryAfterLock, LInv, TInv, TypeOK
    <2>3. CASE Next /\ ~RetryAfterLock
      BY <2>3, EndpointHolders, TaskHolders, AgentHolders, RestHolders, HealthHolders
      DEF Next, AgentRuns
    <2> QED
      BY <2>1, <2>2, <2>3
  <1>3. LInv => OneOperation
    BY DEF LInv, OneHolder, OneOperation, Holders, Running, Operating, At
  <1> QED
    BY InitType, NextType, <1>1, <1>2, <1>3, PTL DEF Spec, LInv

=============================================================================
