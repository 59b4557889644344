------------------------ MODULE NodeLifecycleProofs ------------------------
(***************************************************************************)
(* Proofs about NodeLifecycle for every set of nodes and every value of    *)
(* the bounds: that the tables of state_machine.py agree with each other,  *)
(* type correctness, the retry budget of state enforcement and that the    *)
(* control loop implements it, and the single batch job.                   *)
(***************************************************************************)
EXTENDS NodeLifecycle, TLAPS

(* The tables of state_machine.py *)

\* A lifecycle job announces only transitions the table of valid transitions
\* has an edge for, whatever state the node is in.
THEOREM AnnouncedTransitionsAreValid ==
  ASSUME NEW current \in NodeActualState, NEW wanted \in NodeDesiredState
  PROVE  CanTransition(current, TransitionForDesired(current, wanted))
<1>1. CASE wanted = "running"
  <2>1. TransitionForDesired(current, wanted) =
          IF current \in {"undeployed", "error"} THEN "pending"
          ELSE IF current \in {"stopped", "exited", "pending"} THEN "starting" ELSE current
    BY <1>1 DEF NodeActualState, TransitionForDesired, StoppedEquivalentStates
  <2> QED BY <2>1 DEF NodeActualState, CanTransition, ValidTransitions
<1>2. CASE wanted = "stopped"
  <2>1. TransitionForDesired(current, wanted) =
          IF current = "running" THEN "stopping"
          ELSE IF current = "pending" THEN "undeployed" ELSE current
    BY <1>2 DEF NodeActualState, TransitionForDesired
  <2> QED BY <2>1 DEF NodeActualState, CanTransition, ValidTransitions
<1> QED BY <1>1, <1>2 DEF NodeDesiredState

\* Enforcement has an action for every state it says needs one, except for a
\* node in error that is to be stopped: that one is left to the user's stop
\* and to the end of a job, which turn it into stopped themselves.
THEOREM EnforcementActsOnMismatch ==
  ASSUME NEW current \in NodeActualState, NEW wanted \in NodeDesiredState,
         NeedsEnforcement(current, wanted)
  PROVE  EnforcementAction(current, wanted) = "none"
         <=> wanted = "stopped" /\ current = "error"
BY DEF NodeActualState, NodeDesiredState, NeedsEnforcement, MatchesDesired,
       EnforcementAction, StoppedEquivalentStates

\* A bulk command skips every node a single command would refuse.
THEOREM BulkSkipsRefused ==
  ASSUME NEW current \in NodeActualState, NEW was \in NodeDesiredState,
         NEW wanted \in NodeDesiredState, ~CanAcceptCommand(current, wanted)
  PROVE  BulkClass(current, was, wanted) = "skip"
BY DEF CanAcceptCommand, BulkClass

-----------------------------------------------------------------------------
(* Types: the helpers *)


\* Put changes a function to a value of its range.
LEMMA PutType ==
  ASSUME NEW T, NEW f \in [Nodes -> T], NEW S, NEW v \in T
  PROVE  Put(f, S, v) \in [Nodes -> T]
BY DEF Put

\* An announced transition leads to a state of a node.
LEMMA TransitionType ==
  ASSUME NEW a \in NodeActualState, NEW d
  PROVE  TransitionForDesired(a, d) \in NodeActualState
BY DEF TransitionForDesired, NodeActualState, StoppedEquivalentStates

\* Whatever states occur, they add up to a state of a lab.
LEMMA LabStateType == \A S : ComputeLabState(S) \in LabState
BY DEF ComputeLabState, LabState

\* A free slot is a job.
LEMMA FreeJobType == FreeJob \in Job
BY ConstantsAssumption
DEF FreeJob, Job, ConstantsAssumption, JobPc, Call

\* A new job is a job.
LEMMA NewJobType ==
  ASSUME NEW kind \in {"node", "lab", "batch"}, NEW ids \in SUBSET Nodes,
         NEW nodes \in SUBSET Nodes, NEW retry \in 0..MaxJobRetries
  PROVE  NewJob(kind, ids, nodes, retry) \in Job
BY FreeJobType DEF NewJob, Job, JobPc

\* Moving a job on keeps its type.
LEMMA StepType ==
  ASSUME job \in [Slots -> Job], NEW j \in Slots, NEW pc \in JobPc, Step(j, pc)
  PROVE  job' \in [Slots -> Job]
<1>1. [job[j] EXCEPT !.pc = pc] \in Job
  BY DEF Job
<1>2. job' = [job EXCEPT ![j] = [job[j] EXCEPT !.pc = pc]]
  BY DEF Step
<1> QED BY <1>1, <1>2

\* Ending a job keeps the type.
LEMMA FinishType ==
  ASSUME job \in [Slots -> Job], NEW j \in Slots, Finish(j)
  PROVE  job' \in [Slots -> Job]
BY FreeJobType DEF Finish

\* An agent's answer keeps the type.
LEMMA AnswerType ==
  ASSUME job \in [Slots -> Job], NEW j \in Slots, NEW n \in Nodes, NEW c \in Call, Answer(j, n, c)
  PROVE  job' \in [Slots -> Job]
<1> DEFINE calls == [job[j].call EXCEPT ![n] = c]
<1>1. calls \in [Nodes -> Call]
  BY DEF Job
<1>2. job' = [job EXCEPT ![j] = [job[j] EXCEPT !.call = calls]]
  BY DEF Answer
<1> HIDE DEF calls
<1>3. [job[j] EXCEPT !.call = calls] \in Job
  BY <1>1, ZenonT(60) DEF Job
<1> QED BY <1>2, <1>3

\* Making a job keeps the type.
LEMMA SpawnType ==
  ASSUME job \in [Slots -> Job], NEW kind \in {"node", "lab", "batch"},
         NEW ids \in SUBSET Nodes, Spawn(kind, ids)
  PROVE  job' \in [Slots -> Job]
<1>1. NewJob(kind, ids, ids, 0) \in Job
  BY NewJobType, ConstantsAssumption DEF ConstantsAssumption
<1> QED BY <1>1 DEF Spawn

\* Sending events keeps the type of the queues.
LEMMA EmitType ==
  ASSUME events \in [Nodes -> Seq(EventKind)], NEW n \in Nodes,
         NEW kinds \in Seq(EventKind), Emit(n, kinds)
  PROVE  events' \in [Nodes -> Seq(EventKind)]
BY DEF Emit

\* Counting a node keeps the type of the reconciliation loop and of the lab.
LEMMA TalliedType ==
  ASSUME ReconTypeOK, lab \in LabState, NEW n \in Nodes, NEW kinds \in SUBSET NodeActualState,
         Tallied(n, kinds)
  PROVE  ReconTypeOK' /\ lab' \in LabState
<1>1. JobSeen \in BOOLEAN /\ Pending \in SUBSET Nodes
  BY DEF JobSeen, Pending, AnyActive, ReconTypeOK
<1>2. IdleRecon \in [pc : {"idle", "query", "apply"}, snap : [Nodes -> Container \cup {"unknown"}],
                     active : BOOLEAN, todo : SUBSET Nodes, kinds : SUBSET NodeActualState]
  BY DEF IdleRecon
<1>3. recon.kinds \cup kinds \in SUBSET NodeActualState
  BY DEF ReconTypeOK
<1>4. CASE Pending = {n}
  BY <1>2, <1>4, LabStateType DEF Tallied, ReconTypeOK
<1>5. CASE Pending # {n}
  <2>1. /\ lab' = lab
        /\ recon' = [recon EXCEPT !.pc = "apply", !.active = JobSeen, !.todo = Pending \ {n},
                                  !.kinds = recon.kinds \cup kinds, !.snap[n] = "unknown"]
    BY <1>5 DEF Tallied
  <2> QED BY <1>1, <1>3, <2>1 DEF ReconTypeOK
<1> QED BY <1>4, <1>5

\* A fault is counted within its bound.
LEMMA FaultType == SpentTypeOK /\ (Fault \/ Outage) => SpentTypeOK'
BY ConstantsAssumption DEF SpentTypeOK, Fault, Outage, ConstantsAssumption

\* A command is counted within its bound.
LEMMA UserCommandType == SpentTypeOK /\ UserCommand => SpentTypeOK'
BY ConstantsAssumption DEF SpentTypeOK, UserCommand, ConstantsAssumption
-----------------------------------------------------------------------------
(* User commands *)

\* Converging nodes keeps their types.
LEMMA ConvergeType ==
  ASSUME NodesTypeOK, NEW S, Converge(S)
  PROVE  /\ actual' \in [Nodes -> NodeActualState]
         /\ stopTs' \in [Nodes -> Timestamp] /\ startTs' \in [Nodes -> Timestamp]
         /\ attempts' \in [Nodes -> Nat] /\ failed' \in [Nodes -> BOOLEAN]
BY DEF Converge, NodesTypeOK, Put, NodeActualState, Timestamp

\* Resetting counters keeps their types.
LEMMA ResetType ==
  ASSUME NodesTypeOK, NEW S, ResetEnforcement(S)
  PROVE  attempts' \in [Nodes -> Nat] /\ failed' \in [Nodes -> BOOLEAN]
BY DEF ResetEnforcement, NodesTypeOK, Put

\* StartNode keeps every type.
LEMMA StartNodeType ==
  ASSUME TypeOK, NEW n \in Nodes, StartNode(n)
  PROVE  TypeOK'
<1>1. SpentTypeOK'
  BY UserCommandType DEF TypeOK, StartNode
<1>2. job' \in [Slots -> Job]
  <2>1. PICK ids \in {{}, {n}} : Spawn("node", ids)
    BY DEF StartNode
  <2> QED BY <2>1, SpawnType DEF TypeOK
<1>3. NodesTypeOK'
  <2>1. desired' \in [Nodes -> NodeDesiredState]
    BY DEF StartNode, TypeOK, NodesTypeOK, NodeDesiredState
  <2>2. attempts' \in [Nodes -> Nat] /\ failed' \in [Nodes -> BOOLEAN]
    BY ResetType DEF StartNode, TypeOK, NodesTypeOK
  <2> QED BY <2>1, <2>2 DEF StartNode, TypeOK, NodesTypeOK
<1>4. AgentTypeOK' /\ ReconTypeOK' /\ EnfTypeOK' /\ lab' \in LabState
  BY DEF StartNode, TypeOK, agentVars, loopVars, AgentTypeOK, ReconTypeOK, EnfTypeOK
<1> QED BY <1>1, <1>2, <1>3, <1>4 DEF TypeOK

\* StopNode keeps every type.
LEMMA StopNodeType ==
  ASSUME TypeOK, NEW n \in Nodes, StopNode(n)
  PROVE  TypeOK'
<1>1. SpentTypeOK'
  BY UserCommandType DEF TypeOK, StopNode
<1>2. job' \in [Slots -> Job]
  <2>1. PICK ids \in {{}, {n}} : Spawn("node", ids)
    BY DEF StopNode
  <2> QED BY <2>1, SpawnType DEF TypeOK
<1>3. NodesTypeOK'
  <2>1. desired' \in [Nodes -> NodeDesiredState] /\ cooling' = cooling
    BY DEF StopNode, TypeOK, NodesTypeOK, NodeDesiredState
  <2> QED BY <2>1, ConvergeType DEF StopNode, TypeOK, NodesTypeOK
<1>4. AgentTypeOK' /\ ReconTypeOK' /\ EnfTypeOK' /\ lab' \in LabState
  BY DEF StopNode, TypeOK, agentVars, loopVars, AgentTypeOK, ReconTypeOK, EnfTypeOK
<1> QED BY <1>1, <1>2, <1>3, <1>4 DEF TypeOK

\* StartAll keeps every type.
LEMMA StartAllType ==
  ASSUME TypeOK, StartAll
  PROVE  TypeOK'
<1>1. SpentTypeOK'
  BY UserCommandType DEF TypeOK, StartAll
<1>2. job' \in [Slots -> Job]
  <2>1. PICK ids \in SUBSET Nodes : Spawn("lab", ids)
    BY DEF StartAll
  <2> QED BY <2>1, SpawnType DEF TypeOK
<1>3. NodesTypeOK'
  <2>1. desired' \in [Nodes -> NodeDesiredState]
    BY DEF StartAll, TypeOK, NodesTypeOK, NodeDesiredState, Put
  <2>2. attempts' \in [Nodes -> Nat] /\ failed' \in [Nodes -> BOOLEAN]
    BY ResetType DEF StartAll, TypeOK
  <2> QED BY <2>1, <2>2 DEF StartAll, TypeOK, NodesTypeOK
<1>4. AgentTypeOK' /\ ReconTypeOK' /\ EnfTypeOK' /\ lab' \in LabState
  BY DEF StartAll, TypeOK, agentVars, loopVars, AgentTypeOK, ReconTypeOK, EnfTypeOK
<1> QED BY <1>1, <1>2, <1>3, <1>4 DEF TypeOK

\* StopAll keeps every type.
LEMMA StopAllType ==
  ASSUME TypeOK, StopAll
  PROVE  TypeOK'
<1>1. SpentTypeOK'
  BY UserCommandType DEF TypeOK, StopAll
<1>2. job' \in [Slots -> Job]
  <2>1. PICK ids \in SUBSET Nodes : Spawn("lab", ids)
    BY DEF StopAll
  <2> QED BY <2>1, SpawnType DEF TypeOK
<1>3. NodesTypeOK'
  <2>1. desired' \in [Nodes -> NodeDesiredState] /\ cooling' = cooling
    BY DEF StopAll, TypeOK, NodesTypeOK, NodeDesiredState, Put
  <2> QED BY <2>1, ConvergeType DEF StopAll, TypeOK, NodesTypeOK
<1>4. AgentTypeOK' /\ ReconTypeOK' /\ EnfTypeOK' /\ lab' \in LabState
  BY DEF StopAll, TypeOK, agentVars, loopVars, AgentTypeOK, ReconTypeOK, EnfTypeOK
<1> QED BY <1>1, <1>2, <1>3, <1>4 DEF TypeOK

\* ListNodeStates keeps every type.
LEMMA ListNodeStatesType ==
  ASSUME TypeOK, ListNodeStates
  PROVE  TypeOK'
<1>1. desired' \in [Nodes -> NodeDesiredState] /\ cooling' = cooling
  BY DEF ListNodeStates, TypeOK, NodesTypeOK
<1>2. NodesTypeOK'
  BY <1>1, ConvergeType DEF ListNodeStates, TypeOK, NodesTypeOK
<1>3. AgentTypeOK' /\ ReconTypeOK' /\ EnfTypeOK' /\ SpentTypeOK'
  BY DEF ListNodeStates, TypeOK, agentVars, loopVars, AgentTypeOK, ReconTypeOK, EnfTypeOK,
         SpentTypeOK
<1> QED BY <1>2, <1>3 DEF ListNodeStates, TypeOK

-----------------------------------------------------------------------------
(* A job's task *)

\* What an action that changes only job leaves to be shown.
LEMMA OnlyJobType ==
  ASSUME TypeOK, job' \in [Slots -> Job], UNCHANGED <<nodeVars, lab, agentVars, loopVars, spent>>
  PROVE  TypeOK'
BY DEF TypeOK, NodesTypeOK, AgentTypeOK, ReconTypeOK, EnfTypeOK, SpentTypeOK,
       nodeVars, agentVars, loopVars

\* LoadAndValidate keeps every type.
LEMMA LoadAndValidateType ==
  ASSUME TypeOK, NEW j \in Slots, LoadAndValidate(j)
  PROVE  TypeOK'
<1>1. job' \in [Slots -> Job]
  BY StepType, FinishType DEF LoadAndValidate, TypeOK, JobPc
<1> QED BY <1>1, OnlyJobType DEF LoadAndValidate

\* FailPreflight keeps every type.
LEMMA FailPreflightType ==
  ASSUME TypeOK, NEW j \in Slots, FailPreflight(j)
  PROVE  TypeOK'
<1>1. job' \in [Slots -> Job]
  BY FinishType DEF FailPreflight, TypeOK
<1>2. NodesTypeOK'
  BY DEF FailPreflight, TypeOK, NodesTypeOK, Put, NodeActualState
<1>3. SpentTypeOK'
  BY FaultType DEF FailPreflight, TypeOK
<1> QED BY <1>1, <1>2, <1>3
        DEF FailPreflight, TypeOK, AgentTypeOK, ReconTypeOK, EnfTypeOK, agentVars, loopVars

\* SetTransitionalStates keeps every type.
LEMMA SetTransitionalStatesType ==
  ASSUME TypeOK, NEW j \in Slots, SetTransitionalStates(j)
  PROVE  TypeOK'
<1>1. job' \in [Slots -> Job]
  BY StepType DEF SetTransitionalStates, TypeOK, JobPc
<1>2. \A n \in Nodes : TransitionForDesired(actual[n], desired[n]) \in NodeActualState
  BY TransitionType DEF TypeOK, NodesTypeOK
<1>3. NodesTypeOK'
  BY <1>2 DEF SetTransitionalStates, TypeOK, NodesTypeOK, Put, Timestamp
<1> QED BY <1>1, <1>3
        DEF SetTransitionalStates, TypeOK, AgentTypeOK, ReconTypeOK, EnfTypeOK, SpentTypeOK,
            agentVars, loopVars

\* ResolveAgents keeps every type.
LEMMA ResolveAgentsType ==
  ASSUME TypeOK, NEW j \in Slots, ResolveAgents(j)
  PROVE  TypeOK'
<1>1. job' \in [Slots -> Job]
  <2>1. CASE online
    <3> job[j] \in Job
      BY DEF TypeOK
    <3>1. [job[j] EXCEPT !.pc = "sort", !.st = "running"] \in Job
      BY ZenonT(60) DEF Job, JobPc
    <3>2. job' = [job EXCEPT ![j] = [job[j] EXCEPT !.pc = "sort", !.st = "running"]]
      BY <2>1 DEF ResolveAgents
    <3> QED BY <3>1, <3>2 DEF TypeOK
  <2>2. CASE ~online
    BY <2>2, FinishType DEF ResolveAgents, TypeOK
  <2> QED BY <2>1, <2>2
<1>2. NodesTypeOK'
  BY DEF ResolveAgents, TypeOK, NodesTypeOK, Put, NodeActualState
<1> QED BY <1>1, <1>2
        DEF ResolveAgents, TypeOK, AgentTypeOK, ReconTypeOK, EnfTypeOK, SpentTypeOK,
            agentVars, loopVars

\* FailResources keeps every type.
LEMMA FailResourcesType ==
  ASSUME TypeOK, NEW j \in Slots, FailResources(j)
  PROVE  TypeOK'
<1>1. job' \in [Slots -> Job]
  BY FinishType DEF FailResources, TypeOK
<1>2. NodesTypeOK'
  BY DEF FailResources, TypeOK, NodesTypeOK, Put, NodeActualState
<1>3. SpentTypeOK'
  BY FaultType DEF FailResources, TypeOK
<1> QED BY <1>1, <1>2, <1>3
        DEF FailResources, TypeOK, AgentTypeOK, ReconTypeOK, EnfTypeOK, agentVars, loopVars

\* CategorizeNodes keeps every type.
LEMMA CategorizeNodesType ==
  ASSUME TypeOK, NEW j \in Slots, CategorizeNodes(j)
  PROVE  TypeOK'
<1> DEFINE todo == [n \in Nodes |-> IF n \in job[j].nodes THEN PhaseOf(n) ELSE "none"]
<1>1. todo \in [Nodes -> Phases \cup {"none"}]
  BY DEF PhaseOf, Phases
<1>2. job' = [job EXCEPT ![j] = [job[j] EXCEPT !.pc = "phases", !.todo = todo]]
  BY DEF CategorizeNodes
<1> HIDE DEF todo
<1>3. job[j] \in Job
  BY DEF TypeOK
<1>4. [job[j] EXCEPT !.pc = "phases", !.todo = todo] \in Job
  BY <1>1, <1>3, ZenonT(60) DEF Job, JobPc
<1>5. job' \in [Slots -> Job]
  BY <1>2, <1>4 DEF TypeOK
<1> QED BY <1>5, OnlyJobType DEF CategorizeNodes

\* BeginPhase keeps every type.
LEMMA BeginPhaseType ==
  ASSUME TypeOK, NEW j \in Slots, NEW phase \in Phases, BeginPhase(j, phase)
  PROVE  TypeOK'
<1>1. PICK Kept : job' = [job EXCEPT
        ![j] = [job[j] EXCEPT
                  !.todo = Put(job[j].todo, Sorted(j, phase), "none"),
                  !.tries = Put(job[j].tries, Kept, 0),
                  !.call = Put(job[j].call, Kept, IF phase = "stop" THEN "stop" ELSE "create")]]
  BY DEF BeginPhase
<1> DEFINE todo == Put(job[j].todo, Sorted(j, phase), "none")
           tries == Put(job[j].tries, Kept, 0)
           call == Put(job[j].call, Kept, IF phase = "stop" THEN "stop" ELSE "create")
<1>2. job[j] \in Job
  BY DEF TypeOK
<1>3. todo \in [Nodes -> Phases \cup {"none"}]
  BY <1>2, PutType DEF Job
<1>4. tries \in [Nodes -> 0..DeployAttempts]
  <2>1. 0 \in 0..DeployAttempts
    BY ConstantsAssumption DEF ConstantsAssumption
  <2>2. job[j].tries \in [Nodes -> 0..DeployAttempts]
    BY <1>2 DEF Job
  <2> QED BY <2>1, <2>2, PutType
<1>5. call \in [Nodes -> Call]
  BY <1>2, PutType DEF Job, Call
<1>6. job' = [job EXCEPT ![j] = [job[j] EXCEPT !.todo = todo, !.tries = tries, !.call = call]]
  BY <1>1
<1> HIDE DEF todo, tries, call
<1>7. [job[j] EXCEPT !.todo = todo, !.tries = tries, !.call = call] \in Job
  BY <1>2, <1>3, <1>4, <1>5 DEF Job
<1>8. job' \in [Slots -> Job]
  BY <1>6, <1>7 DEF TypeOK
<1> QED BY <1>8, OnlyJobType DEF BeginPhase

\* PostOperation keeps every type.
LEMMA PostOperationType ==
  ASSUME TypeOK, NEW j \in Slots, PostOperation(j)
  PROVE  TypeOK'
<1>1. job' \in [Slots -> Job]
  BY StepType DEF PostOperation, TypeOK, JobPc
<1> QED BY <1>1, OnlyJobType DEF PostOperation

\* CreateResult keeps every type.
LEMMA CreateResultType ==
  ASSUME TypeOK, NEW j \in Slots, NEW n \in Nodes, CreateResult(j, n)
  PROVE  TypeOK'
<1>1. job' \in [Slots -> Job]
  BY AnswerType DEF CreateResult, TypeOK, Call
<1>2. NodesTypeOK'
  BY DEF CreateResult, TypeOK, NodesTypeOK, NodeActualState
<1> QED BY <1>1, <1>2
        DEF CreateResult, TypeOK, AgentTypeOK, ReconTypeOK, EnfTypeOK, SpentTypeOK,
            agentVars, loopVars

\* CreateUnavailable keeps every type.
LEMMA CreateUnavailableType ==
  ASSUME TypeOK, NEW j \in Slots, NEW n \in Nodes, CreateUnavailable(j, n)
  PROVE  TypeOK'
<1>1. job' \in [Slots -> Job]
  <2>1. CASE job[j].tries[n] + 1 < DeployAttempts
    <3> DEFINE call == [job[j].call EXCEPT ![n] = "create"]
               tries == [job[j].tries EXCEPT ![n] = @ + 1]
    <3>1. call \in [Nodes -> Call]
      BY DEF TypeOK, Job, Call
    <3>2. tries \in [Nodes -> 0..DeployAttempts]
      BY <2>1, ConstantsAssumption DEF TypeOK, Job, ConstantsAssumption
    <3>3. job' = [job EXCEPT ![j] = [job[j] EXCEPT !.call = call, !.tries = tries]]
      BY <2>1 DEF CreateUnavailable
    <3> HIDE DEF call, tries
    <3>4. job[j] \in Job
      BY DEF TypeOK
    <3>5. [job[j] EXCEPT !.call = call, !.tries = tries] \in Job
      BY <3>1, <3>2, <3>4 DEF Job
    <3> QED BY <3>3, <3>5 DEF TypeOK
  <2>2. CASE ~(job[j].tries[n] + 1 < DeployAttempts)
    BY <2>2, AnswerType DEF CreateUnavailable, TypeOK, Answer, Call
  <2> QED BY <2>1, <2>2
<1>2. NodesTypeOK'
  BY DEF CreateUnavailable, TypeOK, NodesTypeOK, NodeActualState, Timestamp
<1> QED BY <1>1, <1>2
        DEF CreateUnavailable, TypeOK, AgentTypeOK, ReconTypeOK, EnfTypeOK, SpentTypeOK,
            agentVars, loopVars

\* StopResult keeps every type.
LEMMA StopResultType ==
  ASSUME TypeOK, NEW j \in Slots, NEW n \in Nodes, StopResult(j, n)
  PROVE  TypeOK'
<1>1. job' \in [Slots -> Job]
  BY AnswerType DEF StopResult, TypeOK, Call
<1>2. NodesTypeOK'
  BY DEF StopResult, TypeOK, NodesTypeOK, NodeActualState, Timestamp
<1> QED BY <1>1, <1>2
        DEF StopResult, TypeOK, AgentTypeOK, ReconTypeOK, EnfTypeOK, SpentTypeOK,
            agentVars, loopVars

\* What a closing job leaves to be written after this step: a node's mark without
\* its counter only if the mark stands and the counter is zero.
Defers(j) ==
  \E pc \in {"deployed", "placed", "close"}, rows \in [Nodes -> SUBSET Columns] :
    /\ Moves(j, pc, rows)
    /\ \A n \in Nodes : "mark" \in rows[n] /\ "count" \notin rows[n]
                        => failed'[n] /\ attempts'[n] = 0

\* What is deferred when a job counts its errors: the rows it has changed, and
\* the counters it resets.
LEMMA CountDefers ==
  ASSUME NEW j, NEW dirty \in [Nodes -> SUBSET Columns], NEW Well,
         \A n \in Nodes : "mark" \in dirty[n] /\ "count" \notin dirty[n]
                          => failed'[n] /\ attempts'[n] = 0,
         \/ Moves(j, "close", [n \in Nodes |-> dirty[n] \cup (IF n \in Well THEN ResetColumns(n)' ELSE {})])
         \/ Moves(j, "close", dirty)
  PROVE  Defers(j)
<1> DEFINE more == [n \in Nodes |-> dirty[n] \cup (IF n \in Well THEN ResetColumns(n)' ELSE {})]
<1>1. CASE Moves(j, "close", more)
  <2>1. more \in [Nodes -> SUBSET Columns]
    BY DEF ResetColumns, Columns
  <2>2. ASSUME NEW n \in Nodes, "mark" \in more[n], "count" \notin more[n]
        PROVE  failed'[n] /\ attempts'[n] = 0
    BY <2>2 DEF ResetColumns
  <2> HIDE DEF more
  <2> QED BY <1>1, <2>1, <2>2 DEF Defers
<1>2. CASE Moves(j, "close", dirty)
  BY <1>2 DEF Defers
<1> QED BY <1>1, <1>2

\* The steps that close a job defer their writes so; they count at most a fault.
LEMMA SettleDefers ==
  ASSUME NEW j, Settle(j)
  PROVE  Defers(j) /\ (Fault \/ UNCHANGED spent)
<1> DEFINE Conv == {n \in job[j].nodes : desired[n] = "stopped" /\ actual[n] = "error"}
           act == Put(actual, Conv, "stopped")
           dirty == [n \in Nodes |-> IF n \in Conv THEN ConvergedColumns(n) ELSE {}]
<1>1. dirty \in [Nodes -> SUBSET Columns]
  BY DEF ConvergedColumns, ResetColumns, Columns
<1>2. failed' = failed /\ attempts' = attempts
  BY DEF Settle, nodeVars
<1>3. ASSUME NEW n \in Nodes, "mark" \in dirty[n], "count" \notin dirty[n]
      PROVE  failed'[n] /\ attempts'[n] = 0
  BY <1>2, <1>3 DEF ConvergedColumns, ResetColumns
<1>4. \/ /\ \E pc \in {"deployed", "placed"} :
              Moves(j, pc, dirty)
         /\ UNCHANGED spent
      \/ CountErrors(j, act, dirty)
  BY DEF Settle
<1> HIDE DEF act, dirty
<1>5. CASE CountErrors(j, act, dirty)
  <2>1. PICK Well :
         \/ Moves(j, "close", [n \in Nodes |-> dirty[n] \cup (IF n \in Well THEN ResetColumns(n)' ELSE {})])
         \/ Moves(j, "close", dirty)
    BY <1>5 DEF CountErrors
  <2>2. Defers(j)
    BY <1>1, <1>3, <2>1, CountDefers
  <2> QED BY <1>5, <2>2 DEF CountErrors
<1>6. ASSUME NEW pc \in {"deployed", "placed"}, UNCHANGED spent,
             Moves(j, pc, dirty)
      PROVE  Defers(j) /\ UNCHANGED spent
  BY <1>1, <1>3, <1>6 DEF Defers
<1> QED BY <1>4, <1>5, <1>6

\* So do the commits of the placements.
LEMMA PlaceDefers ==
  ASSUME NEW j, PlaceDeployed(j) \/ Place(j)
  PROVE  Defers(j) /\ (Fault \/ UNCHANGED spent)
<1>1. FreeJob.dirty = [n \in Nodes |-> {}]
  BY DEF FreeJob
<1>2. /\ FreeJob.dirty \in [Nodes -> SUBSET Columns]
      /\ \A n \in Nodes : "mark" \notin FreeJob.dirty[n]
  BY <1>1
<1>3. CASE PlaceDeployed(j)
  BY <1>2, <1>3 DEF PlaceDeployed, Defers
<1>4. CASE Place(j)
  <2>1. PICK Well :
         \/ Moves(j, "close", [n \in Nodes |-> FreeJob.dirty[n] \cup (IF n \in Well THEN ResetColumns(n)' ELSE {})])
         \/ Moves(j, "close", FreeJob.dirty)
    BY <1>4 DEF Place, CountErrors
  <2>2. Defers(j)
    BY <1>2, <2>1, CountDefers
  <2> QED BY <1>4, <2>2 DEF Place, CountErrors
<1> QED BY <1>3, <1>4

\* Writing the deferred columns keeps their types.
LEMMA FlushType ==
  ASSUME NodesTypeOK, NEW j, Flush(j), UNCHANGED <<desired, cooling>>
  PROVE  NodesTypeOK'
<1>1. "stopped" \in NodeActualState /\ "none" \in Timestamp
  BY DEF NodeActualState, Timestamp
<1>2. /\ actual' \in [Nodes -> NodeActualState]
      /\ stopTs' \in [Nodes -> Timestamp] /\ startTs' \in [Nodes -> Timestamp]
      /\ attempts' \in [Nodes -> Nat] /\ failed' \in [Nodes -> BOOLEAN]
  BY <1>1, PutType DEF Flush, NodesTypeOK
<1> QED BY <1>2 DEF NodesTypeOK

\* Deferring writes moves the job on and changes nothing else of it.
LEMMA DefersOneSlot ==
  ASSUME job \in [Slots -> Job], NEW j \in Slots, Defers(j)
  PROVE  /\ job' = [job EXCEPT ![j] = job'[j]]
         /\ job'[j].kind = job[j].kind /\ job'[j].st = job[j].st
<1>1. PICK pc \in {"deployed", "placed", "close"}, rows \in [Nodes -> SUBSET Columns] :
        Moves(j, pc, rows)
  BY DEF Defers
<1> QED BY <1>1 DEF Job, Moves

\* Deferring writes keeps the type of the jobs.
LEMMA DefersType ==
  ASSUME job \in [Slots -> Job], NEW j \in Slots, Defers(j)
  PROVE  job' \in [Slots -> Job]
<1>1. PICK pc \in {"deployed", "placed", "close"}, rows \in [Nodes -> SUBSET Columns] :
        Moves(j, pc, rows)
  BY DEF Defers
<1>2. pc \in JobPc /\ job[j] \in Job
  BY DEF JobPc
<1>3. [job[j] EXCEPT !.pc = pc, !.dirty = rows] \in Job
  BY <1>2 DEF Job
<1> QED BY <1>1, <1>3 DEF Moves

\* The steps that close a job keep every type.
LEMMA ClosingType ==
  ASSUME TypeOK, NEW j \in Slots, Settle(j) \/ PlaceDeployed(j) \/ Place(j)
  PROVE  TypeOK'
<1>1. job' \in [Slots -> Job]
  BY SettleDefers, PlaceDefers, DefersType DEF TypeOK
<1>2. NodesTypeOK'
  <2>1. CASE Settle(j)
    BY <2>1 DEF Settle, TypeOK, NodesTypeOK, nodeVars
  <2>2. CASE PlaceDeployed(j) \/ Place(j)
    BY <2>2, FlushType DEF PlaceDeployed, Place, TypeOK
  <2> QED BY <2>1, <2>2
<1>3. SpentTypeOK'
  BY SettleDefers, PlaceDefers, FaultType DEF TypeOK, SpentTypeOK
<1> QED BY <1>1, <1>2, <1>3
        DEF Settle, PlaceDeployed, Place, TypeOK, AgentTypeOK, ReconTypeOK, EnfTypeOK,
            agentVars, loopVars

\* Finalize keeps every type.
LEMMA FinalizeType ==
  ASSUME TypeOK, NEW j \in Slots, Finalize(j)
  PROVE  TypeOK'
<1>1. job' \in [Slots -> Job]
  BY FinishType DEF Finalize, TypeOK
<1>2. NodesTypeOK'
  BY FlushType DEF Finalize, TypeOK
<1>3. lab' \in LabState
  BY LabStateType DEF Finalize, LabStateOf
<1> QED BY <1>1, <1>2, <1>3
        DEF Finalize, TypeOK, AgentTypeOK, ReconTypeOK, EnfTypeOK, SpentTypeOK, agentVars, loopVars

-----------------------------------------------------------------------------
(* The agent *)

\* AgentCreates keeps every type.
LEMMA AgentCreatesType ==
  ASSUME TypeOK, NEW j \in Slots, NEW n \in Nodes, AgentCreates(j, n)
  PROVE  TypeOK'
<1>1. job' \in [Slots -> Job]
  BY AnswerType DEF AgentCreates, TypeOK, Call
<1>2. /\ <<"creating", "started">> \in Seq(EventKind)
      /\ <<"started">> \in Seq(EventKind) /\ <<>> \in Seq(EventKind)
  BY DEF EventKind
<1>3. AgentTypeOK'
  BY <1>2, EmitType DEF AgentCreates, TypeOK, AgentTypeOK, Container
<1> QED BY <1>1, <1>3
        DEF AgentCreates, TypeOK, NodesTypeOK, ReconTypeOK, EnfTypeOK, SpentTypeOK,
            nodeVars, loopVars

\* AgentStops keeps every type.
LEMMA AgentStopsType ==
  ASSUME TypeOK, NEW j \in Slots, NEW n \in Nodes, AgentStops(j, n)
  PROVE  TypeOK'
<1>1. job' \in [Slots -> Job]
  BY AnswerType DEF AgentStops, TypeOK, Call
<1>2. /\ <<"killed", "died", "destroying">> \in Seq(EventKind)
      /\ <<"destroying">> \in Seq(EventKind) /\ <<>> \in Seq(EventKind)
  BY DEF EventKind
<1>3. AgentTypeOK'
  BY <1>2, EmitType DEF AgentStops, TypeOK, AgentTypeOK, Container
<1> QED BY <1>1, <1>3
        DEF AgentStops, TypeOK, NodesTypeOK, ReconTypeOK, EnfTypeOK, SpentTypeOK,
            nodeVars, loopVars

\* AgentRefuses keeps every type.
LEMMA AgentRefusesType ==
  ASSUME TypeOK, NEW j \in Slots, NEW n \in Nodes, AgentRefuses(j, n)
  PROVE  TypeOK'
<1>1. job' \in [Slots -> Job]
  BY AnswerType DEF AgentRefuses, TypeOK, Call
<1>2. SpentTypeOK'
  BY FaultType DEF AgentRefuses, TypeOK
<1> QED BY <1>1, <1>2
        DEF AgentRefuses, TypeOK, NodesTypeOK, AgentTypeOK, ReconTypeOK, EnfTypeOK,
            nodeVars, agentVars, loopVars

\* AgentStartFails keeps every type.
LEMMA AgentStartFailsType ==
  ASSUME TypeOK, NEW j \in Slots, NEW n \in Nodes, AgentStartFails(j, n)
  PROVE  TypeOK'
<1>1. job' \in [Slots -> Job]
  BY AnswerType DEF AgentStartFails, TypeOK, Call
<1>2. SpentTypeOK'
  BY FaultType DEF AgentStartFails, TypeOK
<1>3. <<"creating">> \in Seq(EventKind)
  BY DEF EventKind
<1>4. AgentTypeOK'
  BY <1>3, EmitType DEF AgentStartFails, TypeOK, AgentTypeOK, Container
<1> QED BY <1>1, <1>2, <1>4
        DEF AgentStartFails, TypeOK, NodesTypeOK, ReconTypeOK, EnfTypeOK, nodeVars, loopVars

\* CallLost keeps every type.
LEMMA CallLostType ==
  ASSUME TypeOK, NEW j \in Slots, NEW n \in Nodes, CallLost(j, n)
  PROVE  TypeOK'
<1>1. job' \in [Slots -> Job]
  BY AnswerType DEF CallLost, TypeOK, Call
<1>2. SpentTypeOK'
  BY FaultType DEF CallLost, TypeOK, SpentTypeOK
<1> QED BY <1>1, <1>2
        DEF CallLost, TypeOK, NodesTypeOK, AgentTypeOK, ReconTypeOK, EnfTypeOK,
            nodeVars, agentVars, loopVars
-----------------------------------------------------------------------------
(* The loops *)

\* A row of the scan has its type.
LEMMA RowType ==
  ASSUME NodesTypeOK, NEW n \in Nodes
  PROVE  Row(n) \in [verdict : {"none", "mark", "try"}, attempts : Nat]
<1>1. attempts[n] \in Nat
  BY DEF NodesTypeOK
<1> QED BY <1>1 DEF Row

\* EnforceScan keeps every type.
LEMMA EnforceScanType ==
  ASSUME TypeOK, EnforceScan
  PROVE  TypeOK'
<1> DEFINE Due == {n \in Nodes : Mismatched(n)}
           seen == [n \in Nodes |-> IF n \in Due THEN Row(n) ELSE Unread]
<1>1. enf' = [IdleEnf EXCEPT !.pc = "filter", !.todo = Due, !.wide = LabWideJob,
                             !.busy = {n \in Due : NodeJob(n)}, !.seen = seen]
  BY DEF EnforceScan
<1>2. seen \in [Nodes -> [verdict : {"none", "mark", "try"}, attempts : Nat]]
  BY RowType DEF TypeOK, Unread
<1>3. LabWideJob \in BOOLEAN /\ Due \in SUBSET Nodes
  BY DEF LabWideJob
<1> HIDE DEF Due, seen
<1>4. EnfTypeOK'
  BY <1>1, <1>2, <1>3 DEF EnfTypeOK, IdleEnf
<1> QED BY <1>4
        DEF EnforceScan, TypeOK, NodesTypeOK, AgentTypeOK, ReconTypeOK, SpentTypeOK,
            nodeVars, agentVars

\* EnforceFilter keeps every type.
LEMMA EnforceFilterType ==
  ASSUME TypeOK, NEW n \in Nodes, EnforceFilter(n)
  PROVE  TypeOK'
<1>1. PICK nodes \in {enf.nodes, enf.nodes \cup {n}},
           kept \in {enf.seen[n], Row(n), Unread} : Filtered(n, nodes, kept)
  BY DEF EnforceFilter
<1>2. /\ kept \in [verdict : {"none", "mark", "try"}, attempts : Nat]
      /\ nodes \in SUBSET Nodes /\ EnfTypeOK
  BY <1>1, RowType DEF TypeOK, EnfTypeOK, Unread
<1>3. EnfTypeOK'
  BY <1>1, <1>2 DEF Filtered, EnfTypeOK, IdleEnf, Unread
<1>4. NodesTypeOK'
  BY DEF EnforceFilter, TypeOK, NodesTypeOK, NodeActualState
<1> QED BY <1>3, <1>4
        DEF EnforceFilter, TypeOK, AgentTypeOK, ReconTypeOK, SpentTypeOK, agentVars

\* EnforceCreate keeps every type.
LEMMA EnforceCreateType ==
  ASSUME TypeOK, EnforceCreate
  PROVE  TypeOK'
<1>1. /\ enf.nodes \in SUBSET Nodes /\ \A n \in Nodes : enf.seen[n].attempts \in Nat
      /\ attempts \in [Nodes -> Nat]
  BY DEF TypeOK, EnfTypeOK, NodesTypeOK
<1>2. job' \in [Slots -> Job]
  BY <1>1, SpawnType DEF EnforceCreate, TypeOK
<1>3. attempts' \in [Nodes -> Nat]
  <2>1. PICK base \in {[n \in Nodes |-> enf.seen[n].attempts], attempts} :
          attempts' = [n \in Nodes |-> IF n \in enf.nodes THEN base[n] + 1 ELSE attempts[n]]
    BY DEF EnforceCreate
  <2>2. base \in [Nodes -> Nat]
    BY <1>1, <2>1
  <2> QED BY <1>1, <2>1, <2>2
<1>4. failed' \in [Nodes -> BOOLEAN] /\ cooling' \in [Nodes -> BOOLEAN]
  BY PutType DEF EnforceCreate, TypeOK, NodesTypeOK
<1>5. EnfTypeOK'
  BY DEF EnforceCreate, EnfTypeOK, IdleEnf, Unread
<1> QED BY <1>2, <1>3, <1>4, <1>5
        DEF EnforceCreate, TypeOK, NodesTypeOK, AgentTypeOK, ReconTypeOK, SpentTypeOK, agentVars

\* ReconcileQuery keeps every type.
LEMMA ReconcileQueryType ==
  ASSUME TypeOK, ReconcileQuery
  PROVE  TypeOK'
<1>1. ReconTypeOK'
  BY ZenonT(60) DEF ReconcileQuery, TypeOK, ReconTypeOK, AgentTypeOK
<1>2. SpentTypeOK'
  BY FaultType DEF ReconcileQuery, TypeOK, SpentTypeOK
<1> QED BY <1>1, <1>2
        DEF ReconcileQuery, TypeOK, NodesTypeOK, AgentTypeOK, EnfTypeOK, nodeVars, agentVars

\* ReconcileSkip keeps every type.
LEMMA ReconcileSkipType ==
  ASSUME TypeOK, NEW n \in Nodes, ReconcileSkip(n)
  PROVE  TypeOK'
<1>1. PICK kinds \in SUBSET NodeActualState : Tallied(n, kinds)
  BY DEF ReconcileSkip, NodeActualState
<1>2. ReconTypeOK' /\ lab' \in LabState
  BY <1>1, TalliedType DEF TypeOK
<1>3. NodesTypeOK'
  BY DEF ReconcileSkip, TypeOK, NodesTypeOK, Timestamp
<1> QED BY <1>2, <1>3
        DEF ReconcileSkip, TypeOK, AgentTypeOK, EnfTypeOK, SpentTypeOK, agentVars

\* ReconcileApply keeps every type.
LEMMA ReconcileApplyType ==
  ASSUME TypeOK, NEW n \in Nodes, ReconcileApply(n)
  PROVE  TypeOK'
<1>1. PICK kinds \in SUBSET NodeActualState : Tallied(n, kinds)
  BY DEF ReconcileApply, NodeActualState
<1>2. ReconTypeOK' /\ lab' \in LabState
  BY <1>1, TalliedType DEF TypeOK
<1>3. NodesTypeOK'
  BY DEF ReconcileApply, TypeOK, NodesTypeOK, Timestamp, NodeActualState
<1> QED BY <1>2, <1>3
        DEF ReconcileApply, TypeOK, AgentTypeOK, EnfTypeOK, SpentTypeOK, agentVars

\* Both stuck-node checks keep every type.
LEMMA CheckStuckNodesType ==
  ASSUME TypeOK, CheckStuckNodes
  PROVE  TypeOK'
<1>1. NodesTypeOK'
  BY DEF CheckStuckNodes, CheckStuckStopping, CheckStuckStarting, TypeOK, NodesTypeOK, Put,
         NodeActualState, Timestamp
<1> QED BY <1>1
        DEF CheckStuckNodes, CheckStuckStopping, CheckStuckStarting, TypeOK, AgentTypeOK,
            ReconTypeOK, EnfTypeOK, SpentTypeOK, agentVars, loopVars

\* CheckStuckJob keeps every type.
LEMMA CheckStuckJobType ==
  ASSUME TypeOK, NEW j \in Slots, CheckStuckJob(j)
  PROVE  TypeOK'
<1> DEFINE ended == IF At(j, "none") THEN FreeJob ELSE [job[j] EXCEPT !.st = "over"]
           retried == NewJob(job[j].kind, job[j].ids,
                             IF job[j].kind = "node" THEN job[j].ids ELSE Nodes,
                             job[j].retry + 1)
<1>1. job[j] \in Job
  BY DEF TypeOK
<1>2. ended \in Job
  BY <1>1, FreeJobType DEF Job
<1>3. ~RetriesUsed(j) => retried \in Job
  <2> SUFFICES ASSUME ~RetriesUsed(j) PROVE retried \in Job
    OBVIOUS
  <2>1. job[j].retry + 1 \in 0..MaxJobRetries
    BY <1>1, ConstantsAssumption DEF Job, RetriesUsed, ConstantsAssumption
  <2>2. job[j].kind \in {"node", "lab", "batch"} /\ job[j].ids \in SUBSET Nodes
    BY <1>1 DEF Job
  <2> QED BY <2>1, <2>2, NewJobType
<1>4. \/ job' = [job EXCEPT ![j] = ended]
      \/ ~RetriesUsed(j) /\ \E k \in Slots : job' = [job EXCEPT ![j] = ended, ![k] = retried]
  BY DEF CheckStuckJob
<1> HIDE DEF ended, retried
<1>5. job' \in [Slots -> Job]
  BY <1>2, <1>3, <1>4 DEF TypeOK
<1>6. SpentTypeOK'
  BY ConstantsAssumption DEF CheckStuckJob, TypeOK, SpentTypeOK, ConstantsAssumption
<1>7. lab' \in LabState
  BY DEF CheckStuckJob, TypeOK, LabState
<1> QED BY <1>5, <1>6, <1>7
        DEF CheckStuckJob, TypeOK, NodesTypeOK, AgentTypeOK, ReconTypeOK, EnfTypeOK,
            nodeVars, agentVars, loopVars

-----------------------------------------------------------------------------
(* Events and the environment *)

\* ReceiveNodeEvent keeps every type.
LEMMA ReceiveNodeEventType ==
  ASSUME TypeOK, NEW n \in Nodes, ReceiveNodeEvent(n)
  PROVE  TypeOK'
<1>1. \A kind, current : EventState(kind, current) \in NodeActualState
  BY DEF EventState, NodeActualState
<1>2. NodesTypeOK'
  <2>1. actual' \in [Nodes -> NodeActualState]
    BY <1>1 DEF ReceiveNodeEvent, TypeOK, NodesTypeOK
  <2>2. stopTs' \in [Nodes -> Timestamp] /\ startTs' \in [Nodes -> Timestamp]
    BY DEF ReceiveNodeEvent, TypeOK, NodesTypeOK, Put, Timestamp
  <2> QED BY <2>1, <2>2 DEF ReceiveNodeEvent, TypeOK, NodesTypeOK
<1>3. AgentTypeOK'
  BY DEF ReceiveNodeEvent, TypeOK, AgentTypeOK
<1> QED BY <1>2, <1>3
        DEF ReceiveNodeEvent, TypeOK, ReconTypeOK, EnfTypeOK, SpentTypeOK, loopVars

\* LoseNodeEvent keeps every type.
LEMMA LoseNodeEventType ==
  ASSUME TypeOK, NEW n \in Nodes, LoseNodeEvent(n)
  PROVE  TypeOK'
BY DEF LoseNodeEvent, TypeOK, NodesTypeOK, AgentTypeOK, ReconTypeOK, EnfTypeOK, SpentTypeOK,
       nodeVars, loopVars

\* ContainerCrashes keeps every type.
LEMMA ContainerCrashesType ==
  ASSUME TypeOK, NEW n \in Nodes, ContainerCrashes(n)
  PROVE  TypeOK'
<1>1. <<"died">> \in Seq(EventKind)
  BY DEF EventKind
<1>2. AgentTypeOK'
  BY <1>1, EmitType DEF ContainerCrashes, TypeOK, AgentTypeOK, Container
<1>3. SpentTypeOK'
  BY FaultType DEF ContainerCrashes, TypeOK
<1> QED BY <1>2, <1>3
        DEF ContainerCrashes, TypeOK, NodesTypeOK, ReconTypeOK, EnfTypeOK, nodeVars, loopVars

\* Outages keep every type.
LEMMA AgentOutageType ==
  ASSUME TypeOK, AgentGoesDown \/ AgentComesBack
  PROVE  TypeOK'
<1>1. SpentTypeOK'
  BY FaultType DEF AgentGoesDown, AgentComesBack, TypeOK, SpentTypeOK
<1> QED BY <1>1
        DEF AgentGoesDown, AgentComesBack, TypeOK, NodesTypeOK, AgentTypeOK, ReconTypeOK,
            EnfTypeOK, nodeVars, loopVars

\* A restart leaves jobs without their tasks.
LEMMA LoseTasksType ==
  ASSUME job \in [Slots -> Job], NEW Lost, LoseTasks(Lost)
  PROVE  job' \in [Slots -> Job]
<1>1. ASSUME NEW j \in Slots
      PROVE  [FreeJob EXCEPT !.st = job[j].st, !.kind = job[j].kind, !.ids = job[j].ids,
                             !.nodes = job[j].nodes, !.retry = job[j].retry] \in Job
  <2>1. job[j] \in Job
    OBVIOUS
  <2> QED BY <2>1, FreeJobType DEF Job
<1> QED BY <1>1, FreeJobType DEF LoseTasks

\* A restart is counted within its bound.
LEMMA RestartType == SpentTypeOK /\ Restart => SpentTypeOK'
BY ConstantsAssumption DEF SpentTypeOK, Restart, ConstantsAssumption

\* Restarts of either process keep every type.
LEMMA RestartsType ==
  ASSUME TypeOK, ApiRestarts \/ SchedulerRestarts
  PROVE  TypeOK'
<1>1. job' \in [Slots -> Job]
  BY LoseTasksType DEF ApiRestarts, SchedulerRestarts, TypeOK
<1>2. SpentTypeOK'
  BY RestartType DEF ApiRestarts, SchedulerRestarts, TypeOK
<1>3. ReconTypeOK' /\ EnfTypeOK'
  <2>1. CASE ApiRestarts
    BY <2>1 DEF ApiRestarts, TypeOK, ReconTypeOK, EnfTypeOK, loopVars
  <2>2. CASE SchedulerRestarts
    BY <2>2 DEF SchedulerRestarts, ReconTypeOK, EnfTypeOK, IdleRecon, IdleEnf, Unread
  <2> QED BY <2>1, <2>2
<1> QED BY <1>1, <1>2, <1>3
        DEF ApiRestarts, SchedulerRestarts, TypeOK, NodesTypeOK, AgentTypeOK, nodeVars, agentVars

\* Passing thresholds keeps every type.
LEMMA TimePassesType ==
  ASSUME TypeOK, NEW n \in Nodes, TimestampAges(n) \/ CooldownElapses(n)
  PROVE  TypeOK'
<1>1. NodesTypeOK'
  BY DEF TimestampAges, CooldownElapses, TypeOK, NodesTypeOK, Timestamp
<1> QED BY <1>1
        DEF TimestampAges, CooldownElapses, TypeOK, AgentTypeOK, ReconTypeOK, EnfTypeOK,
            SpentTypeOK, agentVars, loopVars

-----------------------------------------------------------------------------

\* Every variable has its type at the start.
LEMMA InitType == Init => TypeOK
<1> SUFFICES ASSUME Init PROVE TypeOK
  OBVIOUS
<1>1. NodesTypeOK /\ lab \in LabState
  BY DEF Init, NodesTypeOK, NodeDesiredState, NodeActualState, Timestamp, LabState
<1>2. job \in [Slots -> Job]
  BY FreeJobType DEF Init
<1>3. AgentTypeOK
  BY DEF Init, AgentTypeOK, Container
<1>4. ReconTypeOK /\ EnfTypeOK
  BY DEF Init, ReconTypeOK, EnfTypeOK, IdleRecon, IdleEnf, Unread
<1>5. SpentTypeOK
  BY ConstantsAssumption DEF Init, SpentTypeOK, ConstantsAssumption
<1> QED BY <1>1, <1>2, <1>3, <1>4, <1>5 DEF TypeOK

\* Every step of a job's task keeps every type.
LEMMA JobActionType ==
  ASSUME TypeOK, NEW j \in Slots, JobStep(j) \/ JobFailure(j)
  PROVE  TypeOK'
BY LoadAndValidateType, FailPreflightType, SetTransitionalStatesType, ResolveAgentsType,
   FailResourcesType, CategorizeNodesType, BeginPhaseType, PostOperationType,
   CreateResultType, CreateUnavailableType, StopResultType, ClosingType, FinalizeType
DEF JobStep, JobFailure

\* Every step of the environment keeps every type.
LEMMA EnvironmentType == TypeOK /\ Environment => TypeOK'
BY AgentOutageType, RestartsType, ContainerCrashesType, LoseNodeEventType,
   ReceiveNodeEventType, TimePassesType
DEF Environment

\* Every variable keeps its type.
THEOREM TypeCorrect == Spec => []TypeOK
<1>1. ASSUME TypeOK, [Next]_vars PROVE TypeOK'
  <2>1. CASE User
    BY <1>1, <2>1, StartNodeType, StopNodeType, StartAllType, StopAllType,
       ListNodeStatesType
    DEF User
  <2>2. CASE EnforceStep
    BY <1>1, <2>2, EnforceScanType, EnforceFilterType, EnforceCreateType DEF EnforceStep
  <2>3. CASE ReconcileStep
    BY <1>1, <2>3, ReconcileQueryType, ReconcileSkipType, ReconcileApplyType
    DEF ReconcileStep, ReconcileNode
  <2>4. CASE CheckStuckNodes
    BY <1>1, <2>4, CheckStuckNodesType
  <2>5. CASE Environment
    BY <1>1, <2>5, EnvironmentType
  <2>6. ASSUME NEW j \in Slots, JobStep(j) \/ JobFailure(j) PROVE TypeOK'
    BY <1>1, <2>6, JobActionType
  <2>7. ASSUME NEW j \in Slots, CheckStuckJob(j) PROVE TypeOK'
    BY <1>1, <2>7, CheckStuckJobType
  <2>8. ASSUME NEW j \in Slots, NEW n \in Nodes, AgentStep(j, n) \/ AgentFailure(j, n)
        PROVE  TypeOK'
    BY <1>1, <2>8, AgentCreatesType, AgentStopsType, CallLostType, AgentRefusesType,
       AgentStartFailsType
    DEF AgentStep, AgentFailure
  <2>9. CASE UNCHANGED vars
    BY <1>1, <2>9, OnlyJobType DEF vars, TypeOK
  <2> QED BY <1>1, <2>1, <2>2, <2>3, <2>4, <2>5, <2>6, <2>7, <2>8, <2>9 DEF Next
<1> QED BY InitType, <1>1, PTL DEF Spec

-----------------------------------------------------------------------------
(* What a step can do to the enforcement variables *)

\* A reset of the counters of some nodes, and of the marks of these or of nodes
\* whose counters a closing job has read as zero.
ResetStep ==
  /\ \E S \in SUBSET Nodes : \E T \in SUBSET (S \cup Unmarking) :
       attempts' = Put(attempts, S, 0) /\ failed' = Put(failed, T, FALSE)
  /\ UNCHANGED <<cooling, enf>>

\* No counter or mark moves; a cooldown may elapse, a restart may drop a batch.
QuietStep ==
  /\ UNCHANGED <<attempts, failed>> /\ enf' \in {enf, IdleEnf}
  /\ cooling' = cooling \/ \E n \in Nodes : cooling' = [cooling EXCEPT ![n] = FALSE]

enforcementVars == <<attempts, failed, cooling, enf>>

\* A step that leaves the counters alone is quiet.
LEMMA StutterIsQuiet == UNCHANGED enforcementVars => QuietStep
BY DEF enforcementVars, QuietStep

\* Resetting counters with their marks is a reset.
LEMMA EnforcementResets ==
  ASSUME NEW S, ResetEnforcement(S), UNCHANGED <<cooling, enf>>
  PROVE  ResetStep
<1>1. attempts' = Put(attempts, S \cap Nodes, 0) /\ failed' = Put(failed, S \cap Nodes, FALSE)
  BY DEF ResetEnforcement, Put
<1> QED BY <1>1 DEF ResetStep

\* So is writing the columns a closing job has deferred.
LEMMA FlushResets ==
  ASSUME NEW j \in Slots, Flush(j), UNCHANGED <<cooling, enf>>
  PROVE  ResetStep
<1> DEFINE Rows(c) == {n \in Nodes : c \in job[j].dirty[n]}
<1>1. attempts' = Put(attempts, Rows("count"), 0) /\ failed' = Put(failed, Rows("mark"), FALSE)
  BY DEF Flush
<1>2. Rows("count") \in SUBSET Nodes /\ Rows("mark") \in SUBSET (Rows("count") \cup Unmarking)
  BY DEF Unmarking
<1> QED BY <1>1, <1>2 DEF ResetStep

\* Converging stopped nodes resets their counters.
LEMMA ConvergeResets ==
  ASSUME NEW S, Converge(S), UNCHANGED <<cooling, enf>>
  PROVE  ResetStep
BY EnforcementResets DEF Converge, ResetEnforcement

\* A user command resets counters or leaves them alone.
LEMMA UserResets == User => ResetStep \/ QuietStep
<1>1. ASSUME NEW n \in Nodes, StartNode(n) PROVE ResetStep \/ QuietStep
  BY <1>1, StutterIsQuiet, EnforcementResets DEF StartNode, enforcementVars, loopVars
<1>2. ASSUME NEW n \in Nodes, StopNode(n) PROVE ResetStep
  BY <1>2, ConvergeResets DEF StopNode, loopVars
<1>3. ASSUME StartAll PROVE ResetStep
  BY <1>3, EnforcementResets DEF StartAll, loopVars
<1>4. ASSUME StopAll PROVE ResetStep
  BY <1>4, ConvergeResets DEF StopAll, loopVars
<1>5. ASSUME ListNodeStates PROVE ResetStep
  BY <1>5, ConvergeResets DEF ListNodeStates, loopVars
<1> QED BY <1>1, <1>2, <1>3, <1>4, <1>5 DEF User

\* Of a job's steps only those that close it touch the counters: they reset them.
LEMMA JobResets ==
  ASSUME NEW j \in Slots, JobStep(j) \/ JobFailure(j)
  PROVE  ResetStep \/ QuietStep
<1>1. CASE LoadAndValidate(j)
  BY <1>1, StutterIsQuiet DEF LoadAndValidate, enforcementVars, nodeVars, loopVars
<1>2. CASE SetTransitionalStates(j)
  BY <1>2, StutterIsQuiet DEF SetTransitionalStates, enforcementVars, loopVars
<1>3. CASE ResolveAgents(j)
  BY <1>3, StutterIsQuiet DEF ResolveAgents, enforcementVars, nodeVars, loopVars
<1>4. CASE CategorizeNodes(j)
  BY <1>4, StutterIsQuiet DEF CategorizeNodes, enforcementVars, nodeVars, loopVars
<1>5. CASE PostOperation(j)
  BY <1>5, StutterIsQuiet DEF PostOperation, enforcementVars, nodeVars, loopVars
<1>6. CASE Finalize(j) \/ PlaceDeployed(j) \/ Place(j)
  BY <1>6, FlushResets DEF Finalize, PlaceDeployed, Place, loopVars
<1>7. ASSUME NEW phase \in Phases, BeginPhase(j, phase) PROVE QuietStep
  BY <1>7, StutterIsQuiet DEF BeginPhase, enforcementVars, nodeVars, loopVars
<1>8. ASSUME NEW n \in Nodes, CreateResult(j, n) PROVE QuietStep
  BY <1>8, StutterIsQuiet DEF CreateResult, enforcementVars, loopVars
<1>9. ASSUME NEW n \in Nodes, CreateUnavailable(j, n) PROVE QuietStep
  BY <1>9, StutterIsQuiet DEF CreateUnavailable, enforcementVars, loopVars
<1>10. ASSUME NEW n \in Nodes, StopResult(j, n) PROVE QuietStep
  BY <1>10, StutterIsQuiet DEF StopResult, enforcementVars, loopVars
<1>11. CASE FailPreflight(j)
  BY <1>11, StutterIsQuiet DEF FailPreflight, enforcementVars, loopVars
<1>12. CASE FailResources(j)
  BY <1>12, StutterIsQuiet DEF FailResources, enforcementVars, nodeVars, loopVars
<1>13. CASE Settle(j)
  BY <1>13, StutterIsQuiet DEF Settle, enforcementVars, nodeVars, loopVars
<1> QED BY <1>1, <1>2, <1>3, <1>4, <1>5, <1>6, <1>7, <1>8, <1>9, <1>10, <1>11, <1>12, <1>13
        DEF JobStep, JobFailure

\* No event, crash, outage, restart or passing of time touches a counter.
LEMMA EnvironmentIsQuiet == Environment => QuietStep
<1>1. ASSUME AgentGoesDown \/ AgentComesBack PROVE QuietStep
  BY <1>1, StutterIsQuiet
  DEF AgentGoesDown, AgentComesBack, enforcementVars, nodeVars, loopVars
<1>2. ASSUME ApiRestarts \/ SchedulerRestarts PROVE QuietStep
  BY <1>2 DEF ApiRestarts, SchedulerRestarts, QuietStep, nodeVars, loopVars
<1>3. ASSUME NEW n \in Nodes, ContainerCrashes(n) PROVE QuietStep
  BY <1>3, StutterIsQuiet DEF ContainerCrashes, enforcementVars, nodeVars, loopVars
<1>4. ASSUME NEW n \in Nodes, LoseNodeEvent(n) PROVE QuietStep
  BY <1>4, StutterIsQuiet DEF LoseNodeEvent, enforcementVars, nodeVars, loopVars
<1>5. ASSUME NEW n \in Nodes, ReceiveNodeEvent(n) PROVE QuietStep
  BY <1>5, StutterIsQuiet DEF ReceiveNodeEvent, enforcementVars, loopVars
<1>6. ASSUME NEW n \in Nodes, TimestampAges(n) PROVE QuietStep
  BY <1>6, StutterIsQuiet DEF TimestampAges, enforcementVars, loopVars
<1>7. ASSUME NEW n \in Nodes, CooldownElapses(n) PROVE QuietStep
  BY <1>7 DEF CooldownElapses, QuietStep, loopVars
<1> QED BY <1>1, <1>2, <1>3, <1>4, <1>5, <1>6, <1>7 DEF Environment

\* Every step is enforcement's, a reset or quiet.
LEMMA StepKinds ==
  ASSUME [Next]_vars
  PROVE  EnforceStep \/ ResetStep \/ QuietStep
<1>1. CASE User
  BY <1>1, UserResets
<1>2. CASE ReconcileStep
  <2>1. CASE ReconcileQuery
    BY <2>1, StutterIsQuiet DEF ReconcileQuery, enforcementVars, nodeVars
  <2>2. ASSUME NEW n \in Nodes, ReconcileSkip(n) PROVE QuietStep
    BY <2>2, StutterIsQuiet DEF ReconcileSkip, enforcementVars
  <2>3. ASSUME NEW n \in Nodes, ReconcileApply(n) PROVE QuietStep
    BY <2>3, StutterIsQuiet DEF ReconcileApply, enforcementVars
  <2> QED BY <1>2, <2>1, <2>2, <2>3 DEF ReconcileStep, ReconcileNode
<1>3. CASE CheckStuckNodes
  BY <1>3, StutterIsQuiet
  DEF CheckStuckNodes, CheckStuckStopping, CheckStuckStarting, enforcementVars, loopVars
<1>4. CASE Environment
  BY <1>4, EnvironmentIsQuiet
<1>5. ASSUME NEW j \in Slots, JobStep(j) \/ JobFailure(j) PROVE ResetStep \/ QuietStep
  BY <1>5, JobResets
<1>6. ASSUME NEW j \in Slots, CheckStuckJob(j) PROVE QuietStep
  BY <1>6, StutterIsQuiet DEF CheckStuckJob, enforcementVars, nodeVars, loopVars
<1>7. ASSUME NEW j \in Slots, NEW n \in Nodes, AgentStep(j, n) \/ AgentFailure(j, n)
      PROVE  QuietStep
  BY <1>7, StutterIsQuiet
  DEF AgentStep, AgentFailure, AgentCreates, AgentStops, CallLost, AgentRefuses,
      AgentStartFails, enforcementVars, nodeVars, loopVars
<1>8. CASE UNCHANGED vars
  BY <1>8, StutterIsQuiet DEF vars, enforcementVars, nodeVars, loopVars
<1> QED BY <1>1, <1>2, <1>3, <1>4, <1>5, <1>6, <1>7, <1>8 DEF Next

-----------------------------------------------------------------------------
(* The retry budget *)

EnforcementType ==
  /\ attempts \in [Nodes -> Nat] /\ failed \in [Nodes -> BOOLEAN]
  /\ cooling \in [Nodes -> BOOLEAN] /\ EnfTypeOK

\* The counter read for a node is within budget, and no reset since has made
\* the node's own exceed it; a marked node had none of its budget used.
SeenSound(n) ==
  /\ enf.seen[n].attempts < MaxRetries
  /\ attempts[n] <= enf.seen[n].attempts
  /\ failed[n] => enf.seen[n].attempts = 0

\* What the scan has read of the nodes it selected, and of those it has yet to
\* look at, is sound.
SeenWithinBudget ==
  /\ enf.todo \cap enf.nodes = {}
  /\ \A n \in enf.nodes : SeenSound(n)
  /\ \A n \in enf.todo : /\ enf.seen[n].verdict = "try" => SeenSound(n)
                         /\ enf.seen[n].verdict = "mark" => attempts[n] \in {0, MaxRetries}

\* The inductive invariant: the budget can only be kept if every node selected
\* by a scan is still within it when its batch is created.
IInv == EnforcementType /\ EnforcementBounded /\ BatchStillDue /\ SeenWithinBudget

\* A reset of the counters and marks of some nodes keeps the invariant.
LEMMA ResetKeepsIInv ==
  ASSUME IInv, ResetStep
  PROVE  IInv'
<1>1. PICK S, T : attempts' = Put(attempts, S, 0) /\ failed' = Put(failed, T, FALSE)
  BY DEF ResetStep
<1>2. /\ attempts' = [n \in Nodes |-> IF n \in S THEN 0 ELSE attempts[n]]
      /\ failed' = [n \in Nodes |-> IF n \in T THEN FALSE ELSE failed[n]]
      /\ cooling' = cooling /\ enf' = enf
  BY <1>1 DEF Put, ResetStep
<1>3. EnforcementType'
  BY <1>2 DEF IInv, EnforcementType, EnfTypeOK
<1>4. EnforcementBounded'
  BY <1>2, ConstantsAssumption
  DEF IInv, EnforcementType, EnforcementBounded, ConstantsAssumption
<1>5. BatchStillDue'
  BY <1>2, ConstantsAssumption
  DEF IInv, EnforcementType, EnfTypeOK, BatchStillDue, ConstantsAssumption
<1>6. SeenWithinBudget'
  <2>1. \A n \in Nodes : SeenSound(n) => SeenSound(n)'
    BY <1>2 DEF IInv, EnforcementType, EnfTypeOK, SeenSound
  <2> QED BY <1>2, <2>1 DEF IInv, EnforcementType, EnfTypeOK, SeenWithinBudget
<1> QED BY <1>3, <1>4, <1>5, <1>6 DEF IInv

\* A quiet step keeps the invariant: at most the monitor forgets its batch.
LEMMA QuietKeepsIInv ==
  ASSUME IInv, QuietStep
  PROVE  IInv'
<1>1. attempts' = attempts /\ failed' = failed /\ enf' \in {enf, IdleEnf}
  BY DEF QuietStep
<1>2. /\ cooling' \in [Nodes -> BOOLEAN]
      /\ \A n \in Nodes : ~cooling[n] => ~cooling'[n]
  BY DEF QuietStep, IInv, EnforcementType
<1>3. EnforcementType'
  <2>1. EnfTypeOK /\ IdleEnf \in [pc : {"idle", "filter", "batch"}, todo : SUBSET Nodes,
                     nodes : SUBSET Nodes, busy : SUBSET Nodes, wide : BOOLEAN,
                     seen : [Nodes -> [verdict : {"none", "mark", "try"}, attempts : Nat]]]
    BY DEF IInv, EnforcementType, IdleEnf, Unread
  <2>2. EnfTypeOK'
    BY <1>1, <2>1 DEF EnfTypeOK
  <2> QED BY <1>1, <1>2, <2>2 DEF IInv, EnforcementType
<1>4. EnforcementBounded'
  BY <1>1 DEF IInv, EnforcementBounded
<1>5. BatchStillDue' /\ SeenWithinBudget'
  BY <1>1, <1>2
  DEF IInv, EnforcementType, EnfTypeOK, BatchStillDue, SeenWithinBudget, SeenSound, IdleEnf
<1> QED BY <1>3, <1>4, <1>5 DEF IInv

\* A row as it is now, within budget, is sound.
LEMMA RowSound ==
  ASSUME IInv, NEW n \in Nodes
  PROVE  /\ Row(n) \in [verdict : {"none", "mark", "try"}, attempts : Nat]
         /\ Row(n).attempts = attempts[n]
         /\ Row(n).verdict = "mark" => attempts[n] = MaxRetries
         /\ Row(n).verdict = "try" => /\ attempts[n] < MaxRetries
                                      /\ failed[n] => attempts[n] = 0
<1>1. /\ attempts[n] \in Nat /\ failed[n] \in BOOLEAN /\ attempts[n] <= MaxRetries
      /\ failed[n] => attempts[n] \in {0, MaxRetries}
  BY DEF IInv, EnforcementType, EnforcementBounded
<1>2. Exhausted(n) <=> attempts[n] >= MaxRetries
  BY DEF Exhausted
<1> QED BY <1>1, <1>2, ConstantsAssumption DEF Row, ConstantsAssumption

\* The scan reads the rows as they are.
LEMMA ScanKeepsIInv ==
  ASSUME IInv, EnforceScan
  PROVE  IInv'
<1> DEFINE Due == {n \in Nodes : Mismatched(n)}
           seen == [n \in Nodes |-> IF n \in Due THEN Row(n) ELSE Unread]
<1>1. /\ attempts' = attempts /\ failed' = failed /\ cooling' = cooling
      /\ enf' = [IdleEnf EXCEPT !.pc = "filter", !.todo = Due, !.wide = LabWideJob,
                                !.busy = {n \in Due : NodeJob(n)}, !.seen = seen]
  BY DEF EnforceScan, nodeVars
<1>2. Due \subseteq Nodes /\ seen \in [Nodes -> [verdict : {"none", "mark", "try"}, attempts : Nat]]
  BY RowSound DEF Unread
<1>3. LabWideJob \in BOOLEAN
  BY DEF LabWideJob
<1> HIDE DEF Due
<1>4. EnforcementType'
  BY <1>1, <1>2, <1>3 DEF IInv, EnforcementType, EnfTypeOK, IdleEnf
<1>5. EnforcementBounded' /\ BatchStillDue'
  BY <1>1 DEF IInv, EnforcementBounded, BatchStillDue, IdleEnf
<1>6. enf'.todo = Due /\ enf'.nodes = {} /\ \A n \in Due : enf'.seen[n] = Row(n)
  BY <1>1, <1>2 DEF IdleEnf
<1>7. \A n \in Due : n \in Nodes /\ attempts[n] \in Nat
  BY <1>2 DEF IInv, EnforcementType
<1>8. SeenWithinBudget'
  BY <1>1, <1>6, <1>7, RowSound DEF SeenWithinBudget, SeenSound
<1> QED BY <1>4, <1>5, <1>8 DEF IInv

\* What is left of a scan when a node's turn is over.
LEMMA FilteredFacts ==
  ASSUME EnfTypeOK, NEW n \in enf.todo, NEW N \in SUBSET Nodes,
         NEW row \in [verdict : {"none", "mark", "try"}, attempts : Nat],
         Filtered(n, N, row)
  PROVE  /\ EnfTypeOK'
         /\ enf'.todo \subseteq enf.todo \ {n} /\ enf'.nodes \subseteq N
         /\ n \in enf'.nodes => enf'.seen[n] = row
         /\ \A m \in (enf'.nodes \cup enf'.todo) \ {n} : enf'.seen[m] = enf.seen[m]
<1>1. CASE enf' = IdleEnf
  BY <1>1 DEF EnfTypeOK, IdleEnf, Unread
<1>2. CASE enf' = [enf EXCEPT !.todo = @ \ {n}, !.nodes = N, !.seen[n] = row]
  BY <1>2 DEF EnfTypeOK
<1>3. CASE enf' = [enf EXCEPT !.pc = "batch", !.todo = {}, !.nodes = N, !.busy = {}, !.seen[n] = row]
  BY <1>3 DEF EnfTypeOK
<1> QED BY <1>1, <1>2, <1>3 DEF Filtered

\* A node's turn in the scan selects it only within budget and marks it only if
\* the budget is used up, or was when the row was read.
LEMMA FilterKeepsIInv ==
  ASSUME IInv, NEW n \in Nodes, EnforceFilter(n)
  PROVE  IInv'
<1>1. PICK row \in {enf.seen[n], Row(n)} :
        \/ /\ row.verdict = "mark"
           /\ failed' = [failed EXCEPT ![n] = TRUE]
           /\ cooling' = [cooling EXCEPT ![n] = TRUE]
           /\ Filtered(n, enf.nodes, Unread)
        \/ /\ row.verdict = "try" /\ Selectable(n)
           /\ Filtered(n, enf.nodes \cup {n}, row)
           /\ UNCHANGED <<failed, cooling>>
        \/ /\ Filtered(n, enf.nodes, Unread)
           /\ UNCHANGED <<failed, cooling>>
  BY DEF EnforceFilter
<1>2. n \in enf.todo /\ attempts' = attempts
  BY DEF EnforceFilter
<1>3. /\ EnfTypeOK /\ enf.nodes \in SUBSET Nodes /\ enf.todo \in SUBSET Nodes
      /\ n \notin enf.nodes
      /\ Unread \in [verdict : {"none", "mark", "try"}, attempts : Nat]
  BY <1>2 DEF IInv, EnforcementType, EnfTypeOK, SeenWithinBudget, Unread
<1>4. /\ row \in [verdict : {"none", "mark", "try"}, attempts : Nat]
      /\ row.verdict = "mark" => attempts[n] \in {0, MaxRetries}
      /\ row.verdict = "try" => /\ row.attempts < MaxRetries /\ attempts[n] <= row.attempts
                                /\ failed[n] => row.attempts = 0
  <2>1. CASE row = enf.seen[n]
    BY <1>2, <2>1 DEF IInv, EnforcementType, EnfTypeOK, SeenWithinBudget, SeenSound
  <2>2. CASE row = Row(n)
    <3>1. attempts[n] \in Nat
      BY DEF IInv, EnforcementType
    <3> QED BY <2>2, <3>1, RowSound
  <2> QED BY <2>1, <2>2
<1>5. CASE /\ row.verdict = "mark"
           /\ failed' = [failed EXCEPT ![n] = TRUE]
           /\ cooling' = [cooling EXCEPT ![n] = TRUE]
           /\ Filtered(n, enf.nodes, Unread)
  <2>1. /\ EnfTypeOK'
        /\ enf'.todo \subseteq enf.todo \ {n} /\ enf'.nodes \subseteq enf.nodes
        /\ \A m \in enf'.nodes \cup enf'.todo : enf'.seen[m] = enf.seen[m]
    BY <1>2, <1>3, <1>5, FilteredFacts, ZenonT(60)
  <2>2. EnforcementType'
    BY <1>2, <1>5, <2>1 DEF IInv, EnforcementType
  <2>3. EnforcementBounded'
    BY <1>2, <1>4, <1>5 DEF IInv, EnforcementType, EnforcementBounded
  <2>4. \A m \in (enf'.nodes \cup enf'.todo) : /\ m # n /\ m \in Nodes /\ failed'[m] = failed[m]
                                               /\ cooling'[m] = cooling[m]
    BY <1>3, <1>5, <2>1 DEF IInv, EnforcementType
  <2>5. BatchStillDue'
    BY <1>2, <2>1, <2>4 DEF IInv, BatchStillDue
  <2>6. SeenWithinBudget'
    BY <1>2, <2>1, <2>4 DEF IInv, SeenWithinBudget, SeenSound
  <2> QED BY <2>2, <2>3, <2>5, <2>6 DEF IInv
<1>6. CASE /\ row.verdict = "try" /\ Selectable(n)
           /\ Filtered(n, enf.nodes \cup {n}, row)
           /\ UNCHANGED <<failed, cooling>>
  <2>1. /\ EnfTypeOK'
        /\ enf'.todo \subseteq enf.todo \ {n} /\ enf'.nodes \subseteq enf.nodes \cup {n}
        /\ n \in enf'.nodes => enf'.seen[n] = row
        /\ \A m \in (enf'.nodes \cup enf'.todo) \ {n} : enf'.seen[m] = enf.seen[m]
    BY <1>2, <1>3, <1>4, <1>6, FilteredFacts
  <2>2. EnforcementType' /\ EnforcementBounded'
    BY <1>2, <1>6, <2>1 DEF IInv, EnforcementType, EnforcementBounded
  <2>3. /\ attempts[n] \in Nat /\ attempts[n] < MaxRetries /\ ~cooling[n]
        /\ failed[n] => attempts[n] = 0
    BY <1>4, <1>6, ConstantsAssumption DEF IInv, EnforcementType, Selectable, ConstantsAssumption
  <2>4. BatchStillDue'
    BY <1>2, <1>6, <2>1, <2>3 DEF IInv, BatchStillDue
  <2>5. n \in enf'.nodes => SeenSound(n)'
    BY <1>2, <1>4, <1>6, <2>1 DEF SeenSound
  <2>6. \A m \in (enf'.nodes \cup enf'.todo) \ {n} : SeenSound(m) => SeenSound(m)'
    BY <1>2, <1>6, <2>1 DEF SeenSound
  <2>7. SeenWithinBudget'
    BY <1>2, <2>1, <2>5, <2>6 DEF IInv, SeenWithinBudget
  <2> QED BY <2>2, <2>4, <2>7 DEF IInv
<1>7. CASE /\ Filtered(n, enf.nodes, Unread)
           /\ UNCHANGED <<failed, cooling>>
  <2> HIDE <1>1
  <2>1. /\ EnfTypeOK'
        /\ enf'.todo \subseteq enf.todo \ {n} /\ enf'.nodes \subseteq enf.nodes
        /\ \A m \in (enf'.nodes \cup enf'.todo) \ {n} : enf'.seen[m] = enf.seen[m]
    BY <1>2, <1>3, <1>7, FilteredFacts
  <2>2. EnforcementType' /\ EnforcementBounded' /\ BatchStillDue'
    BY <1>2, <1>7, <2>1 DEF IInv, EnforcementType, EnforcementBounded, BatchStillDue
  <2>3. n \notin enf'.nodes \cup enf'.todo
    BY <1>3, <2>1
  <2>4. SeenWithinBudget'
    BY <1>2, <1>7, <2>1, <2>3 DEF IInv, SeenWithinBudget, SeenSound
  <2> QED BY <2>2, <2>4 DEF IInv
<1> QED BY <1>1, <1>5, <1>6, <1>7

\* Making the batch counts one attempt more than either reading shows for each
\* of its nodes; of those a marked one had used none.
LEMMA CreateCounts ==
  ASSUME IInv, EnforceCreate, NEW n \in enf.nodes
  PROVE  /\ n \in Nodes /\ attempts'[n] \in Nat
         /\ attempts'[n] > attempts[n] /\ attempts'[n] <= MaxRetries
         /\ failed[n] => attempts[n] = 0 /\ attempts'[n] = 1
<1>1. PICK base \in {[m \in Nodes |-> enf.seen[m].attempts], attempts} :
        attempts' = [m \in Nodes |-> IF m \in enf.nodes THEN base[m] + 1 ELSE attempts[m]]
  BY DEF EnforceCreate
<1>2. n \in Nodes /\ attempts'[n] = base[n] + 1
  BY <1>1 DEF IInv, EnforcementType, EnfTypeOK
<1>3. /\ enf.seen[n].attempts \in Nat /\ attempts[n] \in Nat
      /\ attempts[n] <= enf.seen[n].attempts /\ enf.seen[n].attempts < MaxRetries
      /\ failed[n] => enf.seen[n].attempts = 0
  BY <1>2 DEF IInv, EnforcementType, EnfTypeOK, SeenWithinBudget, SeenSound
<1>4. base[n] \in {enf.seen[n].attempts, attempts[n]}
  BY <1>1, <1>2
<1> QED BY <1>2, <1>3, <1>4, ConstantsAssumption DEF ConstantsAssumption

\* It clears the marks of the batch's nodes and leaves the other nodes alone.
LEMMA CreateFrame ==
  ASSUME IInv, EnforceCreate
  PROVE  /\ enf' = IdleEnf /\ enf.nodes \in SUBSET Nodes
         /\ attempts' = [n \in Nodes |-> IF n \in enf.nodes THEN attempts'[n] ELSE attempts[n]]
         /\ failed' = [n \in Nodes |-> IF n \in enf.nodes THEN FALSE ELSE failed[n]]
         /\ cooling' = [n \in Nodes |-> IF n \in enf.nodes THEN TRUE ELSE cooling[n]]
<1>1. PICK base \in {[m \in Nodes |-> enf.seen[m].attempts], attempts} :
        attempts' = [m \in Nodes |-> IF m \in enf.nodes THEN base[m] + 1 ELSE attempts[m]]
  BY DEF EnforceCreate
<1>2. enf.nodes \in SUBSET Nodes
  BY DEF IInv, EnforcementType, EnfTypeOK
<1>3. attempts' = [n \in Nodes |-> IF n \in enf.nodes THEN attempts'[n] ELSE attempts[n]]
  BY <1>1, <1>2
<1> QED BY <1>2, <1>3 DEF EnforceCreate, Put

\* A batch counts one attempt for each of its nodes and clears their marks.
LEMMA CreateKeepsIInv ==
  ASSUME IInv, EnforceCreate
  PROVE  IInv'
<1>1. \A n \in Nodes : attempts[n] \in Nat /\ cooling[n] \in BOOLEAN /\ failed[n] \in BOOLEAN
  BY DEF IInv, EnforcementType
<1>2. /\ enf' = IdleEnf /\ enf.nodes \in SUBSET Nodes
      /\ attempts' = [n \in Nodes |-> IF n \in enf.nodes THEN attempts'[n] ELSE attempts[n]]
      /\ failed' = [n \in Nodes |-> IF n \in enf.nodes THEN FALSE ELSE failed[n]]
      /\ cooling' = [n \in Nodes |-> IF n \in enf.nodes THEN TRUE ELSE cooling[n]]
  BY CreateFrame
<1>3. \A n \in enf.nodes : attempts'[n] \in Nat /\ attempts'[n] <= MaxRetries
  BY CreateCounts
<1>4. EnforcementType'
  <2>1. attempts' \in [Nodes -> Nat]
    BY <1>1, <1>2, <1>3
  <2>2. failed' \in [Nodes -> BOOLEAN] /\ cooling' \in [Nodes -> BOOLEAN]
    BY <1>1, <1>2
  <2>3. EnfTypeOK'
    BY <1>2 DEF EnfTypeOK, IdleEnf, Unread
  <2> QED BY <2>1, <2>2, <2>3 DEF EnforcementType
<1>5. EnforcementBounded'
  <2> SUFFICES ASSUME NEW n \in Nodes
               PROVE  /\ attempts'[n] <= MaxRetries
                      /\ failed'[n] => attempts'[n] \in {0, MaxRetries}
    BY DEF EnforcementBounded
  <2>1. CASE n \in enf.nodes
    BY <1>2, <1>3, <2>1
  <2>2. CASE n \notin enf.nodes
    <3>1. attempts'[n] = attempts[n] /\ failed'[n] = failed[n]
      BY <1>2, <2>2
    <3> QED BY <3>1 DEF IInv, EnforcementBounded
  <2> QED BY <2>1, <2>2
<1>6. BatchStillDue' /\ SeenWithinBudget'
  BY <1>2 DEF BatchStillDue, SeenWithinBudget, IdleEnf
<1> QED BY <1>4, <1>5, <1>6 DEF IInv

\* The invariant holds at the start: nobody has used any of the budget.
LEMMA InitIInv == Init => IInv
BY ConstantsAssumption
DEF Init, IInv, EnforcementType, EnfTypeOK, EnforcementBounded, BatchStillDue,
    SeenWithinBudget, IdleEnf, Unread, ConstantsAssumption

\* The strengthened invariant holds: one case per kind of step.
THEOREM IInvHolds == Spec => []IInv
<1>1. IInv /\ [Next]_vars => IInv'
  BY StepKinds, ScanKeepsIInv, FilterKeepsIInv, CreateKeepsIInv, ResetKeepsIInv, QuietKeepsIInv
  DEF EnforceStep
<1> QED BY InitIInv, <1>1, PTL DEF Spec

\* Enforcement never exceeds its retry budget, whatever the interleaving, the
\* faults and the restarts, and only gives up on nodes that have used it up.
THEOREM RetriesAreBounded == Spec => []EnforcementBounded
<1>1. IInv => EnforcementBounded
  BY DEF IInv
<1> QED BY IInvHolds, <1>1, PTL

\* What the scan selected is still due when its batch job is made.
THEOREM BatchesAreDue == Spec => []BatchStillDue
<1>1. IInv => BatchStillDue
  BY DEF IInv
<1> QED BY IInvHolds, <1>1, PTL

\* A mark is only taken away by a reset of the counter, by the first attempt
\* after one, a batch having no other marked nodes, or by a closing job that saw
\* a mark on a fresh budget.
THEOREM MarksClearWithCounters == Spec => FailedUntilReset
<1> DEFINE Fresh(n) ==
             n \in Unmarking \/ attempts'[n] = 0 \/ (attempts[n] = 0 /\ attempts'[n] = 1)
<1>1. ASSUME IInv, [Next]_vars, NEW n \in Nodes, failed[n], ~failed'[n]
      PROVE  Fresh(n)
  <2>1. CASE EnforceScan
    BY <1>1, <2>1 DEF EnforceScan, nodeVars
  <2>2. ASSUME NEW m \in Nodes, EnforceFilter(m) PROVE FALSE
    <3>1. failed' = failed \/ failed' = [failed EXCEPT ![m] = TRUE]
      BY <2>2 DEF EnforceFilter
    <3> QED BY <1>1, <3>1 DEF IInv, EnforcementType
  <2>3. CASE EnforceCreate
    <3>1. failed' = [m \in Nodes |-> IF m \in enf.nodes THEN FALSE ELSE failed[m]]
      BY <1>1, <2>3, CreateFrame
    <3>2. n \in enf.nodes
      BY <1>1, <3>1
    <3> QED BY <1>1, <2>3, <3>2, CreateCounts
  <2>4. CASE ResetStep
    <3>1. PICK S, T : /\ T \subseteq S \cup Unmarking
                      /\ attempts' = Put(attempts, S, 0) /\ failed' = Put(failed, T, FALSE)
      BY <2>4 DEF ResetStep
    <3>2. n \in T
      BY <1>1, <3>1 DEF Put
    <3> QED BY <3>1, <3>2 DEF Put
  <2>5. CASE QuietStep
    BY <1>1, <2>5 DEF QuietStep
  <2> QED BY <1>1, <2>1, <2>2, <2>3, <2>4, <2>5, StepKinds DEF EnforceStep
<1>2. IInv /\ [Next]_vars
      => [\A n \in Nodes : failed[n] /\ ~failed'[n]
            => n \in Unmarking \/ attempts'[n] = 0 \/ (attempts[n] = 0 /\ attempts'[n] = 1)]_vars
  BY <1>1
<1> QED BY IInvHolds, <1>2, PTL DEF Spec, FailedUntilReset

-----------------------------------------------------------------------------
(* The control loop implements the retry budget *)

\* No job defers writes it has not deferred before.
DirtyKept == \A k \in Slots : job'[k].dirty \in {job[k].dirty, FreeJob.dirty}

\* Then no mark is newly about to be taken away.
LEMMA KeptSeesFresh == DirtyKept => Budget!SeesFresh
<1> SUFFICES ASSUME DirtyKept PROVE Unmarking' \subseteq Unmarking
  BY DEF Budget!SeesFresh
<1>1. \A n \in Nodes : FreeJob.dirty[n] = {}
  BY DEF FreeJob
<1> QED BY <1>1 DEF DirtyKept, Unmarking

\* What closing jobs defer is a mark on a fresh budget.
LEMMA DefersSeesFresh ==
  ASSUME job \in [Slots -> Job], NEW j \in Slots, Defers(j)
  PROVE  Budget!SeesFresh
<1>1. PICK pc \in {"deployed", "placed", "close"}, rows \in [Nodes -> SUBSET Columns] :
        /\ Moves(j, pc, rows)
        /\ \A n \in Nodes : "mark" \in rows[n] /\ "count" \notin rows[n]
                            => failed'[n] /\ attempts'[n] = 0
  BY DEF Defers
<1>2. job'[j].dirty = rows /\ \A k \in Slots \ {j} : job'[k] = job[k]
  BY <1>1 DEF Job, Moves
<1> QED BY <1>1, <1>2 DEF Budget!SeesFresh, Unmarking

\* A step that changes one slot.
LEMMA OneSlotKeeps ==
  ASSUME job \in [Slots -> Job], NEW j \in Slots, NEW new, job' = [job EXCEPT ![j] = new],
         new.dirty \in {job[j].dirty, FreeJob.dirty}
  PROVE  DirtyKept
BY DEF DirtyKept

\* A new job has nothing to write.
LEMMA SpawnKeeps ==
  ASSUME job \in [Slots -> Job], NEW kind, NEW ids, Spawn(kind, ids)
  PROVE  DirtyKept
<1>1. NewJob(kind, ids, ids, 0).dirty = FreeJob.dirty
  BY DEF NewJob, FreeJob
<1> QED BY <1>1, OneSlotKeeps DEF Spawn, DirtyKept

\* The agent's answer is no write.
LEMMA AnswerKeeps ==
  ASSUME job \in [Slots -> Job], NEW j \in Slots, NEW n, NEW c, Answer(j, n, c)
  PROVE  DirtyKept
<1>1. job[j] \in Job
  OBVIOUS
<1>2. job' = [job EXCEPT ![j] = [job[j] EXCEPT !.call = [job[j].call EXCEPT ![n] = c]]]
  BY DEF Answer
<1>3. [job[j] EXCEPT !.call = [job[j].call EXCEPT ![n] = c]].dirty = job[j].dirty
  BY <1>1 DEF Job
<1> QED BY <1>2, <1>3, OneSlotKeeps

\* Nothing but closing a job defers writes.
LEMMA JobSeesFresh ==
  ASSUME TypeOK, NEW j \in Slots, JobStep(j) \/ JobFailure(j)
  PROVE  Budget!SeesFresh
<1>1. job \in [Slots -> Job] /\ job[j] \in Job
  BY DEF TypeOK
<1>2. ASSUME Finish(j) PROVE DirtyKept
  BY <1>1, <1>2, OneSlotKeeps DEF Finish
<1>3. ASSUME NEW pc, Step(j, pc) PROVE DirtyKept
  <2>1. [job[j] EXCEPT !.pc = pc].dirty = job[j].dirty
    BY <1>1 DEF Job
  <2> QED BY <1>1, <1>3, <2>1, OneSlotKeeps DEF Step
<1>4. CASE LoadAndValidate(j) \/ SetTransitionalStates(j) \/ PostOperation(j)
  BY <1>2, <1>3, <1>4, KeptSeesFresh DEF LoadAndValidate, SetTransitionalStates, PostOperation
<1>5. CASE ResolveAgents(j)
  <2> DEFINE new == [job[j] EXCEPT !.pc = "sort", !.st = "running"]
  <2>1. Finish(j) \/ job' = [job EXCEPT ![j] = new]
    BY <1>5 DEF ResolveAgents
  <2>2. new.dirty = job[j].dirty
    BY <1>1 DEF Job
  <2> HIDE DEF new
  <2> QED BY <1>1, <1>2, <2>1, <2>2, OneSlotKeeps, KeptSeesFresh
<1>6. CASE CategorizeNodes(j)
  <2>1. PICK todo : job' = [job EXCEPT ![j] = [job[j] EXCEPT !.pc = "phases", !.todo = todo]]
    BY <1>6 DEF CategorizeNodes
  <2>2. [job[j] EXCEPT !.pc = "phases", !.todo = todo].dirty = job[j].dirty
    BY <1>1 DEF Job
  <2> QED BY <1>1, <2>1, <2>2, OneSlotKeeps, KeptSeesFresh
<1>7. ASSUME NEW phase \in Phases, BeginPhase(j, phase) PROVE Budget!SeesFresh
  <2>1. PICK todo, tries, call :
          job' = [job EXCEPT ![j] = [job[j] EXCEPT !.todo = todo, !.tries = tries, !.call = call]]
    BY <1>7 DEF BeginPhase
  <2>2. [job[j] EXCEPT !.todo = todo, !.tries = tries, !.call = call].dirty = job[j].dirty
    BY <1>1 DEF Job
  <2> QED BY <1>1, <2>1, <2>2, OneSlotKeeps, KeptSeesFresh
<1>8. ASSUME NEW n \in Nodes, CreateResult(j, n) \/ StopResult(j, n) PROVE Budget!SeesFresh
  BY <1>1, <1>8, AnswerKeeps, KeptSeesFresh DEF CreateResult, StopResult
<1>9. ASSUME NEW n \in Nodes, CreateUnavailable(j, n) PROVE Budget!SeesFresh
  <2>1. PICK call, tries :
          job' \in {[job EXCEPT ![j] = [job[j] EXCEPT !.call = call, !.tries = tries]],
                    [job EXCEPT ![j] = [job[j] EXCEPT !.call = call]]}
    <3>1. CASE job[j].tries[n] + 1 < DeployAttempts
      <4> DEFINE call == [job[j].call EXCEPT ![n] = "create"]
                 tries == [job[j].tries EXCEPT ![n] = @ + 1]
      <4>1. job' = [job EXCEPT ![j] = [job[j] EXCEPT !.call = call, !.tries = tries]]
        BY <1>9, <3>1 DEF CreateUnavailable
      <4> HIDE DEF call, tries
      <4> QED BY <4>1
    <3>2. CASE ~(job[j].tries[n] + 1 < DeployAttempts)
      <4> DEFINE call == [job[j].call EXCEPT ![n] = "idle"]
      <4>1. job' = [job EXCEPT ![j] = [job[j] EXCEPT !.call = call]]
        BY <1>9, <3>2 DEF CreateUnavailable
      <4> HIDE DEF call
      <4> QED BY <4>1
    <3> QED BY <3>1, <3>2
  <2>2. /\ [job[j] EXCEPT !.call = call, !.tries = tries].dirty = job[j].dirty
        /\ [job[j] EXCEPT !.call = call].dirty = job[j].dirty
    BY <1>1 DEF Job
  <2> QED BY <1>1, <2>1, <2>2, OneSlotKeeps, KeptSeesFresh
<1>10. CASE Settle(j) \/ PlaceDeployed(j) \/ Place(j)
  BY <1>1, <1>10, SettleDefers, PlaceDefers, DefersSeesFresh
<1>11. CASE Finalize(j) \/ FailPreflight(j) \/ FailResources(j)
  BY <1>2, <1>11, KeptSeesFresh DEF Finalize, FailPreflight, FailResources
<1> QED BY <1>4, <1>5, <1>6, <1>7, <1>8, <1>9, <1>10, <1>11 DEF JobStep, JobFailure

\* A job that is ended or retried has nothing more to write.
LEMMA StuckKeeps ==
  ASSUME TypeOK, NEW j \in Slots, CheckStuckJob(j)
  PROVE  DirtyKept
<1> DEFINE ended == IF At(j, "none") THEN FreeJob ELSE [job[j] EXCEPT !.st = "over"]
           retried == NewJob(job[j].kind, job[j].ids,
                             IF job[j].kind = "node" THEN job[j].ids ELSE Nodes,
                             job[j].retry + 1)
<1>1. job \in [Slots -> Job] /\ job[j] \in Job
  BY DEF TypeOK
<1>2. ended.dirty \in {job[j].dirty, FreeJob.dirty} /\ retried.dirty = FreeJob.dirty
  BY <1>1 DEF Job, NewJob, FreeJob
<1>3. \/ job' = [job EXCEPT ![j] = ended]
      \/ \E k \in Slots : job' = [job EXCEPT ![j] = ended, ![k] = retried]
  BY DEF CheckStuckJob
<1> HIDE DEF ended, retried
<1> QED BY <1>1, <1>2, <1>3 DEF DirtyKept

\* Every step that newly reads a mark to be taken away alone reads it on a fresh
\* budget.
LEMMA StepSeesFresh ==
  ASSUME TypeOK, [Next]_vars
  PROVE  Budget!SeesFresh
<1>1. job \in [Slots -> Job]
  BY DEF TypeOK
<1>2. ASSUME job' = job PROVE DirtyKept
  BY <1>2 DEF DirtyKept
<1>3. CASE User
  <2>1. ASSUME NEW n \in Nodes, StartNode(n) PROVE \E ids : Spawn("node", ids)
    BY <2>1 DEF StartNode
  <2>2. ASSUME NEW n \in Nodes, StopNode(n) PROVE \E ids : Spawn("node", ids)
    BY <2>2 DEF StopNode
  <2>3. ASSUME StartAll PROVE \E ids : Spawn("lab", ids)
    BY <2>3 DEF StartAll
  <2>4. ASSUME StopAll PROVE \E ids : Spawn("lab", ids)
    BY <2>4 DEF StopAll
  <2>5. ASSUME ListNodeStates PROVE job' = job
    BY <2>5 DEF ListNodeStates
  <2> QED BY <1>1, <1>2, <1>3, <2>1, <2>2, <2>3, <2>4, <2>5, SpawnKeeps, KeptSeesFresh DEF User
<1>4. CASE EnforceStep
  <2>1. job' = job \/ Spawn("batch", enf.nodes)
    BY <1>4 DEF EnforceStep, EnforceScan, EnforceFilter, EnforceCreate
  <2> QED BY <1>1, <1>2, <2>1, SpawnKeeps, KeptSeesFresh
<1>5. CASE ReconcileStep \/ CheckStuckNodes \/ UNCHANGED vars
  <2>1. job' = job
    BY <1>5
    DEF ReconcileStep, ReconcileQuery, ReconcileNode, ReconcileSkip, ReconcileApply,
        CheckStuckNodes, CheckStuckStopping, CheckStuckStarting, vars
  <2> QED BY <1>2, <2>1, KeptSeesFresh
<1>6. CASE Environment
  <2>1. ASSUME NEW Lost, LoseTasks(Lost) PROVE DirtyKept
    <3>1. \A k \in Slots :
            [FreeJob EXCEPT !.st = job[k].st, !.kind = job[k].kind, !.ids = job[k].ids,
                            !.nodes = job[k].nodes, !.retry = job[k].retry].dirty = FreeJob.dirty
      BY DEF FreeJob
    <3> QED BY <2>1, <3>1 DEF LoseTasks, DirtyKept
  <2>2. job' = job \/ \E Lost : LoseTasks(Lost)
    BY <1>6
    DEF Environment, AgentGoesDown, AgentComesBack, ApiRestarts, SchedulerRestarts,
        ContainerCrashes, LoseNodeEvent, ReceiveNodeEvent, TimestampAges, CooldownElapses
  <2> QED BY <1>2, <2>1, <2>2, KeptSeesFresh
<1>7. ASSUME NEW j \in Slots, NEW n \in Nodes, AgentStep(j, n) \/ AgentFailure(j, n)
      PROVE  Budget!SeesFresh
  <2>1. \E c : Answer(j, n, c)
    BY <1>7 DEF AgentStep, AgentFailure, AgentCreates, AgentStops, CallLost, AgentRefuses,
                AgentStartFails
  <2> QED BY <1>1, <2>1, AnswerKeeps, KeptSeesFresh
<1> QED BY <1>3, <1>4, <1>5, <1>6, <1>7, JobSeesFresh, StuckKeeps, KeptSeesFresh DEF Next

\* A step that moves no counter and no mark resets nothing in the abstract budget.
LEMMA SameIsReset ==
  ASSUME IInv, attempts' = attempts, failed' = failed
  PROVE  Budget!Reset({}, {})
BY DEF IInv, EnforcementType, Budget!Reset

\* A node's turn in the scan is giving up on it in the abstract budget, or
\* moves nothing there.
LEMMA FilterGivesUp ==
  ASSUME IInv, NEW n \in Nodes, EnforceFilter(n), Budget!SeesFresh
  PROVE  Budget!Next
<1>1. PICK row \in {enf.seen[n], Row(n)} :
        \/ row.verdict = "mark" /\ failed' = [failed EXCEPT ![n] = TRUE]
        \/ failed' = failed
  BY DEF EnforceFilter
<1>2. n \in enf.todo /\ attempts' = attempts
  BY DEF EnforceFilter
<1>3. CASE failed' = failed
  BY <1>2, <1>3, SameIsReset DEF Budget!Next
<1>4. CASE row.verdict = "mark" /\ failed' = [failed EXCEPT ![n] = TRUE]
  <2>1. attempts[n] \in {0, MaxRetries}
    BY <1>1, <1>2, <1>4, RowSound DEF IInv, SeenWithinBudget
  <2>2. failed' = [m \in Nodes |-> m \in {n} \/ failed[m]]
    BY <1>4 DEF IInv, EnforcementType
  <2>3. Budget!GiveUp({n})
    BY <1>2, <2>1, <2>2 DEF Budget!GiveUp
  <2> QED BY <2>3 DEF Budget!Next
<1> QED BY <1>1, <1>3, <1>4

\* Making the batch is an attempt on its nodes in the abstract budget.
LEMMA CreateAttempts ==
  ASSUME IInv, EnforceCreate, Budget!SeesFresh
  PROVE  Budget!Next
<1>1. failed' = [n \in Nodes |-> n \notin enf.nodes /\ failed[n]]
  BY CreateFrame DEF IInv, EnforcementType
<1>2. ASSUME NEW n \in enf.nodes
      PROVE  /\ attempts'[n] \in (attempts[n] + 1)..MaxRetries
             /\ failed[n] => attempts'[n] = 1
  <2>1. n \in Nodes /\ attempts[n] \in Nat
    BY CreateCounts DEF IInv, EnforcementType
  <2> QED BY <2>1, CreateCounts, ConstantsAssumption DEF ConstantsAssumption
<1>3. attempts' = [n \in Nodes |-> IF n \in enf.nodes THEN attempts'[n] ELSE attempts[n]]
  BY CreateFrame
<1>4. Budget!Attempt(enf.nodes)
  BY <1>1, <1>2, <1>3 DEF Budget!Attempt
<1> QED BY <1>4, CreateFrame DEF Budget!Next

\* A reset of the control loop is a reset of the abstract budget.
LEMMA ResetResets ==
  ASSUME IInv, ResetStep, Budget!SeesFresh
  PROVE  Budget!Next
<1>1. PICK S, T : /\ S \subseteq Nodes /\ T \subseteq S \cup Unmarking
                  /\ attempts' = Put(attempts, S, 0) /\ failed' = Put(failed, T, FALSE)
  BY DEF ResetStep
<1>2. /\ attempts' = [n \in Nodes |-> IF n \in S THEN 0 ELSE attempts[n]]
      /\ failed' = [n \in Nodes |-> n \notin T /\ failed[n]]
  BY <1>1 DEF Put, IInv, EnforcementType
<1>3. Budget!Reset(S, T)
  BY <1>2 DEF Budget!Reset
<1> QED BY <1>1, <1>3 DEF Budget!Next

\* NodeLifecycle implements EnforcementBudget: each step is an attempt, giving
\* up, or a reset, which may reset nothing.
THEOREM ImplementsBudget == Spec => BudgetSpec
<1>1. Init => Budget!Init
  <2>1. Init => Unmarking = {}
    BY DEF Init, Unmarking, FreeJob
  <2> QED BY <2>1 DEF Init, Budget!Init
<1>2. IInv /\ TypeOK /\ [Next]_vars => [Budget!Next]_(Budget!budget)
  <2> SUFFICES ASSUME IInv, TypeOK, [Next]_vars PROVE Budget!Next
    OBVIOUS
  <2>1. Budget!SeesFresh
    BY StepSeesFresh
  <2>2. CASE QuietStep \/ EnforceScan
    <3>1. attempts' = attempts /\ failed' = failed
      BY <2>2 DEF QuietStep, EnforceScan, nodeVars
    <3>2. Budget!Reset({}, {})
      BY <2>2, <3>1, SameIsReset
    <3> QED BY <2>1, <3>2 DEF Budget!Next
  <2> QED BY <2>1, <2>2, StepKinds, FilterGivesUp, CreateAttempts, ResetResets DEF EnforceStep
<1> QED BY IInvHolds, TypeCorrect, <1>1, <1>2, PTL DEF Spec, BudgetSpec, Budget!Spec

-----------------------------------------------------------------------------
(* One batch job *)

BatchJob(j) == Active(j) /\ job[j].kind = "batch"

\* A job whose task runs is active, and while enforcement has a batch in hand
\* the lab has no batch job: nobody but enforcement makes one.
BatchInv ==
  spent.timeout = 0 =>
    /\ \A j \in Slots : ~At(j, "none") => Active(j)
    /\ OneBatchJob
    /\ enf.pc = "batch" \/ (enf.pc = "filter" /\ ~enf.wide) => ~LabWideJob

\* A step that makes no batch job: a job that is a batch job after it was one
\* before, a task that runs after it serves an active job, and the monitor at
\* most forgets its scan.
NoNewBatch ==
  /\ \A k \in Slots : /\ BatchJob(k)' => BatchJob(k)
                      /\ ~At(k, "none")' => Active(k)'
  /\ enf' \in {enf, IdleEnf}
  /\ spent'.timeout = 0 => spent.timeout = 0

\* It keeps the invariant.
LEMMA NoNewBatchKeeps ==
  ASSUME BatchInv, spent.timeout = 0 => NoNewBatch,
         spent'.timeout = 0 => spent.timeout = 0
  PROVE  BatchInv'
<1> SUFFICES ASSUME spent'.timeout = 0
             PROVE  /\ \A j \in Slots : ~At(j, "none")' => Active(j)'
                    /\ OneBatchJob'
                    /\ enf'.pc = "batch" \/ (enf'.pc = "filter" /\ ~enf'.wide) => ~LabWideJob'
  BY DEF BatchInv
<1>1. NoNewBatch /\ spent.timeout = 0
  OBVIOUS
<1>2. \A k \in Slots : BatchJob(k)' => BatchJob(k)
  BY <1>1 DEF NoNewBatch
<1>3. OneBatchJob'
  BY <1>1, <1>2 DEF BatchInv, OneBatchJob, BatchJob
<1>4. LabWideJob' => LabWideJob
  BY <1>2 DEF LabWideJob, BatchJob
<1>5. enf'.pc = "batch" \/ (enf'.pc = "filter" /\ ~enf'.wide) => ~LabWideJob'
  BY <1>1, <1>4 DEF NoNewBatch, BatchInv, IdleEnf
<1> QED BY <1>1, <1>3, <1>5 DEF NoNewBatch

\* What a step does to one slot: nothing, or the slot is freed, or its job stays
\* of its kind, active if it was and with a task only while active.
LEMMA OneSlotChanges ==
  ASSUME BatchInv, spent.timeout = 0, job \in [Slots -> Job], NEW j \in Slots, NEW new \in Job,
         job' = [job EXCEPT ![j] = new],
         new.st \in {"queued", "running"} /\ new.kind = "batch" => BatchJob(j),
         new.pc # "none" => new.st \in {"queued", "running"},
         enf' = enf, spent'.timeout = spent.timeout
  PROVE  NoNewBatch
<1>1. job'[j] = new /\ \A k \in Slots \ {j} : job'[k] = job[k]
  OBVIOUS
<1> QED BY <1>1 DEF NoNewBatch, BatchInv, BatchJob, Active, At

\* A step that frees or leaves all slots.
LEMMA FinishNoBatch ==
  ASSUME BatchInv, spent.timeout = 0, job \in [Slots -> Job], NEW j \in Slots,
         Finish(j) \/ UNCHANGED job, enf' = enf, spent'.timeout = spent.timeout
  PROVE  NoNewBatch
BY FreeJobType, OneSlotChanges DEF Finish, FreeJob, NoNewBatch, BatchInv, BatchJob, Active, At

\* A user's job is no batch job.
LEMMA SpawnNoBatch ==
  ASSUME BatchInv, spent.timeout = 0, job \in [Slots -> Job], NEW kind \in {"node", "lab"},
         NEW ids \in SUBSET Nodes, Spawn(kind, ids), enf' = enf, spent'.timeout = spent.timeout
  PROVE  NoNewBatch
<1>1. CASE job' = job
  BY <1>1 DEF NoNewBatch, BatchInv, BatchJob, Active, At
<1>2. ASSUME NEW j \in Slots, job' = [job EXCEPT ![j] = NewJob(kind, ids, ids, 0)]
      PROVE  NoNewBatch
  <2>1. NewJob(kind, ids, ids, 0) \in Job
    BY NewJobType, ConstantsAssumption DEF ConstantsAssumption
  <2>2. NewJob(kind, ids, ids, 0).kind = kind /\ NewJob(kind, ids, ids, 0).st = "queued"
    BY DEF NewJob, FreeJob
  <2> QED BY <1>2, <2>1, <2>2, OneSlotChanges
<1> QED BY <1>1, <1>2 DEF Spawn

\* Counting a fault or an outage moves no timeout.
LEMMA FaultNoTimeout ==
  ASSUME SpentTypeOK, Fault \/ Outage \/ UserCommand \/ Restart \/ UNCHANGED spent
  PROVE  spent'.timeout = spent.timeout
BY DEF SpentTypeOK, Fault, Outage, UserCommand, Restart

\* No user command makes a batch job.
LEMMA UserNoBatch ==
  ASSUME TypeOK, BatchInv, spent.timeout = 0, User
  PROVE  NoNewBatch
<1>1. /\ job \in [Slots -> Job] /\ SpentTypeOK
  BY DEF TypeOK
<1>2. enf' = enf /\ spent'.timeout = spent.timeout
  BY <1>1, FaultNoTimeout
  DEF User, StartNode, StopNode, StartAll, StopAll, ListNodeStates, loopVars
<1>3. ASSUME NEW n \in Nodes, StartNode(n) PROVE NoNewBatch
  <2>1. \E ids \in SUBSET Nodes : Spawn("node", ids)
    BY <1>3 DEF StartNode
  <2> QED BY <1>1, <1>2, <2>1, SpawnNoBatch
<1>4. ASSUME NEW n \in Nodes, StopNode(n) PROVE NoNewBatch
  <2>1. \E ids \in SUBSET Nodes : Spawn("node", ids)
    BY <1>4 DEF StopNode
  <2> QED BY <1>1, <1>2, <2>1, SpawnNoBatch
<1>5. CASE StartAll
  <2>1. \E ids \in SUBSET Nodes : Spawn("lab", ids)
    BY <1>5 DEF StartAll
  <2> QED BY <1>1, <1>2, <2>1, SpawnNoBatch
<1>6. CASE StopAll
  <2>1. \E ids \in SUBSET Nodes : Spawn("lab", ids)
    BY <1>6 DEF StopAll
  <2> QED BY <1>1, <1>2, <2>1, SpawnNoBatch
<1>7. CASE ListNodeStates
  BY <1>7, <1>2 DEF ListNodeStates, NoNewBatch, BatchInv, BatchJob, Active, At
<1> QED BY <1>3, <1>4, <1>5, <1>6, <1>7 DEF User

\* Moving a job on, or one of its calls, makes no batch job: a task that runs
\* serves an active job, so the status it sets was active before.
LEMMA MoveNoBatch ==
  ASSUME BatchInv, spent.timeout = 0, job \in [Slots -> Job], job' \in [Slots -> Job],
         NEW j \in Slots, job' = [job EXCEPT ![j] = job'[j]], job'[j].kind = job[j].kind,
         job'[j].st = job[j].st \/ (job'[j].st = "running" /\ ~At(j, "none")),
         At(j, "none")' \/ ~At(j, "none"), enf' = enf, spent'.timeout = spent.timeout
  PROVE  NoNewBatch
<1>1. job'[j] \in Job
  OBVIOUS
<1>2. ~At(j, "none") => Active(j)
  BY DEF BatchInv
<1>3. /\ job'[j].st \in {"queued", "running"} /\ job'[j].kind = "batch" => BatchJob(j)
      /\ job'[j].pc # "none" => job'[j].st \in {"queued", "running"}
  BY <1>2 DEF BatchJob, Active, At
<1> QED BY <1>1, <1>3, OneSlotChanges

\* A step of a job's task makes no batch job.
LEMMA JobNoBatch ==
  ASSUME TypeOK, TypeOK', BatchInv, spent.timeout = 0, NEW j \in Slots, JobStep(j) \/ JobFailure(j)
  PROVE  NoNewBatch
<1>1. job \in [Slots -> Job] /\ job' \in [Slots -> Job] /\ SpentTypeOK /\ job[j] \in Job
  BY DEF TypeOK
<1>2. enf' = enf /\ spent'.timeout = spent.timeout
  BY <1>1, FaultNoTimeout
  DEF JobStep, JobFailure, LoadAndValidate, SetTransitionalStates, ResolveAgents,
      CategorizeNodes, PostOperation, Settle, PlaceDeployed, Place, CountErrors, Finalize,
      BeginPhase, CreateResult, CreateUnavailable, StopResult, FailPreflight, FailResources,
      loopVars
<1>3. ASSUME Finish(j) PROVE NoNewBatch
  BY <1>1, <1>2, <1>3, FinishNoBatch
<1>4. ASSUME NEW pc \in JobPc, ~At(j, "none"), Step(j, pc) PROVE NoNewBatch
  BY <1>1, <1>2, <1>4, MoveNoBatch DEF Step, Job
<1>5. ASSUME NEW n \in Nodes, NEW c \in Call, Answer(j, n, c) PROVE NoNewBatch
  BY <1>1, <1>2, <1>5, MoveNoBatch DEF Answer, Job, At
<1>6. CASE LoadAndValidate(j) \/ SetTransitionalStates(j) \/ PostOperation(j)
  BY <1>3, <1>4, <1>6 DEF LoadAndValidate, SetTransitionalStates, PostOperation, At, JobPc
<1>7. CASE ResolveAgents(j)
  <2>1. CASE online
    <3>1. At(j, "place") /\ job' = [job EXCEPT ![j].pc = "sort", ![j].st = "running"]
      BY <1>7, <2>1 DEF ResolveAgents
    <3> DEFINE new == [job[j] EXCEPT !.pc = "sort", !.st = "running"]
    <3>2. job' = [job EXCEPT ![j] = new] /\ ~At(j, "none")
      BY <3>1 DEF At
    <3>3. new.kind = job[j].kind /\ new.st = "running"
      BY <1>1 DEF Job
    <3> HIDE DEF new
    <3>4. /\ job'[j].kind = job[j].kind /\ job'[j].st = "running"
          /\ job' = [job EXCEPT ![j] = job'[j]]
      BY <1>1, <3>2, <3>3
    <3> QED BY <1>1, <1>2, <3>2, <3>4, MoveNoBatch
  <2>2. CASE ~online
    BY <1>3, <1>7, <2>2 DEF ResolveAgents
  <2> QED BY <2>1, <2>2
<1>8. CASE CategorizeNodes(j)
  <2> DEFINE todo == [n \in Nodes |-> IF n \in job[j].nodes THEN PhaseOf(n) ELSE "none"]
  <2>1. At(j, "sort") /\ job' = [job EXCEPT ![j].pc = "phases", ![j].todo = todo]
    BY <1>8 DEF CategorizeNodes
  <2> HIDE DEF todo
  <2>2. /\ job'[j].kind = job[j].kind /\ job'[j].st = job[j].st /\ ~At(j, "none")
        /\ job' = [job EXCEPT ![j] = job'[j]]
    BY <1>1, <2>1 DEF Job, At
  <2> QED BY <1>1, <1>2, <2>2, MoveNoBatch
<1>9. ASSUME NEW phase \in Phases, BeginPhase(j, phase) PROVE NoNewBatch
  <2>1. PICK todo, tries, call :
          At(j, "phases") /\ job' = [job EXCEPT ![j].todo = todo, ![j].tries = tries, ![j].call = call]
    BY <1>9 DEF BeginPhase
  <2>2. /\ job'[j].kind = job[j].kind /\ job'[j].st = job[j].st /\ ~At(j, "none")
        /\ job' = [job EXCEPT ![j] = job'[j]]
    BY <1>1, <2>1 DEF Job, At
  <2> QED BY <1>1, <1>2, <2>2, MoveNoBatch
<1>10. ASSUME NEW n \in Nodes, CreateResult(j, n) \/ StopResult(j, n) PROVE NoNewBatch
  BY <1>5, <1>10 DEF CreateResult, StopResult, Call
<1>11. ASSUME NEW n \in Nodes, CreateUnavailable(j, n) PROVE NoNewBatch
  <2>1. PICK new : /\ job' = [job EXCEPT ![j] = new]
                   /\ new.kind = job[j].kind /\ new.st = job[j].st /\ new.pc = job[j].pc
    <3>1. CASE job[j].tries[n] + 1 < DeployAttempts
      <4> DEFINE new == [job[j] EXCEPT !.call[n] = "create", !.tries[n] = job[j].tries[n] + 1]
      <4>1. job' = [job EXCEPT ![j] = new]
        BY <1>1, <1>11, <3>1 DEF CreateUnavailable
      <4>2. new.kind = job[j].kind /\ new.st = job[j].st /\ new.pc = job[j].pc
        BY <1>1 DEF Job
      <4> QED BY <4>1, <4>2
    <3>2. CASE ~(job[j].tries[n] + 1 < DeployAttempts)
      <4> DEFINE new == [job[j] EXCEPT !.call[n] = "idle"]
      <4>1. job' = [job EXCEPT ![j] = new]
        BY <1>1, <1>11, <3>2 DEF CreateUnavailable
      <4>2. new.kind = job[j].kind /\ new.st = job[j].st /\ new.pc = job[j].pc
        BY <1>1 DEF Job
      <4> QED BY <4>1, <4>2
    <3> QED BY <3>1, <3>2
  <2>2. /\ job'[j].kind = job[j].kind /\ job'[j].st = job[j].st /\ job'[j].pc = job[j].pc
        /\ job' = [job EXCEPT ![j] = job'[j]]
    BY <1>1, <2>1
  <2> QED BY <1>1, <1>2, <2>2, MoveNoBatch DEF At
<1>12. CASE Finalize(j) \/ FailPreflight(j) \/ FailResources(j)
  BY <1>3, <1>12 DEF Finalize, FailPreflight, FailResources
<1>13. CASE Settle(j) \/ PlaceDeployed(j) \/ Place(j)
  <2>1. Defers(j)
    BY <1>13, SettleDefers, PlaceDefers
  <2>2. /\ job'[j].kind = job[j].kind /\ job'[j].st = job[j].st
        /\ job' = [job EXCEPT ![j] = job'[j]]
    BY <1>1, <2>1, DefersOneSlot
  <2>3. ~At(j, "none")
    BY <1>13 DEF Settle, PlaceDeployed, Place, At
  <2> QED BY <1>1, <1>2, <2>2, <2>3, MoveNoBatch
<1> QED BY <1>6, <1>7, <1>8, <1>9, <1>10, <1>11, <1>12, <1>13 DEF JobStep, JobFailure

\* Nor does what the agent does.
LEMMA AgentNoBatch ==
  ASSUME TypeOK, TypeOK', BatchInv, spent.timeout = 0, NEW j \in Slots, NEW n \in Nodes,
         AgentStep(j, n) \/ AgentFailure(j, n)
  PROVE  NoNewBatch
<1>1. job \in [Slots -> Job] /\ job' \in [Slots -> Job] /\ SpentTypeOK /\ job[j] \in Job
  BY DEF TypeOK
<1>2. enf' = enf /\ spent'.timeout = spent.timeout
  BY <1>1, FaultNoTimeout
  DEF AgentStep, AgentFailure, AgentCreates, AgentStops, CallLost, AgentRefuses,
      AgentStartFails, loopVars
<1>3. \E c \in Call : Answer(j, n, c)
  BY DEF AgentStep, AgentFailure, AgentCreates, AgentStops, CallLost, AgentRefuses,
         AgentStartFails, Call
<1>4. /\ job'[j].kind = job[j].kind /\ job'[j].st = job[j].st /\ job'[j].pc = job[j].pc
      /\ job' = [job EXCEPT ![j] = job'[j]]
  BY <1>1, <1>3 DEF Answer, Job
<1> QED BY <1>1, <1>2, <1>4, MoveNoBatch DEF At

\* A job is taken for stuck after its task died, and retried where it was.
LEMMA StuckNoBatch ==
  ASSUME TypeOK, BatchInv, spent.timeout = 0, spent'.timeout = 0, NEW j \in Slots, CheckStuckJob(j)
  PROVE  NoNewBatch
<1> DEFINE retried == NewJob(job[j].kind, job[j].ids,
                        IF job[j].kind = "node" THEN job[j].ids ELSE Nodes, job[j].retry + 1)
<1>1. job \in [Slots -> Job] /\ SpentTypeOK /\ job[j] \in Job
  BY DEF TypeOK
<1>2. At(j, "none") /\ Active(j) /\ enf' = enf /\ spent' = spent
  BY <1>1 DEF CheckStuckJob, Watched, Active, loopVars, SpentTypeOK
<1>3. CASE job' = [job EXCEPT ![j] = FreeJob]
  BY <1>1, <1>2, <1>3, FinishNoBatch DEF Finish
<1>4. CASE ~RetriesUsed(j) /\ job' = [job EXCEPT ![j] = retried]
  <2>1. job[j].retry + 1 \in 0..MaxJobRetries
    BY <1>1, <1>4, ConstantsAssumption DEF Job, RetriesUsed, ConstantsAssumption
  <2>2. /\ job[j].kind \in {"node", "lab", "batch"} /\ job[j].ids \in SUBSET Nodes
        /\ (IF job[j].kind = "node" THEN job[j].ids ELSE Nodes) \in SUBSET Nodes
    BY <1>1 DEF Job
  <2>3. retried \in Job
    BY <2>1, <2>2, NewJobType
  <2>4. retried.kind = job[j].kind /\ retried.st = "queued"
    BY DEF NewJob, FreeJob
  <2> HIDE DEF retried
  <2> QED BY <1>1, <1>2, <1>4, <2>3, <2>4, OneSlotChanges DEF BatchJob
<1>5. job' = [job EXCEPT ![j] = FreeJob] \/ (~RetriesUsed(j) /\ job' = [job EXCEPT ![j] = retried])
  BY <1>1, <1>2 DEF CheckStuckJob
<1> QED BY <1>3, <1>4, <1>5

\* Tasks that die leave the status of their jobs.
LEMMA LoseNoBatch ==
  ASSUME TypeOK, BatchInv, spent.timeout = 0, NEW Lost, LoseTasks(Lost),
         enf' \in {enf, IdleEnf}, spent'.timeout = spent.timeout
  PROVE  NoNewBatch
<1>1. \A k \in Slots : ~At(k, "none") => Active(k)
  BY DEF BatchInv
<1>2. ASSUME NEW k \in Slots
      PROVE  /\ job'[k].st \in {job[k].st, "none"} /\ job'[k].pc \in {job[k].pc, "none"}
             /\ job'[k].st # "none" => job'[k].kind = job[k].kind /\ job'[k].st = job[k].st
             /\ job'[k].st = "none" => job'[k].pc = "none" \/ job'[k] = job[k]
  BY <1>2 DEF LoseTasks, FreeJob, Active, TypeOK, Job
<1>3. ASSUME NEW k \in Slots
      PROVE  (BatchJob(k)' => BatchJob(k)) /\ (~At(k, "none")' => Active(k)')
  BY <1>1, <1>2 DEF BatchJob, Active, At
<1> QED BY <1>3 DEF NoNewBatch

\* A step that touches neither jobs nor enforcement makes no batch job.
LEMMA QuietNoBatch ==
  ASSUME BatchInv, spent.timeout = 0, job' = job, enf' = enf, spent'.timeout = spent.timeout
  PROVE  NoNewBatch
BY DEF NoNewBatch, BatchInv, BatchJob, Active, At

\* No step of the environment makes a batch job.
LEMMA EnvironmentNoBatch ==
  ASSUME TypeOK, BatchInv, spent.timeout = 0, Environment
  PROVE  NoNewBatch
<1>1. SpentTypeOK
  BY DEF TypeOK
<1>2. CASE ApiRestarts \/ SchedulerRestarts
  BY <1>1, <1>2, FaultNoTimeout, LoseNoBatch DEF ApiRestarts, SchedulerRestarts, loopVars
<1>3. ASSUME NEW n \in Nodes,
             \/ ContainerCrashes(n) \/ LoseNodeEvent(n) \/ ReceiveNodeEvent(n)
             \/ TimestampAges(n) \/ CooldownElapses(n)
      PROVE  NoNewBatch
  BY <1>1, <1>3, FaultNoTimeout, QuietNoBatch
  DEF ContainerCrashes, LoseNodeEvent, ReceiveNodeEvent, TimestampAges, CooldownElapses, loopVars
<1>4. CASE AgentGoesDown \/ AgentComesBack
  BY <1>1, <1>4, FaultNoTimeout, QuietNoBatch DEF AgentGoesDown, AgentComesBack, loopVars
<1> QED BY <1>2, <1>3, <1>4 DEF Environment

\* The scan and a node's turn in it make no job; they keep a batch in hand only
\* while the lab has no batch job.
LEMMA ScanKeepsBatch ==
  ASSUME TypeOK, BatchInv, EnforceScan \/ \E n \in Nodes : EnforceFilter(n)
  PROVE  BatchInv'
<1> SUFFICES ASSUME spent'.timeout = 0
             PROVE  /\ \A j \in Slots : ~At(j, "none")' => Active(j)'
                    /\ OneBatchJob'
                    /\ enf'.pc = "batch" \/ (enf'.pc = "filter" /\ ~enf'.wide) => ~LabWideJob'
  BY DEF BatchInv
<1>1. job' = job /\ spent' = spent
  BY DEF EnforceScan, EnforceFilter
<1>2. (\A j \in Slots : ~At(j, "none")' => Active(j)') /\ OneBatchJob' /\ (LabWideJob' <=> LabWideJob)
  BY <1>1 DEF BatchInv, OneBatchJob, At, Active, LabWideJob
<1>3. CASE EnforceScan
  <2>1. PICK seen, busy, todo : enf' = [IdleEnf EXCEPT !.pc = "filter", !.todo = todo,
                                          !.wide = LabWideJob, !.busy = busy, !.seen = seen]
    BY <1>3 DEF EnforceScan
  <2>2. enf'.pc = "filter" /\ enf'.wide = LabWideJob
    BY <2>1 DEF IdleEnf
  <2> QED BY <1>2, <2>2
<1>4. ASSUME NEW n \in Nodes, EnforceFilter(n)
      PROVE  enf'.pc = "batch" \/ (enf'.pc = "filter" /\ ~enf'.wide) => ~LabWideJob'
  <2>1. PICK N, row : Filtered(n, N, row)
    BY <1>4 DEF EnforceFilter
  <2>2. enf.pc = "filter" /\ EnfTypeOK
    BY <1>4 DEF EnforceFilter, TypeOK
  <2>3. enf'.pc = "batch" \/ (enf'.pc = "filter" /\ ~enf'.wide) => ~enf.wide
    BY <2>1, <2>2 DEF Filtered, EnfTypeOK, IdleEnf
  <2> QED BY <1>1, <1>2, <2>2, <2>3 DEF BatchInv
<1> QED BY <1>2, <1>3, <1>4

\* The batch job is made while the lab has none.
LEMMA CreateKeepsBatch ==
  ASSUME TypeOK, TypeOK', BatchInv, EnforceCreate
  PROVE  BatchInv'
<1> SUFFICES ASSUME spent'.timeout = 0
             PROVE  /\ \A j \in Slots : ~At(j, "none")' => Active(j)'
                    /\ OneBatchJob'
                    /\ enf'.pc = "batch" \/ (enf'.pc = "filter" /\ ~enf'.wide) => ~LabWideJob'
  BY DEF BatchInv
<1>1. /\ enf' = IdleEnf /\ spent' = spent /\ job \in [Slots -> Job] /\ job' \in [Slots -> Job]
      /\ \A k \in Slots : ~BatchJob(k) /\ (~At(k, "none") => Active(k))
  BY DEF EnforceCreate, BatchInv, LabWideJob, BatchJob, TypeOK
<1>2. CASE job' = job
  BY <1>1, <1>2 DEF BatchInv, OneBatchJob, At, Active, IdleEnf
<1>3. ASSUME NEW j \in Slots, job' = [job EXCEPT ![j] = NewJob("batch", enf.nodes, enf.nodes, 0)]
      PROVE  /\ \A k \in Slots : ~At(k, "none")' => Active(k)'
             /\ OneBatchJob'
  <2>1. /\ \A k \in Slots \ {j} : job'[k] = job[k]
        /\ job'[j].st = "queued"
    BY <1>1, <1>3 DEF NewJob, FreeJob
  <2> QED BY <1>1, <2>1 DEF OneBatchJob, BatchJob, At, Active
<1>4. (\A k \in Slots : ~At(k, "none")' => Active(k)') /\ OneBatchJob'
  BY <1>2, <1>3 DEF EnforceCreate, Spawn, BatchInv, OneBatchJob, At, Active
<1> QED BY <1>1, <1>4 DEF IdleEnf

\* Every step keeps the invariant.
LEMMA StepKeepsBatch == TypeOK /\ TypeOK' /\ BatchInv /\ [Next]_vars => BatchInv'
<1> SUFFICES ASSUME TypeOK, TypeOK', BatchInv, [Next]_vars PROVE BatchInv'
  OBVIOUS
<1>1. SpentTypeOK
  BY DEF TypeOK
<1>2. ASSUME spent'.timeout = spent.timeout, spent.timeout = 0 => NoNewBatch PROVE BatchInv'
  BY <1>2, NoNewBatchKeeps
<1>3. CASE User
  <2>1. spent'.timeout = spent.timeout
    BY <1>1, <1>3, FaultNoTimeout DEF User, StartNode, StopNode, StartAll, StopAll, ListNodeStates
  <2> QED BY <1>2, <1>3, <2>1, UserNoBatch
<1>4. CASE EnforceStep
  BY <1>4, ScanKeepsBatch, CreateKeepsBatch DEF EnforceStep
<1>5. CASE ReconcileStep
  <2>1. spent'.timeout = spent.timeout /\ job' = job /\ enf' = enf
    BY <1>1, <1>5, FaultNoTimeout
    DEF ReconcileStep, ReconcileQuery, ReconcileNode, ReconcileSkip, ReconcileApply
  <2> QED BY <1>2, <2>1, QuietNoBatch
<1>6. CASE CheckStuckNodes
  <2>1. spent'.timeout = spent.timeout /\ job' = job /\ enf' = enf
    BY <1>6 DEF CheckStuckNodes, CheckStuckStopping, CheckStuckStarting, loopVars
  <2> QED BY <1>2, <2>1, QuietNoBatch
<1>7. CASE Environment
  <2>1. spent'.timeout = spent.timeout
    BY <1>1, <1>7, FaultNoTimeout
    DEF Environment, AgentGoesDown, AgentComesBack, ApiRestarts, SchedulerRestarts,
        ContainerCrashes, LoseNodeEvent, ReceiveNodeEvent, TimestampAges, CooldownElapses
  <2> QED BY <1>2, <1>7, <2>1, EnvironmentNoBatch
<1>8. ASSUME NEW j \in Slots, JobStep(j) \/ JobFailure(j) PROVE BatchInv'
  <2>1. spent'.timeout = spent.timeout
    BY <1>1, <1>8, FaultNoTimeout
    DEF JobStep, JobFailure, LoadAndValidate, SetTransitionalStates, ResolveAgents,
        CategorizeNodes, PostOperation, Settle, PlaceDeployed, Place, CountErrors, Finalize,
        BeginPhase, CreateResult, CreateUnavailable, StopResult, FailPreflight, FailResources
  <2> QED BY <1>2, <1>8, <2>1, JobNoBatch
<1>9. ASSUME NEW j \in Slots, NEW n \in Nodes, AgentStep(j, n) \/ AgentFailure(j, n)
      PROVE  BatchInv'
  <2>1. spent'.timeout = spent.timeout
    BY <1>1, <1>9, FaultNoTimeout
    DEF AgentStep, AgentFailure, AgentCreates, AgentStops, CallLost, AgentRefuses,
        AgentStartFails
  <2> QED BY <1>2, <1>9, <2>1, AgentNoBatch
<1>10. ASSUME NEW j \in Slots, CheckStuckJob(j) PROVE BatchInv'
  <2>1. spent'.timeout = 0 => spent.timeout = 0
    BY <1>1, <1>10 DEF CheckStuckJob, SpentTypeOK
  <2>2. CASE spent'.timeout = 0
    BY <1>10, <2>1, <2>2, StuckNoBatch, NoNewBatchKeeps
  <2>3. CASE spent'.timeout # 0
    BY <2>3 DEF BatchInv
  <2> QED BY <2>2, <2>3
<1>11. CASE UNCHANGED vars
  BY <1>2, <1>11, QuietNoBatch DEF vars, loopVars
<1> QED BY <1>3, <1>4, <1>5, <1>6, <1>7, <1>8, <1>9, <1>10, <1>11 DEF Next

\* Enforcement never has two batch jobs active, unless a job was taken for stuck
\* while its task ran.
THEOREM OneBatchAtATime == Spec => []OneBatchJob
<1>1. Init => BatchInv
  BY DEF Init, BatchInv, OneBatchJob, FreeJob, Active, At, IdleEnf
<1>2. BatchInv => OneBatchJob
  BY DEF BatchInv, OneBatchJob
<1> QED BY TypeCorrect, StepKeepsBatch, <1>1, <1>2, PTL DEF Spec
=============================================================================
