-------------------------- MODULE ImageSyncProofs --------------------------
(***************************************************************************)
(* Theorems about image synchronisation: the types of rows, jobs, tasks    *)
(* and passes, and that a row says "synced" only of an image that arrived. *)
(***************************************************************************)
EXTENDS ImageSync, TLAPS

-----------------------------------------------------------------------------
AgentType == [held : SUBSET Images, gone : SUBSET Images, xfer : [Jobs -> {"none", "moving", "done", "lost"}]]
HostType == [st : {"online", "offline"}, event : BOOLEAN]
RowStates == {"none", "unknown", "syncing", "synced", "missing", "failed"}
JobType == [st : Active \cup Ended, img : Images] \cup {NoJob}
TaskType == [pc : {"none", "begin", "poll"}, ids : SUBSET Nodes]
WaitType == [job : Jobs, ids : SUBSET Nodes]
Wanted == {"running", "stopped"}
States == {"stopped", "starting", "running", "error"}
Syncing == {"null", "checking", "syncing", "failed"}
Attempts == 0..MaxRetries
NodeType == [want : Wanted, act : States, sync : Syncing, tries : Attempts, mark : BOOLEAN]
SeenType == [by : {"monitor", "pull", "push"}, imgs : SUBSET Images]
DoomType == [Images -> {"no", "row", "bare"}]
Typed ==
    /\ setting \in Settings /\ library \subseteq Images /\ doom \in DoomType
    /\ agent \in AgentType /\ host \in HostType /\ row \in [Images -> RowStates]
    /\ job \in [Jobs -> JobType] /\ task \in [Jobs -> TaskType]
    /\ wait \subseteq WaitType /\ pass \subseteq Passes /\ node \in [Nodes -> NodeType]
    /\ seen \subseteq SeenType /\ locked \subseteq Jobs /\ spent \in 0..MaxEvents
\* A task, and a transfer under way, have a job.
Placed == \A j \in Jobs : task[j].pc # "none" \/ agent.xfer[j] = "moving" => job[j] # NoJob

LEMMA TypeByParts == TypeOK <=> Typed
  BY DEF TypeOK, Typed, AgentType, HostType, RowStates, JobType, TaskType, WaitType, NodeType, DoomType,
         Wanted, States, Syncing, SeenType, Attempts

LEMMA SpentTyped == ASSUME spent \in 0..MaxEvents, Event PROVE spent' \in 0..MaxEvents
  BY ImageAssumption DEF Event

LEMMA NothingTyped == NoJob \in JobType /\ NoTask \in TaskType /\ NoTask.pc = "none"
  BY DEF NoJob, NoTask, JobType, TaskType

LEMMA StatusTyped ==
    ASSUME Typed, NEW j \in Jobs, job[j] # NoJob, NEW s \in Active \cup Ended
    PROVE  /\ [job[j] EXCEPT !.st = s] \in JobType /\ [job[j] EXCEPT !.st = s] # NoJob
           /\ [job[j] EXCEPT !.st = s].img = job[j].img
  <1>1. job[j] \in [st : Active \cup Ended, img : Images] BY DEF Typed, JobType
  <1>2. [job[j] EXCEPT !.st = s] \in [st : Active \cup Ended, img : Images] BY <1>1
  <1>3. NoJob \notin [st : Active \cup Ended, img : Images] BY DEF NoJob, Active, Ended
  <1>4. [job[j] EXCEPT !.st = s].img = job[j].img BY <1>1
  <1> QED BY <1>2, <1>3, <1>4 DEF JobType

LEMMA JobImage ==
    ASSUME Typed, NEW j \in Jobs, job[j] # NoJob
    PROVE  job[j].img \in Images /\ job[j].st \in Active \cup Ended
  BY DEF Typed, JobType

LEMMA ActiveHasJob == ASSUME NEW j \in Jobs, job[j].st \in Active \cup Ended PROVE job[j] # NoJob
  BY DEF NoJob, Active, Ended

LEMMA MarkTyped ==
    ASSUME Typed, NEW i \in Images, NEW s \in RowStates, Mark(i, s)
    PROVE  row' \in [Images -> RowStates]
  BY DEF Mark, Typed

\* A new job takes a free place.
LEMMA NewJobPlace ==
    ASSUME NEW i \in Images, NEW ids \in SUBSET Nodes, NewJob(i, ids)
    PROVE  \E j \in Jobs : /\ job[j] = NoJob /\ task[j] = NoTask
                           /\ job' = [job EXCEPT ![j] = [st |-> "pending", img |-> i]]
                           /\ task' = [task EXCEPT ![j] = [pc |-> "begin", ids |-> ids]]
                           /\ row' = [row EXCEPT ![i] = "syncing"]
  <1> DEFINE j == CHOOSE x \in Places : TRUE
  <1>1. j \in Places BY DEF NewJob
  <1>2. j \in Jobs /\ job[j] = NoJob /\ task[j] = NoTask BY <1>1 DEF Places
  <1>3. /\ job' = [job EXCEPT ![j] = [st |-> "pending", img |-> i]]
        /\ task' = [task EXCEPT ![j] = [pc |-> "begin", ids |-> ids]]
        /\ row' = [row EXCEPT ![i] = "syncing"]
    BY DEF NewJob
  <1> QED BY <1>2, <1>3

\* What jobs, tasks and rows are after a new job.
Books == job \in [Jobs -> JobType] /\ task \in [Jobs -> TaskType] /\ row \in [Images -> RowStates]
LEMMA NewJobTyped ==
    ASSUME Typed, NEW i \in Images, NEW ids \in SUBSET Nodes, NewJob(i, ids)
    PROVE  Books'
  <1>1. PICK j \in Jobs : /\ job' = [job EXCEPT ![j] = [st |-> "pending", img |-> i]]
                          /\ task' = [task EXCEPT ![j] = [pc |-> "begin", ids |-> ids]]
                          /\ row' = [row EXCEPT ![i] = "syncing"]
    BY NewJobPlace
  <1>2. [st |-> "pending", img |-> i] \in JobType BY DEF JobType, Active
  <1>3. [pc |-> "begin", ids |-> ids] \in TaskType BY DEF TaskType
  <1> QED BY <1>1, <1>2, <1>3 DEF Books, Typed, RowStates

LEMMA CloseTyped ==
    ASSUME Typed, NEW j \in Jobs, job[j] # NoJob, NEW s \in Ended, Close(j, s)
    PROVE  job' \in [Jobs -> JobType]
  <1>1. [job[j] EXCEPT !.st = s] \in JobType BY StatusTyped
  <1> QED BY <1>1, NothingTyped DEF Close, Typed

LEMMA NodesTyped ==
    ASSUME NEW f \in [Nodes -> NodeType], NEW ids
    PROVE  /\ \A s \in Syncing : Sync(f, ids, s) \in [Nodes -> NodeType]
           /\ \A a \in States : Act(f, ids, a) \in [Nodes -> NodeType]
  BY DEF Sync, Act, NodeType

LEMMA AttemptsTyped == 0 \in Attempts /\ \A t \in Attempts : t < MaxRetries => t + 1 \in Attempts
  BY ImageAssumption DEF Attempts

LEMMA SparedTyped ==
    ASSUME NEW f \in [Nodes -> NodeType], NEW ids
    PROVE  Spare(f, ids) \in [Nodes -> NodeType]
  BY AttemptsTyped DEF Spare, NodeType

LEMMA RestedTyped == ASSUME Typed, NEW n \in Nodes PROVE Rested(n) \in NodeType
  BY AttemptsTyped DEF Rested, Typed, NodeType, States, Syncing

LEMMA KnownTyped ==
    ASSUME NEW by \in {"monitor", "pull", "push"}, NEW imgs \in SUBSET Images
    PROVE  Known(by, imgs) \in SeenType /\ Known(by, imgs).by = by /\ Known(by, imgs).imgs = imgs
  BY DEF Known, SeenType

\* What is left to push is no news of the agent.
LEMMA LeftTyped ==
    ASSUME Typed, NEW s, NEW imgs \in SUBSET Images
    PROVE  Left(s, imgs) \subseteq SeenType /\ \A t \in Left(s, imgs) : t \in seen \/ t.by = "push"
  <1>1. Known("push", imgs) \in SeenType /\ Known("push", imgs).by = "push" BY KnownTyped
  <1>2. \A t \in Left(s, imgs) : t \in seen \/ t = Known("push", imgs) BY DEF Left
  <1> QED BY <1>1, <1>2 DEF Typed

LEMMA FailedTyped == ASSUME Typed, NEW ids, SyncFailed(ids) PROVE node' \in [Nodes -> NodeType]
  BY NodesTyped DEF SyncFailed, Typed, Syncing, States

LEMMA PassTyped ==
    ASSUME NEW pc \in {"new", "preask", "await", "ask", "deploy"}, NEW i \in Images, NEW ids \in SUBSET Nodes,
           NEW j \in Jobs \cup {"none"}
    PROVE  Pass(pc, i, ids, j) \in Passes
  BY DEF Pass, Passes

LEMMA CallbackTyped ==
    ASSUME Typed, NEW st, NEW i \in Images, NEW ids \in SUBSET Nodes, Callback(st, i, ids)
    PROVE  node' \in [Nodes -> NodeType] /\ pass' \subseteq Passes
  <1> DEFINE Runnable == {n \in ids : node[n].want = "running"}
  <1>0. Fresh(i, Runnable) \in Passes
    <2>1. Runnable \in SUBSET Nodes OBVIOUS
    <2> HIDE DEF Runnable
    <2> QED BY <2>1, PassTyped DEF Fresh
  <1>1. Again(i, ids) \subseteq Passes BY <1>0 DEF Again
  <1>2. Sync(node, ids, "null") \in [Nodes -> NodeType] BY NodesTyped DEF Typed, Syncing
  <1> QED BY <1>1, <1>2, FailedTyped DEF Callback, Typed

LEMMA TypeInit == Init => TypeOK
  <1> SUFFICES ASSUME Init PROVE Typed BY TypeByParts
  <1>1. job \in [Jobs -> JobType] /\ task \in [Jobs -> TaskType] BY NothingTyped DEF Init
  <1>2. row \in [Images -> RowStates] /\ doom \in DoomType BY DEF Init, RowStates, DoomType
  <1>3. node \in [Nodes -> NodeType]
    <2> DEFINE First == [want : Wanted, act : {"stopped"}, sync : {"null"}, tries : {0}, mark : {FALSE}]
    <2>1. node \in [Nodes -> First] BY DEF Init, Wanted
    <2>2. \A f \in First : f \in NodeType BY AttemptsTyped DEF NodeType, States, Syncing
    <2> HIDE DEF First
    <2> QED BY <2>1, <2>2
  <1>4. agent \in AgentType /\ host \in HostType BY DEF Init, AgentType, HostType
  <1> QED BY <1>1, <1>2, <1>3, <1>4, ImageAssumption DEF Init, Typed, SeenType

-----------------------------------------------------------------------------
LEMMA RequestTypes ==
    ASSUME Typed, Placed, setting' = setting,
           \/ \E i \in Images : Push(i) \/ Upload(i) \/ Remove(i)
           \/ \E j \in Jobs : Unlock(j) \/ Cancel(j)
           \/ Pull \/ \E s \in seen : Pulled(s) \/ \E i \in Images : Pushed(s, i)
    PROVE  Typed'
  <1> USE DEF Typed
  <1>1. ASSUME NEW i \in Images, Push(i) PROVE Typed'
    <2>1. ASSUME Queue(i) PROVE Books' /\ locked' = locked BY <2>1, NewJobTyped DEF Queue
    <2>2. ASSUME Found(i) PROVE Books' /\ locked' \subseteq Jobs
      BY <2>2 DEF Found, Existing, ActiveJobs, Books
    <2> QED BY <1>1, <2>1, <2>2, SpentTyped DEF Push, Books
  <1>2. ASSUME NEW i \in Images, Upload(i) PROVE Typed' BY <1>2, SpentTyped DEF Upload
  <1>3. ASSUME NEW i \in Images, Remove(i) PROVE Typed'
    <2>1. doom' \in DoomType BY <1>3 DEF Remove, DoomType
    <2> QED BY <1>3, <2>1, SpentTyped DEF Remove
  <1>4. ASSUME NEW j \in Jobs, Unlock(j) PROVE Typed' BY <1>4 DEF Unlock
  <1>5. ASSUME NEW j \in Jobs, Cancel(j) PROVE Typed'
    <2>1. job[j] # NoJob BY <1>5, ActiveHasJob DEF Cancel
    <2>2. job' \in [Jobs -> JobType] BY <1>5, <2>1, StatusTyped DEF Cancel, Status, Ended
    <2>3. row' \in [Images -> RowStates] BY <1>5, <2>1, JobImage, MarkTyped DEF Cancel, RowStates
    <2> QED BY <1>5, <2>2, <2>3, SpentTyped DEF Cancel
  <1>6. ASSUME Pull PROVE Typed'
    <2>1. PICK imgs \in {agent.held, {}} : seen' = seen \cup {Known("pull", imgs)} BY <1>6 DEF Pull
    <2>2. imgs \in SUBSET Images BY DEF AgentType
    <2>3. seen' \subseteq SeenType BY <2>1, <2>2, KnownTyped
    <2> QED BY <1>6, <2>3, SpentTyped DEF Pull
  <1>7. ASSUME NEW s \in seen, Pulled(s) PROVE Typed'
    <2> DEFINE unsynced == {i \in Docker : Reconciled(s, i) # "synced"}
    <2>1. row' \in [Images -> RowStates] BY <1>7 DEF Pulled, Reconciled, RowStates
    <2>2. unsynced \in SUBSET Images BY DEF Docker
    <2>3. seen' = Left(s, unsynced) BY <1>7 DEF Pulled
    <2> HIDE DEF unsynced
    <2>4. seen' \subseteq SeenType BY <2>2, <2>3, LeftTyped
    <2> QED BY <1>7, <2>1, <2>4 DEF Pulled
  <1>8. ASSUME NEW s \in seen, NEW i \in Images, Pushed(s, i) PROVE Typed'
    <2>1. s.imgs \ {i} \in SUBSET Images BY DEF SeenType
    <2>2. seen' \subseteq SeenType BY <1>8, <2>1, LeftTyped DEF Pushed
    <2>3. ASSUME Queue(i) PROVE Books' /\ locked' = locked BY <2>3, NewJobTyped DEF Queue
    <2>4. ASSUME Found(i) PROVE Books' /\ locked' \subseteq Jobs
      BY <2>4 DEF Found, Existing, ActiveJobs, Books
    <2>5. ASSUME UNCHANGED <<row, job, task, locked>> PROVE Books' /\ locked' \subseteq Jobs
      BY <2>5 DEF Books
    <2>6. Books' /\ locked' \subseteq Jobs BY <1>8, <2>3, <2>4, <2>5 DEF Pushed
    <2> QED BY <1>8, <2>2, <2>6 DEF Pushed, Books
  <1> QED BY <1>1, <1>2, <1>3, <1>4, <1>5, <1>6, <1>7, <1>8

LEMMA TaskTypes ==
    ASSUME Typed, Placed, setting' = setting,
           (\E j \in Jobs : TaskSteps(j)) \/ \E w \in wait : Waited(w)
    PROVE  Typed'
  <1> USE DEF Typed
  <1>1. ASSUME NEW j \in Jobs, Begin(j) PROVE Typed'
    <2>1. job' \in [Jobs -> JobType] BY <1>1, StatusTyped DEF Begin, Status, Placed, Active
    <2>2. task' \in [Jobs -> TaskType] BY <1>1 DEF Begin, TaskType
    <2>3. agent' \in AgentType BY <1>1 DEF Begin, AgentType
    <2> QED BY <1>1, <2>1, <2>2, <2>3 DEF Begin
  <1>2. ASSUME NEW j \in Jobs, Poll(j) PROVE Typed'
    <2>1. job[j] # NoJob /\ job[j].img \in Images BY <1>2, JobImage DEF Poll, Placed
    <2>2. ASSUME NEW st \in Ended, NEW m \in RowStates, Finish(j, st, m)
          PROVE  /\ Books' /\ agent' \in AgentType
                 /\ node' \in [Nodes -> NodeType] /\ pass' \subseteq Passes
      <3>1. job' \in [Jobs -> JobType] BY <2>1, <2>2, CloseTyped DEF Finish
      <3>2. task' \in [Jobs -> TaskType] BY <2>2, NothingTyped DEF Finish
      <3>3. row' \in [Images -> RowStates] BY <2>1, <2>2, MarkTyped DEF Finish
      <3>4. agent' \in AgentType BY <2>2 DEF Finish, AgentType
      <3>5. task[j].ids \in SUBSET Nodes BY DEF TaskType
      <3>6. node' \in [Nodes -> NodeType] /\ pass' \subseteq Passes BY <2>1, <2>2, <3>5, CallbackTyped DEF Finish
      <3> QED BY <3>1, <3>2, <3>3, <3>4, <3>6 DEF Books
    <2>3. /\ Books' /\ agent' \in AgentType
          /\ node' \in [Nodes -> NodeType] /\ pass' \subseteq Passes
      BY <1>2, <2>2 DEF Poll, Ended, RowStates
    <2>4. spent' \in 0..MaxEvents BY <1>2, SpentTyped DEF Poll, Fault
    <2> QED BY <1>2, <2>3, <2>4 DEF Poll, Books
  <1>3. ASSUME NEW w \in wait, Waited(w) PROVE Typed'
    <2>1. w.job \in Jobs /\ w.ids \in SUBSET Nodes BY DEF WaitType
    <2>2. node' \in [Nodes -> NodeType] /\ pass' \subseteq Passes
      <3>1. ASSUME job[w.job].st \in {"completed", "failed"}, Callback(job[w.job].st, job[w.job].img, w.ids)
            PROVE  node' \in [Nodes -> NodeType] /\ pass' \subseteq Passes
        <4>1. job[w.job].img \in Images BY <2>1, <3>1, ActiveHasJob, JobImage DEF Ended
        <4> QED BY <2>1, <3>1, <4>1, CallbackTyped
      <3> QED BY <1>3, <3>1, FailedTyped DEF Waited
    <2>3. spent' \in 0..MaxEvents BY <1>3, SpentTyped DEF Waited, Fault
    <2> QED BY <1>3, <2>2, <2>3 DEF Waited
  <1> QED BY <1>1, <1>2, <1>3 DEF TaskSteps

\* The steps of a pass: what each leaves of nodes, passes, jobs and tasks.
PassBooks == Books /\ node \in [Nodes -> NodeType] /\ pass \subseteq Passes /\ wait \subseteq WaitType
                   /\ spent \in 0..MaxEvents
LEMMA OnTyped ==
    ASSUME Typed, NEW p \in pass
    PROVE  /\ p.img \in Images /\ p.ids \in SUBSET Nodes /\ Pins(p) \in SUBSET Nodes
           /\ \A pc \in {"new", "preask", "await", "ask", "deploy"}, j \in Jobs \cup {"none"} :
                  On(p, pc, j) => pass' \subseteq Passes
           /\ Over(p) => pass' \subseteq Passes
  <1>1. p.img \in Images /\ p.ids \in SUBSET Nodes BY DEF Typed, Passes
  <1>2. Pins(p) \in SUBSET Nodes BY <1>1 DEF Pins
  <1>3. ASSUME NEW pc \in {"new", "preask", "await", "ask", "deploy"}, NEW j \in Jobs \cup {"none"}, On(p, pc, j)
        PROVE  pass' \subseteq Passes
    BY <1>1, <1>3, PassTyped DEF On, Typed
  <1>4. Over(p) => pass' \subseteq Passes BY DEF Over, Typed
  <1> QED BY <1>1, <1>2, <1>3, <1>4

LEMMA CheckingTyped ==
    ASSUME Typed, NEW p \in pass, NEW ids, NEW pc \in {"preask", "ask"}, Checking(p, ids, pc)
    PROVE  node' \in [Nodes -> NodeType] /\ pass' \subseteq Passes
  <1>1. node \in [Nodes -> NodeType] BY DEF Typed
  <1>2. node' \in [Nodes -> NodeType] BY <1>1, NodesTyped DEF Checking, Syncing, States
  <1>3. pass' \subseteq Passes BY OnTyped DEF Checking
  <1> QED BY <1>2, <1>3

LEMMA AnsweredTyped ==
    ASSUME Typed, NEW p \in pass, Lacks(p) \/ Has(p)
    PROVE  spent' \in 0..MaxEvents
  BY SpentTyped DEF Lacks, Has, Typed, Fault

LEMMA PreAskTypes == ASSUME Typed, NEW p \in pass, PreAsk(p) PROVE PassBooks'
  <1>1. spent' \in 0..MaxEvents BY AnsweredTyped DEF PreAsk
  <1>2. wait' \subseteq WaitType BY DEF PreAsk, Typed
  <1>3. CASE UNCHANGED <<row, job, task>>
    <2>1. Books' BY <1>3 DEF Books, Typed
    <2>2. ToCheck(p) \/ (SyncFailed(Pins(p)) /\ Over(p)) \/ NewJob(p.img, {}) BY DEF PreAsk
    <2>3. ~NewJob(p.img, {})
      <3> SUFFICES ASSUME NewJob(p.img, {}) PROVE FALSE OBVIOUS
      <3>1. PICK j \in Jobs : task[j] = NoTask /\ task' = [task EXCEPT ![j] = [pc |-> "begin", ids |-> {}]]
        BY OnTyped, NewJobPlace
      <3> QED BY <1>3, <3>1 DEF NoTask, Typed
    <2>4. ASSUME ToCheck(p) PROVE node' \in [Nodes -> NodeType] /\ pass' \subseteq Passes
      BY <2>4, CheckingTyped DEF ToCheck
    <2> QED BY <1>1, <1>2, <2>1, <2>2, <2>3, <2>4, FailedTyped, OnTyped DEF PassBooks
  <1>4. CASE /\ NewJob(p.img, {}) /\ node' = Sync(node, Pins(p), "syncing")
             /\ \E j \in Jobs : job[j] = NoJob /\ job'[j] # NoJob /\ On(p, "await", j)
    <2>1. Books' BY <1>4, OnTyped, NewJobTyped
    <2>2. node' \in [Nodes -> NodeType] BY <1>4, NodesTyped DEF Typed, Syncing
    <2>3. pass' \subseteq Passes BY <1>4, OnTyped
    <2> QED BY <1>1, <1>2, <2>1, <2>2, <2>3 DEF PassBooks
  <1> QED BY <1>3, <1>4 DEF PreAsk

LEMMA AskTypes == ASSUME Typed, NEW p \in pass, Ask(p) PROVE PassBooks'
  <1>1. spent' \in 0..MaxEvents BY AnsweredTyped DEF Ask
  <1>2. node \in [Nodes -> NodeType] BY DEF Typed
  <1>3. pass' \subseteq Passes BY OnTyped DEF Ask
  <1>4. ASSUME UNCHANGED <<row, job, task>> PROVE Books' BY <1>4 DEF Books, Typed
  <1>5. CASE Has(p) /\ node' = Sync(node, p.ids, "null") /\ UNCHANGED <<row, job, task, wait>>
    <2>1. node' \in [Nodes -> NodeType] BY <1>2, <1>5, NodesTyped DEF Syncing
    <2>2. wait' \subseteq WaitType BY <1>5 DEF Typed
    <2> QED BY <1>1, <1>3, <1>4, <1>5, <2>1, <2>2 DEF PassBooks
  <1>6. CASE SyncFailed(p.ids) /\ UNCHANGED <<row, job, task, wait>>
    <2>1. wait' \subseteq WaitType BY <1>6 DEF Typed
    <2> QED BY <1>1, <1>3, <1>4, <1>6, <2>1, FailedTyped DEF PassBooks
  <1>7. CASE /\ node' = Act(Sync(node, p.ids, "syncing"), p.ids, "starting")
             /\ IF Existing(p.img) = {} THEN NewJob(p.img, p.ids) /\ UNCHANGED wait
                ELSE /\ \E j \in Existing(p.img) : wait' = wait \cup {[job |-> j, ids |-> p.ids]}
                     /\ UNCHANGED <<row, job, task>>
    <2>1. node' \in [Nodes -> NodeType]
      <3>1. Sync(node, p.ids, "syncing") \in [Nodes -> NodeType] BY <1>2, NodesTyped DEF Syncing
      <3> QED BY <1>7, <3>1, NodesTyped DEF States
    <2>2. Books' BY <1>4, <1>7, OnTyped, NewJobTyped
    <2>3. wait' \subseteq WaitType BY <1>7, OnTyped DEF WaitType, Existing, ActiveJobs, Typed
    <2> QED BY <1>1, <1>3, <2>1, <2>2, <2>3 DEF PassBooks
  <1> QED BY <1>5, <1>6, <1>7 DEF Ask

LEMMA PassTypes ==
    ASSUME Typed, setting' = setting, NEW p \in pass, PassSteps(p)
    PROVE  Typed'
  <1>1. PassBooks'
    <2>1. ASSUME Enter(p) PROVE PassBooks'
      <3>1. node' \in [Nodes -> NodeType] /\ pass' \subseteq Passes
        BY <2>1, CheckingTyped DEF Enter, ToCheck
      <3> QED BY <2>1, <3>1 DEF Enter, PassBooks, Books, Typed
    <2>2. ASSUME Await(p) PROVE PassBooks'
      <3>1. node' \in [Nodes -> NodeType] /\ pass' \subseteq Passes
        BY <2>2, CheckingTyped, FailedTyped, OnTyped DEF Await, ToCheck
      <3>2. task' \in [Jobs -> TaskType] BY <2>2, NothingTyped DEF Await, Typed
      <3>3. spent' \in 0..MaxEvents BY <2>2, SpentTyped DEF Await, Fault, Typed
      <3> QED BY <2>2, <3>1, <3>2, <3>3 DEF Await, PassBooks, Books, Typed
    <2>3. ASSUME Deploy(p) PROVE PassBooks'
      <3>1. /\ Act(node, p.ids, "running") \in [Nodes -> NodeType]
            /\ Act(node, p.ids, "error") \in [Nodes -> NodeType]
        BY NodesTyped DEF Typed, States
      <3>2. Spare(Act(node, p.ids, "running"), p.ids) \in [Nodes -> NodeType] BY <3>1, SparedTyped
      <3>3. node' \in [Nodes -> NodeType] BY <2>3, <3>1, <3>2 DEF Deploy
      <3>4. pass' \subseteq Passes BY <2>3, OnTyped DEF Deploy
      <3> QED BY <2>3, <3>3, <3>4 DEF Deploy, PassBooks, Books, Typed
    <2> QED BY <2>1, <2>2, <2>3, PreAskTypes, AskTypes DEF PassSteps
  <1>2. UNCHANGED <<library, agent, host, locked, doom, seen>>
    BY DEF PassSteps, Enter, PreAsk, Await, Ask, Deploy, PassStep
  <1> QED BY <1>1, <1>2 DEF Typed, PassBooks, Books

-----------------------------------------------------------------------------
LEMMA NodeTypes ==
    ASSUME Typed, setting' = setting,
           \/ \E n \in setting.placed : Want(n) \/ Halt(n) \/ StuckStarting(n) \/ ClearOrphan(n) \/ GiveUp(n)
           \/ \E i \in Images : \E ids \in SUBSET setting.placed : Enforce(i, ids)
    PROVE  Typed'
  <1> USE DEF Typed
  <1>1. ASSUME NEW n \in setting.placed, Want(n) PROVE Typed'
    <2>0. n \in Nodes BY ImageAssumption
    <2>1. CASE node' = Spare(node, {n})
      <3>1. node' \in [Nodes -> NodeType] BY <2>1, SparedTyped
      <3> QED BY <1>1, <3>1, SpentTyped DEF Want
    <2>2. CASE node' = [node EXCEPT ![n].want = "running"]
      <3>1. node' \in [Nodes -> NodeType] BY <2>2 DEF NodeType, Wanted
      <3> QED BY <1>1, <3>1, SpentTyped DEF Want
    <2>3. CASE node' = [node EXCEPT ![n] =
                  [(IF node[n].act \in {"stopped", "error"} THEN Rested(n) ELSE @) EXCEPT !.want = "stopped"]]
      <3> DEFINE old == IF node[n].act \in {"stopped", "error"} THEN Rested(n) ELSE node[n]
      <3>1. old \in NodeType BY <2>0, RestedTyped
      <3>2. [old EXCEPT !.want = "stopped"] \in NodeType
        <4> HIDE DEF old
        <4> QED BY <3>1 DEF NodeType, Wanted
      <3>3. node' \in [Nodes -> NodeType] BY <2>3, <3>2
      <3> QED BY <1>1, <3>3, SpentTyped DEF Want
    <2> QED BY <1>1, <2>1, <2>2, <2>3 DEF Want
  <1>2. ASSUME NEW n \in setting.placed, Halt(n) \/ StuckStarting(n) \/ ClearOrphan(n) \/ GiveUp(n) PROVE Typed'
    <2>1. ASSUME ClearOrphan(n) PROVE node' \in [Nodes -> NodeType] BY <2>1, NodesTyped DEF ClearOrphan, Syncing
    <2>2. ASSUME Halt(n) PROVE node' \in [Nodes -> NodeType]
      <3>1. n \in Nodes BY ImageAssumption
      <3> QED BY <2>2, <3>1, RestedTyped DEF Halt
    <2>3. ASSUME StuckStarting(n) PROVE node' \in [Nodes -> NodeType] BY <2>3 DEF StuckStarting, NodeType, States
    <2>4. ASSUME GiveUp(n) PROVE node' \in [Nodes -> NodeType] BY <2>4 DEF GiveUp, NodeType, States
    <2>5. node' \in [Nodes -> NodeType] /\ pass' = pass
      BY <1>2, <2>1, <2>2, <2>3, <2>4 DEF Halt, StuckStarting, ClearOrphan, GiveUp
    <2> QED BY <1>2, <2>5 DEF Halt, StuckStarting, ClearOrphan, GiveUp, NodeRule
  <1>3. ASSUME NEW i \in Images, NEW ids \in SUBSET setting.placed, Enforce(i, ids) PROVE Typed'
    <2>1. ids \in SUBSET Nodes BY ImageAssumption
    <2>2. Fresh(i, ids) \in Passes BY <2>1, PassTyped DEF Fresh
    <2>3. \A n \in ids : [node[n] EXCEPT !.tries = @ + 1, !.mark = FALSE] \in NodeType
      <3> SUFFICES ASSUME NEW n \in ids PROVE [node[n] EXCEPT !.tries = @ + 1, !.mark = FALSE] \in NodeType
        OBVIOUS
      <3>1. node[n] \in NodeType /\ node[n].tries < MaxRetries BY <1>3, <2>1 DEF Enforce
      <3>2. node[n].tries + 1 \in Attempts BY <3>1, AttemptsTyped DEF NodeType
      <3> QED BY <3>1, <3>2 DEF NodeType
    <2>4. node' \in [Nodes -> NodeType] BY <1>3, <2>3 DEF Enforce
    <2> QED BY <1>3, <2>2, <2>4 DEF Enforce, NodeRule
  <1> QED BY <1>1, <1>2, <1>3

LEMMA AgentTypes ==
    ASSUME Typed, Placed, setting' = setting,
           \/ \E j \in Jobs : Load(j) \/ LoadFails(j)
           \/ \E i \in Images : Drop(i)
           \/ AgentRestart \/ Outage \/ Return \/ HandleOffline
    PROVE  Typed'
  <1> USE DEF Typed
  <1>1. ASSUME NEW j \in Jobs, Load(j) PROVE Typed'
    <2>1. job[j].img \in Images BY <1>1, JobImage DEF Load, Placed
    <2>2. agent' \in AgentType BY <1>1, <2>1 DEF Load, AgentType
    <2> QED BY <1>1, <2>2 DEF Load, AgentStep
  <1>2. ASSUME NEW j \in Jobs, LoadFails(j) PROVE Typed'
    <2>1. agent' \in AgentType BY <1>2 DEF LoadFails, AgentType
    <2> QED BY <1>2, <2>1, SpentTyped DEF LoadFails, AgentStep, Fault
  <1>3. ASSUME NEW i \in Images, Drop(i) PROVE Typed'
    <2>1. agent' \in AgentType BY <1>3 DEF Drop, Lose1, AgentType
    <2> QED BY <1>3, <2>1, SpentTyped DEF Drop, AgentStep, Fault
  <1>4. ASSUME AgentRestart PROVE Typed'
    <2> DEFINE lost == [j \in Jobs |-> IF agent.xfer[j] = "none" THEN "none" ELSE "lost"]
    <2>1. lost \in [Jobs -> {"none", "moving", "done", "lost"}] OBVIOUS
    <2>2. agent' = [agent EXCEPT !.xfer = lost] BY <1>4 DEF AgentRestart
    <2> HIDE DEF lost
    <2>3. agent' \in AgentType BY <2>1, <2>2 DEF AgentType
    <2> QED BY <1>4, <2>3, SpentTyped DEF AgentRestart, AgentStep, Fault
  <1>5. ASSUME Outage \/ Return PROVE Typed'
    <2>1. ASSUME Outage PROVE host' \in HostType BY <2>1 DEF Outage, HostType
    <2>2. ASSUME Return PROVE host' \in HostType BY <2>2 DEF Return, HostType
    <2>3. host' \in HostType BY <1>5, <2>1, <2>2
    <2> QED BY <1>5, <2>3, SpentTyped DEF Outage, Return, AgentStep, Fault
  <1>6. ASSUME HandleOffline PROVE Typed'
    <2>1. host' \in HostType BY <1>6 DEF HandleOffline, HostType
    <2> QED BY <1>6, <2>1 DEF HandleOffline, RowStates
  <1> QED BY <1>1, <1>2, <1>3, <1>4, <1>5, <1>6

LEMMA MonitorTypes ==
    ASSUME Typed, Placed, setting' = setting,
           \/ \E i \in Images : Adopt(i) \/ Pick(i) \/ Delete(i) \/ Resync(i)
           \/ Inventory \/ \E s \in seen : Verify(s)
    PROVE  Typed'
  <1> USE DEF Typed
  <1>1. ASSUME NEW i \in Images, Adopt(i) PROVE Typed' BY <1>1 DEF Adopt, RowRule, MonitorRule, RowStates
  <1>2. ASSUME NEW i \in Images, Pick(i) PROVE Typed'
    <2>1. doom' \in DoomType BY <1>2 DEF Pick, DoomType
    <2> QED BY <1>2, <2>1 DEF Pick, RowRule, MonitorRule
  <1>3. ASSUME NEW i \in Images, Delete(i) PROVE Typed'
    <2>1. doom' \in DoomType BY <1>3 DEF Delete, DoomType
    <2>2. Lose1(i, agent) \in AgentType BY DEF Lose1, AgentType
    <2>3. agent' \in AgentType BY <1>3, <2>2 DEF Delete
    <2>4. row' \in [Images -> RowStates] BY <1>3, MarkTyped DEF Delete, RowStates
    <2> QED BY <1>3, <2>1, <2>3, <2>4, SpentTyped DEF Delete, MonitorRule, Fault
  <1>4. ASSUME NEW i \in Images, Resync(i) PROVE Typed'
    <2>1. Books' BY <1>4, NewJobTyped DEF Resync
    <2> QED BY <1>4, <2>1 DEF Resync, RowRule, MonitorRule, Books
  <1>5. ASSUME Inventory PROVE Typed'
    <2>1. agent.held \in SUBSET Images BY DEF AgentType
    <2>2. \A lost : agent.held \ lost \in SUBSET Images BY <2>1
    <2>3. \A imgs \in SUBSET Images : Known("monitor", imgs) \in SeenType BY KnownTyped
    <2>4. ASSUME NEW imgs \in SUBSET Images, seen' = seen \cup {Known("monitor", imgs)} PROVE seen' \subseteq SeenType
      BY <2>3, <2>4
    <2>5. seen' \subseteq SeenType BY <1>5, <2>1, <2>2, <2>4 DEF Inventory
    <2> QED BY <1>5, <2>5, SpentTyped DEF Inventory, MonitorRule, Fault
  <1>6. ASSUME NEW s \in seen, Verify(s) PROVE Typed'
    <2>1. row' \in [Images -> RowStates] BY <1>6 DEF Verify, Verified, RowStates
    <2> QED BY <1>6, <2>1 DEF Verify, RowRule, MonitorRule
  <1> QED BY <1>1, <1>2, <1>3, <1>4, <1>5, <1>6

LEMMA HealthTypes ==
    ASSUME Typed, Placed, setting' = setting, (\E j \in Jobs : FailStuck(j) \/ Forget(j)) \/ Crash
    PROVE  Typed'
  <1> USE DEF Typed
  <1>1. ASSUME NEW j \in Jobs, FailStuck(j) PROVE Typed'
    <2>1. job[j] # NoJob BY <1>1, ActiveHasJob DEF FailStuck, Stuck
    <2>2. job' \in [Jobs -> JobType] BY <1>1, <2>1, StatusTyped, CloseTyped DEF FailStuck, Status, Ended
    <2>3. row' \in [Images -> RowStates] BY <1>1, <2>1, JobImage, MarkTyped DEF FailStuck, RowStates
    <2>4. spent' \in 0..MaxEvents BY <1>1, SpentTyped DEF FailStuck, Fault
    <2> QED BY <1>1, <2>2, <2>3, <2>4 DEF FailStuck
  <1>2. ASSUME NEW j \in Jobs, Forget(j) PROVE Typed'
    <2>1. agent' \in AgentType BY <1>2 DEF Forget, AgentType
    <2> QED BY <1>2, <2>1, NothingTyped DEF Forget
  <1>3. ASSUME Crash PROVE Typed'
    <2>1. job' \in [Jobs -> JobType]
      <3>1. ASSUME NEW j \in Jobs, Torn(j) PROVE job' \in [Jobs -> JobType]
        <4>1. job[j] # NoJob BY <3>1, ActiveHasJob DEF Torn, Placed
        <4> QED BY <3>1, <4>1, StatusTyped DEF Torn, Status, Ended
      <3> QED BY <1>3, <3>1 DEF Crash
    <2>2. task' \in [Jobs -> TaskType] BY <1>3, NothingTyped DEF Crash
    <2>3. doom' \in DoomType BY <1>3 DEF Crash, DoomType
    <2> QED BY <1>3, <2>1, <2>2, <2>3, SpentTyped DEF Crash, Fault
  <1> QED BY <1>1, <1>2, <1>3

-----------------------------------------------------------------------------
\* Where "synced" may come from: a transfer that ended for a task that polls
\* it, or an inventory, and the agent has had the image in either case.
Had == agent.held \cup agent.gone
Arrivals == \A j \in Jobs : task[j].pc = "poll" /\ agent.xfer[j] = "done" => job[j].img \in Had
Looked == \A s \in seen : s.by # "push" => s.imgs \subseteq Had
Rest == Placed /\ Honest /\ Arrivals /\ Looked
Inv == TypeOK /\ Rest

\* A step that leaves agent, jobs and tasks alone.
LEMMA QuietKeeps ==
    ASSUME Typed, Rest, UNCHANGED <<agent, job, task>>,
           \A s \in seen' : s \in seen \/ s.by = "push" \/ s.imgs \subseteq Had,
           \A i \in Images : row'[i] = "synced" => row[i] = "synced" \/ i \in Had
    PROVE  Rest'
  <1>1. Had' = Had BY DEF Had
  <1>2. Placed' /\ Arrivals' BY <1>1 DEF Rest, Placed, Arrivals
  <1>3. Honest' BY <1>1 DEF Rest, Honest, Had
  <1>4. Looked' BY <1>1 DEF Rest, Looked, Had
  <1> QED BY <1>2, <1>3, <1>4 DEF Rest

LEMMA NewJobKeeps ==
    ASSUME Typed, Rest, NEW i \in Images, NEW ids \in SUBSET Nodes, NewJob(i, ids), UNCHANGED agent,
           \A s \in seen' : s \in seen \/ s.by = "push"
    PROVE  Rest'
  <1>1. PICK j \in Jobs : /\ job' = [job EXCEPT ![j] = [st |-> "pending", img |-> i]]
                          /\ task' = [task EXCEPT ![j] = [pc |-> "begin", ids |-> ids]]
                          /\ row' = [row EXCEPT ![i] = "syncing"]
    BY NewJobPlace
  <1>2. Had' = Had BY DEF Had
  <1>3. Placed' BY <1>1 DEF Rest, Placed, NoJob, Typed
  <1>4. Arrivals' BY <1>1, <1>2 DEF Rest, Arrivals, Typed
  <1>5. Honest' BY <1>1, <1>2 DEF Rest, Honest, Had, Typed
  <1>6. Looked' BY <1>2 DEF Rest, Looked
  <1> QED BY <1>3, <1>4, <1>5, <1>6 DEF Rest

\* A row that is marked is synced only if the mark says so.
LEMMA MarkKeeps ==
    ASSUME Typed, NEW i \in Images, NEW s, Mark(i, s), NEW k \in Images, row'[k] = "synced"
    PROVE  row[k] = "synced" \/ (k = i /\ s = "synced")
  BY DEF Mark, Typed

\* A step that at most writes statuses, ends tasks and marks a row otherwise.
LEMMA StatusKeeps ==
    ASSUME Typed, Rest, UNCHANGED agent, seen' \subseteq seen,
           \A j \in Jobs : job'[j] = job[j]
               \/ (job[j] # NoJob /\ job'[j] # NoJob /\ job'[j].img = job[j].img)
               \/ (task'[j].pc = "none" /\ agent.xfer[j] # "moving"),
           \A j \in Jobs : task'[j] = task[j] \/ task'[j].pc = "none",
           \A i \in Images : row'[i] = "synced" => row[i] = "synced" \/ i \in Had
    PROVE  Rest'
  <1>1. Had' = Had BY DEF Had
  <1>2. Placed' BY DEF Rest, Placed
  <1>3. Arrivals'
    <2> SUFFICES ASSUME NEW j \in Jobs, task'[j].pc = "poll", agent'.xfer[j] = "done" PROVE job'[j].img \in Had'
      BY DEF Arrivals
    <2>1. task'[j] = task[j] /\ job'[j].img = job[j].img OBVIOUS
    <2> QED BY <1>1, <2>1 DEF Rest, Arrivals
  <1>4. Honest' BY <1>1 DEF Rest, Honest, Had
  <1>5. Looked' BY <1>1 DEF Rest, Looked
  <1> QED BY <1>2, <1>3, <1>4, <1>5 DEF Rest

\* A step of the agent: what it had it still had.
LEMMA AgentKeeps ==
    ASSUME Typed, Rest, UNCHANGED <<job, task>>, seen' = seen, Had \subseteq Had',
           \A i \in Images : row'[i] = "synced" => row[i] = "synced",
           \A j \in Jobs : agent'.xfer[j] = "moving" => agent.xfer[j] = "moving",
           \A j \in Jobs : agent'.xfer[j] = "done" => agent.xfer[j] = "done" \/ job[j].img \in Had'
    PROVE  Rest'
  <1>1. Placed' BY DEF Rest, Placed
  <1>2. Arrivals' BY DEF Rest, Arrivals
  <1>3. Honest' BY DEF Rest, Honest, Had
  <1>4. Looked' BY DEF Rest, Looked
  <1> QED BY <1>1, <1>2, <1>3, <1>4 DEF Rest

\* Writing a status leaves the image; closing does, or the row goes.
LEMMA WrittenStatus ==
    ASSUME Typed, NEW j \in Jobs, job[j] # NoJob, NEW s \in Active \cup Ended, Status(j, s)
    PROVE  /\ job'[j] # NoJob /\ job'[j].img = job[j].img
           /\ \A k \in Jobs : k # j => job'[k] = job[k]
  <1>1. job' = [job EXCEPT ![j] = [job[j] EXCEPT !.st = s]] BY DEF Status
  <1>2. job'[j] = [job[j] EXCEPT !.st = s] BY <1>1 DEF Typed
  <1> QED BY <1>1, <1>2, StatusTyped DEF Typed

LEMMA ClosedJob ==
    ASSUME Typed, NEW j \in Jobs, job[j] # NoJob, NEW s \in Ended, Close(j, s)
    PROVE  /\ (job'[j] # NoJob /\ job'[j].img = job[j].img) \/ (job'[j] = NoJob /\ agent.xfer[j] # "moving")
           /\ \A k \in Jobs : k # j => job'[k] = job[k]
  <1>1. job' = [job EXCEPT ![j] = IF Read(j) \/ agent.xfer[j] = "moving" THEN [job[j] EXCEPT !.st = s] ELSE NoJob]
    BY DEF Close
  <1> QED BY <1>1, StatusTyped DEF Typed

LEMMA RequestRest ==
    ASSUME Typed, Rest,
           \/ \E i \in Images : Push(i) \/ Upload(i) \/ Remove(i)
           \/ \E j \in Jobs : Unlock(j) \/ Cancel(j)
           \/ Pull \/ \E s \in seen : Pulled(s) \/ \E i \in Images : Pushed(s, i)
    PROVE  Rest'
  <1>1. ASSUME NEW i \in Images, Push(i) PROVE Rest'
    <2>1. ASSUME Queue(i) PROVE Rest' BY <1>1, <2>1, NewJobKeeps DEF Push, Queue
    <2>2. ASSUME Found(i) PROVE Rest' BY <1>1, <2>2, QuietKeeps DEF Push, Found
    <2> QED BY <1>1, <2>1, <2>2 DEF Push
  <1>2. ASSUME NEW i \in Images, Upload(i) \/ Remove(i) PROVE Rest' BY <1>2, QuietKeeps DEF Upload, Remove
  <1>3. ASSUME NEW j \in Jobs, Unlock(j) PROVE Rest' BY <1>3, QuietKeeps DEF Unlock
  <1>4. ASSUME NEW j \in Jobs, Cancel(j) PROVE Rest'
    <2>1. job[j] # NoJob BY <1>4, ActiveHasJob DEF Cancel
    <2>2. job[j].img \in Images BY <2>1, JobImage
    <2>3. \A k \in Images : row'[k] = "synced" => row[k] = "synced" BY <1>4, <2>2, MarkKeeps DEF Cancel
    <2>4. job'[j] # NoJob /\ job'[j].img = job[j].img BY <1>4, <2>1, WrittenStatus DEF Cancel, Ended
    <2>5. \A k \in Jobs : k # j => job'[k] = job[k] BY <1>4 DEF Cancel, Status, Typed
    <2>6. \A k \in Jobs : job'[k] = job[k] \/ (job[k] # NoJob /\ job'[k] # NoJob /\ job'[k].img = job[k].img)
      BY <2>1, <2>4, <2>5
    <2> QED BY <1>4, <2>3, <2>6, StatusKeeps DEF Cancel
  <1>5. ASSUME Pull PROVE Rest'
    <2>1. PICK imgs \in {agent.held, {}} : seen' = seen \cup {Known("pull", imgs)} BY <1>5 DEF Pull
    <2>2. Known("pull", imgs).imgs \subseteq Had BY DEF Known, Had
    <2> QED BY <1>5, <2>1, <2>2, QuietKeeps DEF Pull
  <1>6. ASSUME NEW s \in seen, Pulled(s) PROVE Rest'
    <2> DEFINE unsynced == {i \in Docker : Reconciled(s, i) # "synced"}
    <2>1. unsynced \in SUBSET Images BY DEF Docker, Typed
    <2>2. seen' = Left(s, unsynced) BY <1>6 DEF Pulled
    <2> HIDE DEF unsynced
    <2>3. \A t \in seen' : t \in seen \/ t.by = "push" BY <2>1, <2>2, LeftTyped
    <2>4. \A i \in Images : row'[i] = "synced" => row[i] = "synced" \/ i \in Had
      BY <1>6 DEF Pulled, Reconciled, Rest, Looked
    <2> QED BY <1>6, <2>3, <2>4, QuietKeeps DEF Pulled
  <1>7. ASSUME NEW s \in seen, NEW i \in Images, Pushed(s, i) PROVE Rest'
    <2>1. s.imgs \ {i} \in SUBSET Images BY DEF Typed, SeenType
    <2>2. \A t \in seen' : t \in seen \/ t.by = "push" BY <1>7, <2>1, LeftTyped DEF Pushed
    <2>3. ASSUME Queue(i) PROVE Rest' BY <1>7, <2>2, <2>3, NewJobKeeps DEF Pushed, Queue
    <2>4. ASSUME UNCHANGED <<row, job, task>> PROVE Rest' BY <1>7, <2>2, <2>4, QuietKeeps DEF Pushed
    <2> QED BY <1>7, <2>3, <2>4 DEF Pushed, Found
  <1> QED BY <1>1, <1>2, <1>3, <1>4, <1>5, <1>6, <1>7

LEMMA TaskRest ==
    ASSUME Typed, Rest, (\E j \in Jobs : TaskSteps(j)) \/ \E w \in wait : Waited(w)
    PROVE  Rest'
  <1>1. ASSUME NEW j \in Jobs, Begin(j) PROVE Rest'
    <2>1. job[j] # NoJob BY <1>1 DEF Begin, Rest, Placed
    <2>2. job'[j] # NoJob /\ job'[j].img = job[j].img /\ \A k \in Jobs : k # j => job'[k] = job[k]
      BY <1>1, <2>1, WrittenStatus DEF Begin, Active
    <2>3. Had' = Had /\ agent'.xfer[j] # "done" /\ \A k \in Jobs : k # j => agent'.xfer[k] = agent.xfer[k]
      BY <1>1 DEF Begin, Had, Typed, AgentType
    <2>4. \A k \in Jobs : k # j => task'[k] = task[k] BY <1>1 DEF Begin, Typed
    <2>5. Placed' BY <2>2, <2>3, <2>4 DEF Rest, Placed
    <2>6. Arrivals' BY <2>2, <2>3, <2>4 DEF Rest, Arrivals
    <2>7. Honest' /\ Looked' BY <1>1, <2>3 DEF Begin, Rest, Honest, Looked, Had
    <2> QED BY <2>5, <2>6, <2>7 DEF Rest
  <1>2. ASSUME NEW j \in Jobs, Poll(j) PROVE Rest'
    <2>1. job[j] # NoJob /\ job[j].img \in Images BY <1>2, JobImage DEF Poll, Rest, Placed
    <2>2. ASSUME NEW st \in Ended, NEW m, Finish(j, st, m), m = "synced" => Arrived(j), seen' = seen PROVE Rest'
      <3>1. (job'[j] # NoJob /\ job'[j].img = job[j].img) \/ (job'[j] = NoJob /\ agent.xfer[j] # "moving")
        BY <2>1, <2>2, ClosedJob DEF Finish
      <3>2. \A k \in Jobs : k # j => job'[k] = job[k] BY <2>1, <2>2, ClosedJob DEF Finish
      <3>3. task'[j].pc = "none" /\ \A k \in Jobs : k # j => task'[k] = task[k]
        BY <2>2, NothingTyped DEF Finish, Typed
      <3>4. Had' = Had /\ \A k \in Jobs : agent'.xfer[k] = agent.xfer[k] \/ (k = j /\ agent'.xfer[k] = "none")
        BY <2>2 DEF Finish, Had, Typed, AgentType
      <3>5. Placed' BY <3>1, <3>2, <3>3, <3>4 DEF Rest, Placed
      <3>6. Arrivals' BY <3>2, <3>3, <3>4 DEF Rest, Arrivals
      <3>7. Looked' BY <2>2, <3>4 DEF Rest, Looked
      <3>8. Honest'
        <4>1. \A i \in Images : row'[i] = "synced" => row[i] = "synced" \/ (i = job[j].img /\ m = "synced")
          BY <2>1, <2>2, MarkKeeps DEF Finish
        <4>2. m = "synced" => job[j].img \in Had BY <1>2, <2>2 DEF Arrived, Poll, Rest, Arrivals
        <4> QED BY <3>4, <4>1, <4>2 DEF Rest, Honest, Had
      <3> QED BY <3>5, <3>6, <3>7, <3>8 DEF Rest
    <2> QED BY <1>2, <2>2 DEF Poll, Ended
  <1>3. ASSUME NEW w \in wait, Waited(w) PROVE Rest' BY <1>3, QuietKeeps DEF Waited
  <1> QED BY <1>1, <1>2, <1>3 DEF TaskSteps

LEMMA PassRest ==
    ASSUME Typed, Rest, NEW p \in pass, PassSteps(p)
    PROVE  Rest'
  <1>1. p.img \in Images /\ p.ids \in SUBSET Nodes BY OnTyped
  <1>2. UNCHANGED <<agent, seen>> BY DEF PassSteps, Enter, PreAsk, Await, Ask, Deploy, PassStep
  <1>3. ASSUME NEW ids \in SUBSET Nodes, NewJob(p.img, ids) PROVE Rest' BY <1>1, <1>2, <1>3, NewJobKeeps
  <1>4. ASSUME UNCHANGED <<row, job, task>> PROVE Rest' BY <1>2, <1>4, QuietKeeps
  <1>5. ASSUME Await(p) PROVE Rest'
    <2>1. \A k \in Jobs : task'[k] = task[k] \/ task'[k].pc = "none"
      BY <1>5, NothingTyped DEF Await, Typed
    <2> QED BY <1>2, <1>5, <2>1, StatusKeeps DEF Await
  <1>6. ASSUME PreAsk(p) PROVE Rest' BY <1>3, <1>4, <1>6 DEF PreAsk
  <1>7. ASSUME Ask(p) PROVE Rest' BY <1>1, <1>3, <1>4, <1>7 DEF Ask
  <1> QED BY <1>4, <1>5, <1>6, <1>7 DEF PassSteps, Enter, Deploy

LEMMA NodeRest ==
    ASSUME Typed, Rest,
           \/ \E n \in setting.placed : Want(n) \/ Halt(n) \/ StuckStarting(n) \/ ClearOrphan(n) \/ GiveUp(n)
           \/ \E i \in Images : \E ids \in SUBSET setting.placed : Enforce(i, ids)
    PROVE  Rest'
  <1>1. UNCHANGED <<agent, job, task, seen, row>>
    BY DEF Want, Halt, StuckStarting, ClearOrphan, GiveUp, Enforce, NodeRule
  <1> QED BY <1>1, QuietKeeps

LEMMA AgentRest ==
    ASSUME Typed, Rest,
           \/ \E j \in Jobs : Load(j) \/ LoadFails(j)
           \/ \E i \in Images : Drop(i)
           \/ AgentRestart \/ Outage \/ Return \/ HandleOffline
    PROVE  Rest'
  <1>1. ASSUME NEW j \in Jobs, Load(j) PROVE Rest'
    <2>1. Had \subseteq Had' /\ job[j].img \in Had' BY <1>1 DEF Load, Had, Typed, AgentType
    <2>2. \A k \in Jobs : k # j => agent'.xfer[k] = agent.xfer[k] BY <1>1 DEF Load, Typed, AgentType
    <2>3. agent'.xfer[j] = "done" BY <1>1 DEF Load, Typed, AgentType
    <2> QED BY <1>1, <2>1, <2>2, <2>3, AgentKeeps DEF Load, AgentStep
  <1>2. ASSUME NEW j \in Jobs, LoadFails(j) PROVE Rest'
    <2>1. Had' = Had BY <1>2 DEF LoadFails, Had, Typed, AgentType
    <2>2. \A k \in Jobs : agent'.xfer[k] = agent.xfer[k] \/ agent'.xfer[k] = "lost"
      BY <1>2 DEF LoadFails, Typed, AgentType
    <2> QED BY <1>2, <2>1, <2>2, AgentKeeps DEF LoadFails, AgentStep
  <1>3. ASSUME NEW i \in Images, Drop(i) PROVE Rest'
    <2>1. Had \subseteq Had' /\ agent'.xfer = agent.xfer BY <1>3 DEF Drop, Lose1, Had, Typed, AgentType
    <2> QED BY <1>3, <2>1, AgentKeeps DEF Drop, AgentStep
  <1>4. ASSUME AgentRestart PROVE Rest'
    <2> DEFINE lost == [j \in Jobs |-> IF agent.xfer[j] = "none" THEN "none" ELSE "lost"]
    <2>1. agent' = [agent EXCEPT !.xfer = lost] BY <1>4 DEF AgentRestart
    <2>2. \A k \in Jobs : lost[k] \in {"none", "lost"} OBVIOUS
    <2> HIDE DEF lost
    <2>3. Had' = Had /\ agent'.xfer = lost BY <2>1 DEF Had, Typed, AgentType
    <2> QED BY <1>4, <2>2, <2>3, AgentKeeps DEF AgentRestart, AgentStep
  <1>5. ASSUME Outage \/ Return \/ HandleOffline PROVE Rest'
    <2>1. UNCHANGED <<agent, job, task, seen>> BY <1>5 DEF Outage, Return, HandleOffline, AgentStep
    <2>2. \A i \in Images : row'[i] = "synced" => row[i] = "synced"
      BY <1>5 DEF Outage, Return, HandleOffline, AgentStep
    <2> QED BY <2>1, <2>2, QuietKeeps
  <1> QED BY <1>1, <1>2, <1>3, <1>4, <1>5

LEMMA MonitorRest ==
    ASSUME Typed, Rest,
           \/ \E i \in Images : Adopt(i) \/ Pick(i) \/ Delete(i) \/ Resync(i)
           \/ Inventory \/ \E s \in seen : Verify(s)
    PROVE  Rest'
  <1>1. ASSUME NEW i \in Images, Adopt(i) PROVE Rest'
    <2>1. \A k \in Images : row'[k] = "synced" => row[k] = "synced" BY <1>1 DEF Adopt, Typed
    <2> QED BY <1>1, <2>1, QuietKeeps DEF Adopt
  <1>2. ASSUME NEW i \in Images, Pick(i) PROVE Rest' BY <1>2, QuietKeeps DEF Pick
  <1>3. ASSUME NEW i \in Images, Delete(i) PROVE Rest'
    <2>0. agent' \in {agent, Lose1(i, agent)} BY <1>3 DEF Delete
    <2>1. Had \subseteq Had' /\ agent'.xfer = agent.xfer BY <2>0 DEF Lose1, Had, Typed, AgentType
    <2>2. \A k \in Images : row'[k] = "synced" => row[k] = "synced" BY <1>3, MarkKeeps DEF Delete, Typed
    <2> QED BY <1>3, <2>1, <2>2, AgentKeeps DEF Delete
  <1>4. ASSUME NEW i \in Images, Resync(i) PROVE Rest' BY <1>4, NewJobKeeps DEF Resync
  <1>5. ASSUME Inventory PROVE Rest'
    <2>1. \A imgs : imgs \subseteq agent.held => Known("monitor", imgs).imgs \subseteq Had BY DEF Known, Had
    <2>2. \A s \in seen' : s \in seen \/ s.imgs \subseteq Had BY <1>5, <2>1 DEF Inventory
    <2> QED BY <1>5, <2>2, QuietKeeps DEF Inventory
  <1>6. ASSUME NEW s \in seen, Verify(s) PROVE Rest'
    <2>1. \A i \in Images : row'[i] = "synced" => row[i] = "synced" \/ i \in Had
      BY <1>6 DEF Verify, Verified, Rest, Looked
    <2> QED BY <1>6, <2>1, QuietKeeps DEF Verify
  <1> QED BY <1>1, <1>2, <1>3, <1>4, <1>5, <1>6

LEMMA HealthRest ==
    ASSUME Typed, Rest, (\E j \in Jobs : FailStuck(j) \/ Forget(j)) \/ Crash
    PROVE  Rest'
  <1>1. ASSUME NEW j \in Jobs, FailStuck(j) PROVE Rest'
    <2>1. job[j] # NoJob BY <1>1, ActiveHasJob DEF FailStuck, Stuck
    <2>2. \A k \in Images : row'[k] = "synced" => row[k] = "synced"
      BY <1>1, <2>1, JobImage, MarkKeeps DEF FailStuck
    <2>3. \A k \in Jobs : k # j => job'[k] = job[k]
      BY <1>1, <2>1, ClosedJob, WrittenStatus DEF FailStuck, Ended
    <2>4. \/ job'[j] # NoJob /\ job'[j].img = job[j].img
          \/ task'[j].pc = "none" /\ agent.xfer[j] # "moving"
      BY <1>1, <2>1, ClosedJob, WrittenStatus, NothingTyped DEF FailStuck, Ended
    <2> QED BY <1>1, <2>1, <2>2, <2>3, <2>4, StatusKeeps DEF FailStuck
  <1>2. ASSUME NEW j \in Jobs, Forget(j) PROVE Rest'
    <2>1. Had' = Had /\ agent'.xfer[j] = "none" /\ \A k \in Jobs : k # j => agent'.xfer[k] = agent.xfer[k]
      BY <1>2 DEF Forget, Had, Typed, AgentType
    <2>2. \A k \in Jobs : k # j => job'[k] = job[k] BY <1>2 DEF Forget, Typed
    <2>3. task'[j].pc = "none" /\ task' = task BY <1>2, NothingTyped DEF Forget
    <2>4. Placed' /\ Arrivals' BY <2>1, <2>2, <2>3 DEF Rest, Placed, Arrivals
    <2>5. Honest' /\ Looked' BY <1>2, <2>1 DEF Forget, Rest, Honest, Looked, Had
    <2> QED BY <2>4, <2>5 DEF Rest
  <1>3. ASSUME Crash PROVE Rest'
    <2>1. \A k \in Jobs : task'[k].pc = "none" BY <1>3, NothingTyped DEF Crash
    <2>2. \A k \in Jobs : job'[k] = job[k] \/ (job[k] # NoJob /\ job'[k] # NoJob /\ job'[k].img = job[k].img)
      <3>1. ASSUME NEW j \in Jobs, Torn(j) PROVE \A k \in Jobs :
                job'[k] = job[k] \/ (job[k] # NoJob /\ job'[k] # NoJob /\ job'[k].img = job[k].img)
        <4>1. job[j] # NoJob BY <3>1, ActiveHasJob DEF Torn, Rest, Placed
        <4> QED BY <3>1, <4>1, WrittenStatus DEF Torn, Ended
      <3> QED BY <1>3, <3>1 DEF Crash
    <2> QED BY <1>3, <2>1, <2>2, StatusKeeps DEF Crash
  <1> QED BY <1>1, <1>2, <1>3

-----------------------------------------------------------------------------
LEMMA InvStep == Inv /\ [Next]_<<setting, vars>> => Inv'
  <1> SUFFICES ASSUME Typed, Rest, [Next]_<<setting, vars>> PROVE Typed' /\ Rest'
    BY TypeByParts DEF Inv, TypeOK, Typed, AgentType, HostType, RowStates, JobType, TaskType, WaitType, NodeType,
                       DoomType, Wanted, States, Syncing, SeenType, Attempts
  <1>1. ASSUME UNCHANGED <<setting, vars>> PROVE Typed' /\ Rest'
    <2>1. Typed' BY <1>1 DEF vars, Typed
    <2>2. UNCHANGED <<agent, job, task, seen, row>> BY <1>1 DEF vars
    <2> QED BY <2>1, <2>2, QuietKeeps
  <1>2. ASSUME Next PROVE Typed'
    BY <1>2, RequestTypes, TaskTypes, PassTypes, NodeTypes, AgentTypes, MonitorTypes, HealthTypes DEF Next, Rest
  <1>3. ASSUME Next PROVE Rest'
    BY <1>3, RequestRest, TaskRest, PassRest, NodeRest, AgentRest, MonitorRest, HealthRest DEF Next
  <1> QED BY <1>1, <1>2, <1>3

LEMMA InvInit == Init => Inv
  <1> SUFFICES ASSUME Init PROVE Rest BY TypeInit DEF Inv
  <1>1. Placed /\ Arrivals BY NothingTyped DEF Init, Placed, Arrivals
  <1>2. Honest /\ Looked BY DEF Init, Honest, Looked
  <1> QED BY <1>1, <1>2 DEF Rest

\* Rows, jobs, tasks, waiters and passes keep their types: every handler
\* writes statuses the models and endpoints declare, whatever it overwrites.
THEOREM ImageTypes == Spec => []TypeOK
  <1>1. Inv => TypeOK BY DEF Inv
  <1> QED BY <1>1, InvInit, InvStep, PTL DEF Spec

\* For every number of images, nodes, jobs and faults, a row says "synced"
\* only of an image the agent has, or had and lost since.
THEOREM HonestAlways == Spec => []Honest
  <1>1. Inv => Honest BY DEF Inv, Rest
  <1> QED BY <1>1, InvInit, InvStep, PTL DEF Spec
=============================================================================
