---------------------------- MODULE AgentsProofs ----------------------------
(***************************************************************************)
(* Theorems about an agent and its host row: the types of rows, processes  *)
(* and messages, and that an update to a version is not called completed   *)
(* before the agent has run it.                                            *)
(***************************************************************************)
EXTENDS Agents, TLAPS

-----------------------------------------------------------------------------
HostType == [st : {"none", "online", "offline"}, stale : BOOLEAN, since : Starts, ver : Versions]
AgentType == [up : BOOLEAN, open : BOOLEAN, fixed : BOOLEAN, id : {"row", "own"}, reg : BOOLEAN,
              inc : Starts, ver : Versions]
RepoType == [head : Versions, mark : [prev : Versions, to : Versions] \cup {NoMark}]
EntryType == [pc : {"none", "cleanup", "check", "reply"}, restart : BOOLEAN, ver : Versions, commit : Versions]
UpdateType == [st : Active \cup Ended \cup {"none"}, to : Targets, age : 0..2, dated : BOOLEAN]
TaskType == [pc : Phases, ref : Versions, prev : Versions]
Typed ==
    /\ host \in HostType /\ agent \in AgentType /\ repo \in RepoType /\ ran \subseteq Versions
    /\ entry \in EntryType /\ update \in [Updates -> UpdateType]
    /\ ask \in [Updates -> {"none", "sent", "accepted"}] /\ late \subseteq Updates \X (Active \cup Ended)
    /\ task \in [Updates -> TaskType] /\ job \in [Jobs -> Starts] /\ spent \in 0..MaxEvents

LEMMA TypeByParts == TypeOK <=> Typed
  BY DEF TypeOK, Typed, HostType, AgentType, RepoType, EntryType, UpdateType, TaskType

LEMMA Nothing ==
    /\ NoHost \in HostType /\ NoEntry \in EntryType /\ NoUpdate \in UpdateType /\ NoTask \in TaskType
    /\ NoMark \notin [prev : Versions, to : Versions]
  <1>1. 0 \in Starts BY AgentAssumption DEF Starts
  <1>2. NoHost \in HostType BY <1>1, AgentAssumption DEF NoHost, HostType
  <1>3. NoEntry \in EntryType BY AgentAssumption DEF NoEntry, EntryType
  <1>4. NoUpdate \in UpdateType BY AgentAssumption DEF NoUpdate, UpdateType, Targets, Active, Ended
  <1>5. NoTask \in TaskType BY AgentAssumption DEF NoTask, TaskType, Phases
  <1>6. NoMark \notin [prev : Versions, to : Versions] BY AgentAssumption DEF NoMark
  <1> QED BY <1>2, <1>3, <1>4, <1>5, <1>6

LEMMA SpentTyped == ASSUME spent \in 0..MaxEvents, Event PROVE spent' \in 0..MaxEvents
  BY AgentAssumption DEF Event

LEMMA WriteTyped ==
    ASSUME Typed, NEW u \in Updates, NEW st \in Active \cup Ended
    PROVE  Write(u, st) \in UpdateType /\ Dated(u) \in UpdateType /\ Reported(u, st) \in UpdateType
  <1>1. update[u] \in UpdateType BY DEF Typed
  <1>2. Write(u, st) \in UpdateType BY <1>1 DEF Write, UpdateType
  <1>3. Write(u, "downloading") \in UpdateType BY <1>1 DEF Write, UpdateType, Active
  <1>0. 0 \in 0..2 BY SMT
  <1>4. \A w \in UpdateType : [w EXCEPT !.age = 0, !.dated = TRUE] \in UpdateType
    <2> SUFFICES ASSUME NEW w \in UpdateType PROVE [w EXCEPT !.age = 0, !.dated = TRUE] \in UpdateType OBVIOUS
    <2> QED BY <1>0 DEF UpdateType
  <1>5. Dated(u) \in UpdateType BY <1>1, <1>3, <1>4 DEF Dated
  <1> QED BY <1>2, <1>5 DEF Reported

LEMMA TypeInit == Init => TypeOK
  <1> SUFFICES ASSUME Init PROVE Typed BY TypeByParts
  <1>1. 0 \in Starts BY AgentAssumption DEF Starts
  <1>2. agent \in AgentType BY <1>1, AgentAssumption DEF Init, AgentType
  <1>3. repo \in RepoType BY AgentAssumption DEF Init, RepoType
  <1> QED BY <1>1, <1>2, <1>3, Nothing, AgentAssumption DEF Init, Typed

LEMMA RegistrationTypes ==
    ASSUME Typed, Registration \/ RegisterLost \/ HeartbeatLost \/ ApiCrash
    PROVE  Typed'
  <1> USE DEF Typed
  <1>1. ASSUME Boot PROVE Typed'
    <2>1. agent.inc + 1 \in Starts BY <1>1, AgentAssumption DEF Boot, Starts, AgentType
    <2>2. agent' \in AgentType BY <1>1, <2>1 DEF Boot, AgentType, RepoType
    <2>3. RolledBack(repo.head, repo.mark) \in Versions BY DEF RolledBack, RepoType
    <2>4. repo' \in RepoType BY <1>1, <2>3 DEF Boot, RepoType
    <2>5. ran' \subseteq Versions BY <1>1 DEF Boot, RepoType
    <2> QED BY <1>1, <2>2, <2>4, <2>5 DEF Boot
  <1>2. ASSUME Register PROVE Typed'
    <2>1. host' \in HostType BY <1>2 DEF Register, HostType, AgentType
    <2>2. entry' \in EntryType BY <1>2 DEF Register, Restarted, EntryType, AgentType, RepoType, HostType
    <2> QED BY <1>2, <2>1, <2>2 DEF Register
  <1>3. ASSUME Cleanup PROVE Typed'
    <2>1. entry' \in EntryType BY <1>3 DEF Cleanup, EntryType
    <2>2. job' \in [Jobs -> Starts] BY <1>3, AgentAssumption DEF Cleanup, Starts
    <2> QED BY <1>3, <2>1, <2>2 DEF Cleanup
  <1>4. ASSUME Check PROVE Typed'
    <2>1. entry' \in EntryType BY <1>4 DEF Check, EntryType
    <2>2. ASSUME NEW u \in Updates PROVE Checked(u) \in UpdateType BY DEF Checked, UpdateType, Ended
    <2> QED BY <1>4, <2>1, <2>2 DEF Check
  <1>5. ASSUME Reply PROVE Typed'
    <2>1. agent' \in AgentType BY <1>5 DEF Reply, AgentType
    <2>2. spent' \in 0..MaxEvents BY <1>5, SpentTyped DEF Reply, Fault
    <2> QED BY <1>5, <2>1, <2>2, Nothing DEF Reply
  <1>6. ASSUME Heartbeat PROVE Typed'
    <2>1. agent' \in AgentType BY <1>6 DEF Heartbeat, Known, AgentType
    <2>2. host' \in HostType BY <1>6 DEF Heartbeat, HostType
    <2> QED BY <1>6, <2>1, <2>2 DEF Heartbeat
  <1>7. ASSUME RegisterLost \/ HeartbeatLost PROVE Typed'
    <2>1. agent' \in AgentType BY <1>7 DEF RegisterLost, HeartbeatLost, AgentType
    <2> QED BY <1>7, <2>1, SpentTyped DEF RegisterLost, HeartbeatLost, Fault
  <1>8. ASSUME ApiCrash PROVE Typed'
    <2>1. agent' \in AgentType BY <1>8 DEF ApiCrash, AgentType
    <2> QED BY <1>8, <2>1, SpentTyped, Nothing DEF ApiCrash, Fault
  <1> QED BY <1>1, <1>2, <1>3, <1>4, <1>5, <1>6, <1>7, <1>8 DEF Registration

LEMMA HostTypes ==
    ASSUME Typed, Crash \/ Silence \/ MarkStale \/ Unreachable \/ Unregister \/ \E j \in Jobs : Dispatch(j) \/ Finish(j)
    PROVE  Typed'
  <1> USE DEF Typed
  <1>0. 0 \in Starts BY AgentAssumption DEF Starts
  <1>1. ASSUME Crash PROVE Typed'
    <2>1. agent' \in AgentType BY <1>1 DEF Crash, Dead, AgentType
    <2> QED BY <1>1, <2>1, SpentTyped, Nothing DEF Crash, Dead, Fault
  <1>2. ASSUME Silence \/ MarkStale PROVE Typed'
    <2>1. host' \in HostType BY <1>2 DEF Silence, MarkStale, HostType
    <2> QED BY <1>2, <2>1 DEF Silence, MarkStale, HostRule
  <1>5. ASSUME Unreachable PROVE Typed'
    <2>1. host' \in HostType BY <1>5 DEF Unreachable, HostType
    <2>2. spent' \in 0..MaxEvents BY <1>5, SpentTyped DEF Unreachable, Fault
    <2> QED BY <1>5, <2>1, <2>2 DEF Unreachable
  <1>3. ASSUME Unregister PROVE Typed'
    BY <1>0, <1>3, SpentTyped, Nothing DEF Unregister
  <1>4. ASSUME NEW j \in Jobs, Dispatch(j) \/ Finish(j) PROVE Typed'
    <2>1. job' \in [Jobs -> Starts] BY <1>0, <1>4 DEF Dispatch, Finish, AgentType
    <2> QED BY <1>4, <2>1 DEF Dispatch, Finish, JobRule
  <1> QED BY <1>1, <1>2, <1>3, <1>4, <1>5

\* Updates: the request, the task of the agent, its reports, the checks.
LEMMA PhaseTyped ==
    ASSUME Typed, NEW u \in Updates, NEW pc, NEW next \in Phases, Doing(u, pc, next)
    PROVE  task' \in [Updates -> TaskType]
  BY DEF Doing, Typed, TaskType

LEMMA SendTyped ==
    ASSUME Typed, NEW u \in Updates, NEW st \in Active \cup Ended, Arrives(u, st) \/ Missed(u, st)
    PROVE  update' \in [Updates -> UpdateType] /\ late' \subseteq Updates \X (Active \cup Ended)
  <1>1. Reported(u, st) \in UpdateType BY WriteTyped
  <1>2. update' \in [Updates -> UpdateType] BY <1>1 DEF Arrives, Missed, Typed
  <1>3. late' \subseteq Updates \X (Active \cup Ended) BY DEF Arrives, Missed, Typed
  <1> QED BY <1>2, <1>3

LEMMA ReportTyped ==
    ASSUME Typed, NEW u \in Updates, NEW st \in Active, Report(u, st)
    PROVE  update' \in [Updates -> UpdateType] /\ late' \subseteq Updates \X (Active \cup Ended) /\ spent' \in 0..MaxEvents
  <1>1. spent' \in 0..MaxEvents BY SpentTyped DEF Report, Typed, Fault
  <1> QED BY <1>1, SendTyped DEF Report

LEMMA RequestTypes ==
    ASSUME Typed, NEW u \in Updates, Receive(u) \/ Answer(u) \/ Age(u) \/ FailStuck(u) \/ \E to \in Requests : Trigger(u, to)
    PROVE  Typed'
  <1> USE DEF Typed
  <1>1. ASSUME Receive(u) PROVE Typed'
    <2>1. task' \in [Updates -> TaskType] BY <1>1 DEF Receive, TaskType, Phases
    <2> QED BY <1>1, <2>1 DEF Receive, Reaches
  <1>2. ASSUME Answer(u) PROVE Typed'
    <2>1. Dated(u) \in UpdateType /\ Write(u, "failed") \in UpdateType BY WriteTyped DEF Ended
    <2>2. update' \in [Updates -> UpdateType] BY <1>2, <2>1 DEF Answer
    <2>3. task' \in [Updates -> TaskType] BY <1>2, Nothing DEF Answer
    <2>4. spent' \in 0..MaxEvents BY <1>2, SpentTyped DEF Answer, Fault
    <2> QED BY <1>2, <2>2, <2>3, <2>4 DEF Answer, Reaches
  <1>3. ASSUME Age(u) \/ FailStuck(u) PROVE Typed'
    <2>1. update' \in [Updates -> UpdateType] BY <1>3 DEF Age, FailStuck, UpdateType, Ended
    <2> QED BY <1>3, <2>1 DEF Age, FailStuck, RowRule
  <1>4. ASSUME NEW to \in Requests, Trigger(u, to) PROVE Typed'
    <2>1. to \in Targets BY AgentAssumption DEF Targets
    <2>2. [NoUpdate EXCEPT !.st = "pending", !.to = to] \in UpdateType
      BY <2>1, Nothing DEF UpdateType, Active
    <2>3. \A o \in Updates : [update[o] EXCEPT !.st = "failed"] \in UpdateType BY DEF UpdateType, Ended
    <2>4. update' \in [Updates -> UpdateType] BY <1>4, <2>2, <2>3 DEF Trigger
    <2>5. Ref(to) \in Versions BY <2>1, AgentAssumption DEF Ref, Targets
    <2>6. [NoTask EXCEPT !.pc = "asked", !.ref = Ref(to)] \in TaskType BY <2>5, Nothing DEF TaskType, Phases
    <2>7. task' \in [Updates -> TaskType] BY <1>4, <2>6 DEF Trigger
    <2> QED BY <1>4, <2>4, <2>7, SpentTyped DEF Trigger, Reaches
  <1> QED BY <1>1, <1>2, <1>3, <1>4

LEMMA WorkTypes ==
    ASSUME Typed, NEW u \in Updates, Perform(u) \/ Fails(u)
    PROVE  Typed'
  <1> USE DEF Typed
  <1>1. ASSUME Fetch(u) PROVE Typed'
    <2>1. repo.head \in Versions /\ task[u] \in TaskType BY DEF RepoType
    <2>2. [task[u] EXCEPT !.pc = "ready", !.prev = repo.head] \in TaskType BY <2>1 DEF TaskType, Phases
    <2>3. task' \in [Updates -> TaskType] BY <1>1, <2>2 DEF Fetch
    <2> QED BY <1>1, <2>3, ReportTyped DEF Fetch, Active
  <1>2. ASSUME Sentinel(u) PROVE Typed'
    <2>1. task' \in [Updates -> TaskType] BY <1>2, PhaseTyped DEF Sentinel, Works, Phases
    <2>2. repo' \in RepoType BY <1>2 DEF Sentinel, RepoType, TaskType
    <2> QED BY <1>2, <2>1, <2>2 DEF Sentinel, Works, Doing
  <1>3. ASSUME Checkout(u) PROVE Typed'
    <2>1. task' \in [Updates -> TaskType] BY <1>3, PhaseTyped DEF Checkout, Works, Phases
    <2>2. repo' \in RepoType BY <1>3 DEF Checkout, RepoType, TaskType
    <2> QED BY <1>3, <2>1, <2>2 DEF Checkout, Works, Doing
  <1>4. ASSUME Restart(u) PROVE Typed'
    <2>1. agent' \in AgentType BY <1>4 DEF Restart, Dead, AgentType
    <2> QED BY <1>4, <2>1, Nothing DEF Restart, Dead
  <1>5. ASSUME NEW pc, NEW st \in Active, NEW next \in Phases, Says(u, pc, st, next) PROVE Typed'
    <2>1. task' \in [Updates -> TaskType] BY <1>5, PhaseTyped DEF Says
    <2> QED BY <1>5, <2>1, ReportTyped DEF Says, Doing
  <1>6. ASSUME Fails(u) PROVE Typed'
    <2>1. update' \in [Updates -> UpdateType] /\ late' \subseteq Updates \X (Active \cup Ended)
      BY <1>6, SendTyped DEF Fails, Ended
    <2>2. task[u] \in TaskType /\ repo.head \in Versions BY DEF RepoType
    <2>3. repo' \in RepoType BY <1>6, <2>2 DEF Fails, RepoType, TaskType
    <2>4. [task[u] EXCEPT !.pc = "unmark"] \in TaskType BY <2>2 DEF TaskType, Phases
    <2>5. task' \in [Updates -> TaskType] BY <1>6, <2>4, Nothing DEF Fails
    <2>6. spent' \in 0..MaxEvents BY <1>6, SpentTyped DEF Fails, Fault
    <2> QED BY <1>6, <2>1, <2>3, <2>5, <2>6 DEF Fails
  <1>7. ASSUME Unmark(u) PROVE Typed'
    <2>1. task' \in [Updates -> TaskType] BY <1>7, Nothing DEF Unmark
    <2>2. repo' \in RepoType BY <1>7 DEF Unmark, RepoType
    <2> QED BY <1>7, <2>1, <2>2 DEF Unmark
  <1> QED BY <1>1, <1>2, <1>3, <1>4, <1>5, <1>6, <1>7 DEF Perform, Active, Phases

LEMMA TypeStep == TypeOK /\ [Next]_vars => TypeOK'
  <1> SUFFICES ASSUME Typed, [Next]_vars PROVE Typed'
    BY TypeByParts DEF TypeOK, Typed, HostType, AgentType, RepoType, EntryType, UpdateType, TaskType
  <1>1. ASSUME NEW m \in late, Arrive(m) PROVE Typed'
    <2>1. m[1] \in Updates /\ m[2] \in Active \cup Ended BY DEF Typed
    <2>2. Reported(m[1], m[2]) \in UpdateType BY <2>1, WriteTyped
    <2> QED BY <1>1, <2>2 DEF Arrive, Typed
  <1>2. ASSUME UNCHANGED vars PROVE Typed' BY <1>2 DEF vars, Typed
  <1> QED BY <1>1, <1>2, RegistrationTypes, HostTypes, RequestTypes, WorkTypes DEF Next

\* Rows, processes and messages keep their types: no handler writes a
\* status its model does not declare, for any number of updates and faults.
THEOREM AgentTypes == Spec => []TypeOK
  BY TypeInit, TypeStep, PTL DEF Spec

-----------------------------------------------------------------------------
\* What lets a row be completed is a registration in the name of a version
\* some process has loaded; the reports of a task never complete one.
Loaded == agent.ver \in ran /\ entry.ver \in ran
Unfinished == \A m \in late : m[2] # "completed"
Inv == TypeOK /\ Installed \in ran /\ Loaded /\ Unfinished /\ CompletedRan
Good(r) == (r.st = "completed" /\ ~r.to.sha) => r.to.v \in ran

LEMMA WrittenIsGood ==
    ASSUME Typed, NEW u \in Updates, NEW st \in Active \cup {"failed"}
    PROVE  Good(Write(u, st)) /\ Good(Dated(u)) /\ Good(Reported(u, st))
  <1>1. update[u] \in UpdateType BY DEF Typed
  <1>2. Write(u, st).st \in {"none", st} BY <1>1 DEF Write, UpdateType
  <1>3. Dated(u).st \in {"none", "downloading"} BY <1>1 DEF Dated, Write, UpdateType
  <1>4. Reported(u, st).st # "completed" BY <1>2, <1>3 DEF Reported, Active
  <1> QED BY <1>2, <1>3, <1>4 DEF Good, Active

LEMMA CheckGood ==
    ASSUME Typed, Inv, Check
    PROVE  Loaded' /\ Unfinished' /\ CompletedRan' /\ (Installed \in ran)'
  <1>1. \A u \in Updates : update'[u] = Checked(u) BY DEF Check
  <1>2. ASSUME NEW u \in Updates PROVE (Checked(u).st = "completed" /\ ~Checked(u).to.sha) => Checked(u).to.v \in ran
    <2>1. update[u] \in UpdateType BY DEF Typed
    <2>2. CASE update[u].st \notin Active BY <2>2 DEF Checked, Inv, CompletedRan
    <2>3. CASE update[u].st \in Active /\ Matches(entry, update[u].to)
      <3>1. Checked(u).to = update[u].to BY <2>1, <2>3 DEF Checked, UpdateType
      <3>2. ~update[u].to.sha => update[u].to.v = entry.ver BY <2>3 DEF Matches
      <3> QED BY <3>1, <3>2 DEF Inv, Loaded
    <2>4. CASE update[u].st \in Active /\ ~Matches(entry, update[u].to)
      <3>1. Checked(u).st \in Active \cup {"failed"} BY <2>1, <2>4 DEF Checked, UpdateType
      <3> QED BY <3>1 DEF Active
    <2> QED BY <2>2, <2>3, <2>4
  <1>3. CompletedRan' BY <1>1, <1>2 DEF CompletedRan, Check
  <1>4. entry'.ver = entry.ver BY DEF Check, Typed, EntryType
  <1> QED BY <1>3, <1>4 DEF Inv, Loaded, Unfinished, Check

LEMMA RegistrationGood ==
    ASSUME Typed, Inv, Boot \/ Register \/ Cleanup \/ Reply \/ Heartbeat \/ RegisterLost \/ HeartbeatLost \/ ApiCrash
    PROVE  Loaded' /\ Unfinished' /\ CompletedRan' /\ (Installed \in ran)'
  <1> USE DEF Inv, Typed
  <1>1. UNCHANGED <<update, late>>
    BY DEF Boot, Register, Cleanup, Reply, Heartbeat, RegisterLost, HeartbeatLost, ApiCrash
  <1>2. ran \subseteq ran' BY DEF Boot, Register, Cleanup, Reply, Heartbeat, RegisterLost, HeartbeatLost, ApiCrash
  <1>3. CompletedRan' /\ Unfinished' /\ (Installed \in ran)' BY <1>1, <1>2 DEF CompletedRan, Unfinished
  <1>4. ASSUME Boot PROVE Loaded' BY <1>4 DEF Boot, Loaded, AgentType
  <1>5. ASSUME Register PROVE Loaded' BY <1>5 DEF Register, Loaded
  <1>6. ASSUME Cleanup PROVE Loaded' BY <1>6 DEF Cleanup, Loaded, EntryType
  <1>7. ASSUME Reply PROVE Loaded' BY <1>7 DEF Reply, Loaded, NoEntry, AgentType
  <1>8. ASSUME Heartbeat \/ RegisterLost \/ HeartbeatLost PROVE Loaded'
    BY <1>8 DEF Heartbeat, RegisterLost, HeartbeatLost, Loaded, AgentType
  <1>9. ASSUME ApiCrash PROVE Loaded' BY <1>9 DEF ApiCrash, Loaded, NoEntry, AgentType
  <1> QED BY <1>3, <1>4, <1>5, <1>6, <1>7, <1>8, <1>9

\* The steps that write rows or send reports leave versions alone.
LEMMA ReportGood ==
    ASSUME Typed, Inv, NEW u \in Updates, NEW st \in Active \cup {"failed"}, Arrives(u, st) \/ Missed(u, st), ran' = ran
    PROVE  Unfinished' /\ CompletedRan'
  <1>1. Good(Reported(u, st)) BY WrittenIsGood
  <1>2. CompletedRan' BY <1>1 DEF Arrives, Missed, Typed, Inv, CompletedRan, Good
  <1>3. Unfinished' BY DEF Arrives, Missed, Inv, Unfinished, Active
  <1> QED BY <1>2, <1>3

LEMMA RequestGood ==
    ASSUME Typed, Inv, NEW u \in Updates, Receive(u) \/ Answer(u) \/ Age(u) \/ FailStuck(u) \/ \E to \in Requests : Trigger(u, to)
    PROVE  Unfinished' /\ CompletedRan' /\ UNCHANGED <<agent, ran, entry>>
  <1> USE DEF Inv, Typed
  <1>1. ASSUME Receive(u) PROVE Unfinished' /\ CompletedRan' /\ UNCHANGED <<agent, ran, entry>>
    BY <1>1 DEF Receive, Reaches, Unfinished, CompletedRan
  <1>2. ASSUME Answer(u) PROVE Unfinished' /\ CompletedRan' /\ UNCHANGED <<agent, ran, entry>>
    <2>1. Good(Dated(u)) /\ Good(Write(u, "failed")) BY WrittenIsGood
    <2>2. CompletedRan' BY <1>2, <2>1 DEF Answer, Reaches, CompletedRan, Good
    <2> QED BY <1>2, <2>2 DEF Answer, Reaches, Unfinished
  <1>3. ASSUME Age(u) PROVE Unfinished' /\ CompletedRan' /\ UNCHANGED <<agent, ran, entry>>
    <2>1. update[u].st # "completed" BY <1>3 DEF Age, Running, Active
    <2>2. update'[u].st = update[u].st BY <1>3 DEF Age, UpdateType
    <2>3. CompletedRan' BY <1>3, <2>1, <2>2 DEF Age, RowRule, CompletedRan
    <2> QED BY <1>3, <2>3 DEF Age, RowRule, Unfinished
  <1>4. ASSUME FailStuck(u) PROVE Unfinished' /\ CompletedRan' /\ UNCHANGED <<agent, ran, entry>>
    <2>1. update'[u].st = "failed" BY <1>4 DEF FailStuck, UpdateType
    <2>2. CompletedRan' BY <1>4, <2>1 DEF FailStuck, RowRule, CompletedRan
    <2> QED BY <1>4, <2>2 DEF FailStuck, RowRule, Unfinished
  <1>5. ASSUME NEW to \in Requests, Trigger(u, to) PROVE Unfinished' /\ CompletedRan' /\ UNCHANGED <<agent, ran, entry>>
    <2>1. [NoUpdate EXCEPT !.st = "pending", !.to = to].st = "pending" BY DEF NoUpdate
    <2>2. \A o \in Updates : [update[o] EXCEPT !.st = "failed"].st = "failed" BY DEF UpdateType
    <2>3. \A o \in Updates : update'[o] = update[o] \/ update'[o].st \in {"pending", "failed"}
      BY <1>5, <2>1, <2>2 DEF Trigger
    <2>4. ran' = ran BY <1>5 DEF Trigger, Reaches
    <2>5. ASSUME NEW o \in Updates, update'[o].st = "completed", ~update'[o].to.sha PROVE update'[o].to.v \in ran'
      <3>1. update'[o] = update[o] BY <2>3, <2>5
      <3> QED BY <2>4, <2>5, <3>1 DEF CompletedRan
    <2>6. CompletedRan' BY <2>5 DEF CompletedRan
    <2> QED BY <1>5, <2>6 DEF Trigger, Reaches, Unfinished
  <1> QED BY <1>1, <1>2, <1>3, <1>4, <1>5

LEMMA WorkGood ==
    ASSUME Typed, Inv, NEW u \in Updates, Perform(u) \/ Fails(u)
    PROVE  Unfinished' /\ CompletedRan' /\ UNCHANGED <<ran, entry>> /\ agent'.ver = agent.ver
  <1> USE DEF Inv, Typed
  <1>1. UNCHANGED <<ran, entry>> /\ agent'.ver = agent.ver
    BY DEF Perform, Fails, Unmark, Fetch, Sentinel, Checkout, Restart, Dead, Says, Works, Doing, AgentType
  <1>2. ASSUME Fetch(u) PROVE Unfinished' /\ CompletedRan' BY <1>1, <1>2, ReportGood DEF Fetch, Report, Active
  <1>3. ASSUME Sentinel(u) \/ Checkout(u) \/ Unmark(u) PROVE Unfinished' /\ CompletedRan'
    BY <1>1, <1>3 DEF Sentinel, Checkout, Unmark, Works, Unfinished, CompletedRan
  <1>4. ASSUME Restart(u) PROVE Unfinished' /\ CompletedRan'
    BY <1>4 DEF Restart, Dead, Unfinished, CompletedRan
  <1>5. ASSUME NEW pc, NEW st \in Active, NEW next, Says(u, pc, st, next) PROVE Unfinished' /\ CompletedRan'
    BY <1>1, <1>5, ReportGood DEF Says, Report
  <1>6. ASSUME Fails(u) PROVE Unfinished' /\ CompletedRan'
    BY <1>1, <1>6, ReportGood DEF Fails
  <1> QED BY <1>1, <1>2, <1>3, <1>4, <1>5, <1>6 DEF Perform, Active

LEMMA InvStep == Inv /\ [Next]_vars => Inv'
  <1> SUFFICES ASSUME Inv, [Next]_vars PROVE Inv' OBVIOUS
  <1>0. Typed BY TypeByParts DEF Inv
  <1>1. TypeOK' BY TypeStep DEF Inv
  <1>2. ASSUME NEW u \in Updates, Receive(u) \/ Answer(u) \/ Age(u) \/ FailStuck(u) \/ (\E to \in Requests : Trigger(u, to))
                                  \/ Perform(u) \/ Fails(u)
        PROVE  Loaded' /\ Unfinished' /\ CompletedRan' /\ (Installed \in ran)'
    BY <1>0, <1>2, RequestGood, WorkGood DEF Inv, Loaded
  <1>3. ASSUME Crash \/ Silence \/ MarkStale \/ Unreachable \/ (\E j \in Jobs : Dispatch(j) \/ Finish(j))
        PROVE  Loaded' /\ Unfinished' /\ CompletedRan' /\ (Installed \in ran)'
    BY <1>0, <1>3 DEF Crash, Dead, Silence, MarkStale, Unreachable, HostRule, Dispatch, Finish, JobRule,
                      Inv, Loaded, Unfinished, CompletedRan, Typed, AgentType
  <1>4. ASSUME Unregister PROVE Loaded' /\ Unfinished' /\ CompletedRan' /\ (Installed \in ran)'
    BY <1>4 DEF Unregister, NoUpdate, Inv, Loaded, Unfinished, CompletedRan
  <1>5. ASSUME NEW m \in late, Arrive(m) PROVE Loaded' /\ Unfinished' /\ CompletedRan' /\ (Installed \in ran)'
    <2>1. m[1] \in Updates /\ m[2] \in Active \cup {"failed"} BY <1>0 DEF Typed, Inv, Unfinished, Ended
    <2>2. Good(Reported(m[1], m[2])) BY <1>0, <2>1, WrittenIsGood
    <2>3. CompletedRan' BY <1>0, <1>5, <2>2 DEF Arrive, Typed, Inv, CompletedRan, Good
    <2> QED BY <1>5, <2>3 DEF Arrive, Inv, Loaded, Unfinished
  <1>6. ASSUME UNCHANGED vars PROVE Loaded' /\ Unfinished' /\ CompletedRan' /\ (Installed \in ran)'
    BY <1>6 DEF vars, Inv, Loaded, Unfinished, CompletedRan
  <1>7. Loaded' /\ Unfinished' /\ CompletedRan' /\ (Installed \in ran)'
    BY <1>0, <1>2, <1>3, <1>4, <1>5, <1>6, CheckGood, RegistrationGood DEF Next, Registration
  <1> QED BY <1>1, <1>7 DEF Inv

\* An update to a version is called completed only when some process of the
\* agent has loaded that version: whatever reports are lost or arrive late,
\* whatever second updates and rollbacks do to the checkout.
THEOREM CompletedMeansRan == Spec => []CompletedRan
  <1>1. Init => Inv
    BY TypeInit DEF Init, Inv, Loaded, Unfinished, CompletedRan, NoUpdate, NoEntry
  <1>2. Inv => CompletedRan BY DEF Inv
  <1> QED BY <1>1, <1>2, InvStep, PTL DEF Spec
=============================================================================
