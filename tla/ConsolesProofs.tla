--------------------------- MODULE ConsolesProofs ---------------------------
(***************************************************************************)
(* Theorems about the serial console of one VM: its types, and that one    *)
(* process of the domain lives, one thread types at a time and only its    *)
(* session is paused, for any number of sessions, threads, retries and     *)
(* restarts.                                                               *)
(***************************************************************************)
EXTENDS Consoles, FiniteSetTheorems, TLAPS

-----------------------------------------------------------------------------
TaskType == [kind : Kinds, pc : TaskPcs, on : Webs \cup {NoOne}, boot : 0..MaxBoots, ok : Results, left : 0..Retries]
WebType == [pc : {"none", "wait", "held", "spawned", "open", "closing", "unreg", "over"}, paused : BOOLEAN]
FlagType == [done : BOOLEAN, busy : BOOLEAN, extracting : BOOLEAN, ready : BOOLEAN]
VmType == [run : BOOLEAN, boot : 0..MaxBoots, up : BOOLEAN, auto : BOOLEAN,
           step : {"gone", "defined", "define", "clear", "mark", "create"}]

\* An update of one thread keeps the type of all.
LEMMA SetTyped ==
    ASSUME task \in [Tasks -> TaskType], NEW t \in Tasks, NEW r \in TaskType, Set(t, r)
    PROVE  task' \in [Tasks -> TaskType]
  BY DEF Set

\* A pause or a resumption keeps the type of the sessions.
LEMMA PausedTyped ==
    ASSUME web \in [Webs -> WebType], NEW w, NEW b \in BOOLEAN
    PROVE  [web EXCEPT ![w].paused = b] \in [Webs -> WebType]
  <1>1. ASSUME w \in Webs PROVE [web[w] EXCEPT !.paused = b] \in WebType BY <1>1 DEF WebType
  <1> QED BY <1>1

LEMMA IdleTyped == Idle \in TaskType
  BY ConsoleAssumption DEF Idle, TaskType, Kinds, TaskPcs, Results

LEMMA FreshTyped ==
    ASSUME TypeOK, NEW kind \in Kinds, NEW pc \in TaskPcs
    PROVE  Fresh(kind, pc) \in TaskType
  <1> DEFINE b == IF kind = "post" THEN vm.boot ELSE 0
  <1>1. b \in 0..MaxBoots BY ConsoleAssumption DEF TypeOK
  <1>2. Retries \in 0..Retries BY ConsoleAssumption
  <1> HIDE DEF b
  <1>3. [kind |-> kind, pc |-> pc, on |-> NoOne, ok |-> "no", left |-> Retries, boot |-> b] \in TaskType
    BY <1>1, <1>2 DEF TaskType, Results
  <1> QED BY <1>3 DEF Fresh, b

LEMMA GotoTyped ==
    ASSUME TypeOK, NEW t \in Tasks, NEW pc \in TaskPcs, Goto(t, pc)
    PROVE  task' \in [Tasks -> TaskType]
  <1> DEFINE r == [task[t] EXCEPT !.pc = pc]
  <1>1. task \in [Tasks -> TaskType] BY DEF TypeOK, TaskType
  <1>2. r \in TaskType BY <1>1 DEF TaskType
  <1> QED BY <1>1, <1>2, SetTyped DEF Goto

LEMMA OverTyped ==
    ASSUME TypeOK, NEW t \in Tasks, NEW ok \in Results, Over(t, ok)
    PROVE  task' \in [Tasks -> TaskType] /\ flags' \in FlagType
  <1> DEFINE r == [task[t] EXCEPT !.pc = "finish", !.ok = ok, !.on = NoOne, !.left = 0]
  <1>1. task \in [Tasks -> TaskType] BY DEF TypeOK, TaskType
  <1>2. r \in TaskType
    <2>1. 0 \in 0..Retries BY ConsoleAssumption
    <2> QED BY <1>1, <2>1 DEF TaskType, TaskPcs
  <1>3. task' \in [Tasks -> TaskType] BY <1>1, <1>2, SetTyped, IdleTyped DEF Over
  <1>4. flags' \in FlagType BY DEF Over, TypeOK, FlagType
  <1> QED BY <1>3, <1>4

LEMMA DirectTyped ==
    ASSUME TypeOK, NEW t \in Tasks, Direct(t)
    PROVE  task' \in [Tasks -> TaskType] /\ flags' \in FlagType
  <1> DEFINE r == [task[t] EXCEPT !.pc = "direct", !.on = NoOne]
  <1>1. task \in [Tasks -> TaskType] BY DEF TypeOK, TaskType
  <1>2. r \in TaskType BY <1>1 DEF TaskType, TaskPcs
  <1>3. task' \in [Tasks -> TaskType] BY <1>1, <1>2, SetTyped DEF Direct
  <1>4. flags' \in FlagType BY DEF Direct, TypeOK, FlagType
  <1> QED BY <1>3, <1>4

LEMMA RetryTyped ==
    ASSUME TypeOK, NEW t \in Tasks, Retry(t)
    PROVE  task' \in [Tasks -> TaskType] /\ flags' \in FlagType
  <1> DEFINE r == [task[t] EXCEPT !.pc = "direct", !.left = @ - 1]
  <1>1. task \in [Tasks -> TaskType] BY DEF TypeOK, TaskType
  <1>2. CASE Again(t)
    <2>1. task[t] \in TaskType /\ task[t].left \in 0..Retries /\ task[t].left > 0
      BY <1>1, <1>2 DEF Again, TaskType
    <2>2. task[t].left - 1 \in 0..Retries BY <2>1, ConsoleAssumption
    <2>3. r \in TaskType BY <2>1, <2>2 DEF TaskType, TaskPcs
    <2>4. task' \in [Tasks -> TaskType] BY <1>1, <1>2, <2>3, SetTyped DEF Retry
    <2> QED BY <1>2, <2>4 DEF Retry, TypeOK, FlagType
  <1>3. CASE ~Again(t) BY <1>3, OverTyped DEF Retry, Results
  <1> QED BY <1>2, <1>3

LEMMA ResultTyped ==
    ASSUME TypeOK, NEW t \in Tasks, NEW ok \in Results, Result(t, ok)
    PROVE  task' \in [Tasks -> TaskType]
  <1> DEFINE r == [task[t] EXCEPT !.ok = ok, !.pc = IF @ = "run" THEN "close" ELSE "restore"]
  <1>1. task \in [Tasks -> TaskType] BY DEF TypeOK, TaskType
  <1>2. r \in TaskType BY <1>1 DEF TaskType, TaskPcs
  <1> QED BY <1>1, <1>2, SetTyped DEF Result

-----------------------------------------------------------------------------
Typed ==
    /\ vm \in VmType /\ procs \subseteq Webs \cup Tasks
    /\ lock \in Webs \cup Tasks \cup {NoOne} /\ reg \in Webs \cup {NoOne}
    /\ control \in {"interactive", "read_only"} /\ web \in [Webs -> WebType]
    /\ slock \in [Webs -> Tasks \cup {NoOne}]
    /\ task \in [Tasks -> TaskType] /\ flags \in FlagType

LEMMA TypeByParts == TypeOK <=> Typed
  BY DEF TypeOK, Typed, VmType, WebType, TaskType, FlagType

LEMMA TypeInit == Init => TypeOK
  <1> SUFFICES ASSUME Init PROVE TypeOK OBVIOUS
  <1>1. task \in [Tasks -> TaskType] BY IdleTyped DEF Init
  <1>2. flags \in FlagType BY DEF Init, FlagType
  <1>3. web \in [Webs -> WebType] BY DEF Init, WebType
  <1>4. vm \in VmType BY ConsoleAssumption DEF Init, VmType
  <1> QED BY <1>1, <1>2, <1>3, <1>4, TypeByParts DEF Init, Typed

\* The start and the end of the VM.
VmStep == Start \/ Create \/ Clear \/ Mark \/ Stop \/ PowerOff \/ Boots
LEMMA VmFrame == VmStep => UNCHANGED <<lock, reg, web, slock, task>>
  BY DEF VmStep, Start, Create, Clear, Mark, Stop, PowerOff, Boots, VmRule

LEMMA VmTypes == TypeOK /\ VmStep => Typed'
  <1> SUFFICES ASSUME TypeOK, VmStep PROVE Typed' OBVIOUS
  <1>1. vm' \in VmType
    <2>1. CASE Start
      <3>1. vm.boot \in 0..MaxBoots /\ vm.boot < MaxBoots BY <2>1 DEF Start, TypeOK
      <3>2. vm.boot + 1 \in 0..MaxBoots BY <3>1, ConsoleAssumption
      <3>3. vm \in VmType BY TypeByParts DEF Typed
      <3> QED BY <2>1, <3>2, <3>3 DEF Start, VmType
    <2>2. CASE ~Start
      <3>1. vm \in VmType BY TypeByParts DEF Typed
      <3> QED BY <2>2, <3>1 DEF VmStep, Create, Clear, Mark, Stop, PowerOff, Boots, VmType
    <2> QED BY <2>1, <2>2
  <1>2. flags' \in FlagType
    BY DEF VmStep, Start, Create, Clear, Mark, Stop, PowerOff, Boots, Forget, TypeOK, FlagType
  <1>3. UNCHANGED <<lock, reg, web, slock, task>> BY VmFrame
  <1>4. control' \in {"interactive", "read_only"} /\ procs' \subseteq Webs \cup Tasks
    BY DEF VmStep, Start, Create, Clear, Mark, Stop, PowerOff, Boots, Forget, TypeOK
  <1> QED BY <1>1, <1>2, <1>3, <1>4, TypeByParts DEF Typed

\* The handler of a session moves through its states.
LEMMA RuleTyped ==
    ASSUME TypeOK, NEW w \in Webs, NEW pc, NEW next \in {"wait", "held", "spawned", "open", "closing", "unreg", "over"},
           WebRule(w, pc, next)
    PROVE  web' \in [Webs -> WebType]
  BY DEF WebRule, TypeOK, WebType

LEMMA WebTypes == ASSUME TypeOK, NEW w \in Webs, WebOpen(w) \/ WebLeave(w) \/ WebStep(w) PROVE Typed'
  <1>1. UNCHANGED <<vm, slock, task, flags, control>>
    BY DEF WebOpen, WebLeave, WebStep, WebLock, WebRefused, WebSpawn, WebRegister, WebCut, WebEnd, WebUnregister, WebClose, WebRule
  <1>2. web' \in [Webs -> WebType]
    BY RuleTyped DEF WebOpen, WebLeave, WebStep, WebLock, WebRefused, WebSpawn, WebRegister, WebCut, WebEnd, WebUnregister, WebClose
  <1>3. /\ procs' \subseteq Webs \cup Tasks /\ lock' \in Webs \cup Tasks \cup {NoOne}
        /\ reg' \in Webs \cup {NoOne}
    BY DEF WebOpen, WebLeave, WebStep, WebLock, WebRefused, WebSpawn, WebRegister, WebCut, WebEnd, WebUnregister, WebClose, TypeOK
  <1> QED BY <1>1, <1>2, <1>3, TypeByParts DEF Typed

LEMMA TaskTypes ==
    ASSUME TypeOK, NEW t \in Tasks, Poll(t) \/ Probe(t) \/ TaskStep(t) \/ \E kind \in {"extract", "capture"} : Ask(t, kind)
    PROVE  Typed'
  <1> USE DEF TaskRule, Typed
  <1> flags \in FlagType /\ task \in [Tasks -> TaskType] /\ web \in [Webs -> WebType] BY TypeByParts
  <1>1. CASE Poll(t)
    <2>1. Fresh("post", "ask") \in TaskType BY FreshTyped DEF Kinds, TaskPcs
    <2>2. task' \in [Tasks -> TaskType] BY <1>1, <2>1, SetTyped DEF Poll
    <2> QED BY <1>1, <2>2, TypeByParts DEF Poll
  <1>16. CASE Ready(t)
    <2>1. task' \in [Tasks -> TaskType] BY <1>16, SetTyped, IdleTyped, GotoTyped DEF Ready, TaskPcs
    <2>2. flags' \in FlagType BY <1>16 DEF Ready, Answers, FlagType
    <2> QED BY <1>16, <2>1, <2>2, TypeByParts DEF Ready
  <1>2. CASE Probe(t)
    <2>1. Fresh("probe", "close") \in TaskType BY FreshTyped DEF Kinds, TaskPcs
    <2>2. [Fresh("probe", "close") EXCEPT !.ok = "yes"] \in TaskType BY <2>1 DEF TaskType, Results
    <2>3. task' \in [Tasks -> TaskType] BY <1>2, <2>2, SetTyped DEF Probe
    <2> QED BY <1>2, <2>3, TypeByParts DEF Probe
  <1>3. CASE \E kind \in {"extract", "capture"} : Ask(t, kind)
    <2> PICK kind \in {"extract", "capture"} : Ask(t, kind) BY <1>3
    <2>1. Fresh(kind, "seek") \in TaskType BY FreshTyped DEF Kinds, TaskPcs
    <2>2. task' \in [Tasks -> TaskType] BY <2>1, SetTyped DEF Ask
    <2> QED BY <2>2, TypeByParts DEF Ask
  <1>4. CASE Claim(t) BY <1>4, GotoTyped, TypeByParts DEF Claim, TaskPcs
  <1>5. CASE Seek(t)
    <2>1. CASE reg = NoOne BY <1>5, <2>1, DirectTyped, TypeByParts DEF Seek
    <2>2. CASE reg # NoOne
      <3>1. [task[t] EXCEPT !.pc = "slock", !.on = reg] \in TaskType BY TypeByParts DEF TaskType, TaskPcs
      <3>2. task' \in [Tasks -> TaskType] BY <1>5, <2>2, <3>1, SetTyped DEF Seek
      <3> QED BY <1>5, <2>2, <3>2, TypeByParts DEF Seek
    <2> QED BY <2>1, <2>2
  <1>6. CASE SessionLock(t)
    <2>1. task' \in [Tasks -> TaskType] /\ flags' \in FlagType BY <1>6, GotoTyped, DirectTyped DEF SessionLock, TaskPcs
    <2>2. slock' \in [Webs -> Tasks \cup {NoOne}] BY <1>6, TypeByParts DEF SessionLock
    <2> QED BY <1>6, <2>1, <2>2, TypeByParts DEF SessionLock
  <1>7. CASE Recheck(t)
    <2>1. task' \in [Tasks -> TaskType] /\ flags' \in FlagType BY <1>7, GotoTyped, DirectTyped DEF Recheck, TaskPcs
    <2>2. slock' \in [Webs -> Tasks \cup {NoOne}] BY <1>7, TypeByParts DEF Recheck, Resume
    <2>3. web' \in [Webs -> WebType]
      <3>1. web' = Resumed(t) \/ web' = [web EXCEPT ![task[t].on].paused = TRUE] BY <1>7 DEF Recheck, Resume
      <3>2. web \in [Webs -> WebType] BY TypeByParts DEF Typed
      <3>3. \A w, b : b \in BOOLEAN => [web EXCEPT ![w].paused = b] \in [Webs -> WebType] BY <3>2, PausedTyped
      <3>4. Resumed(t) \in [Webs -> WebType] BY <3>3 DEF Resumed
      <3>5. [web EXCEPT ![task[t].on].paused = TRUE] \in [Webs -> WebType] BY <3>3
      <3> QED BY <3>1, <3>4, <3>5
    <2> QED BY <1>7, <2>1, <2>2, <2>3, TypeByParts DEF Recheck, Resume
  <1>8. CASE Inject(t) \/ Run(t)
    <2>1. task' \in [Tasks -> TaskType] BY <1>8, ResultTyped DEF Inject, Run, Commands, Results
    <2> QED BY <1>8, <2>1, TypeByParts DEF Inject, Run, Commands
  <1>9. CASE Restore(t)
    <2>1. task[t].ok \in Results BY DEF TaskType
    <2>2. task' \in [Tasks -> TaskType] /\ flags' \in FlagType BY <1>9, <2>1, OverTyped, DirectTyped DEF Restore
    <2>3. slock' \in [Webs -> Tasks \cup {NoOne}] BY <1>9, TypeByParts DEF Restore, Resume
    <2>4. web' \in [Webs -> WebType] BY <1>9 DEF Restore, Resume, Resumed, WebType
    <2> QED BY <1>9, <2>2, <2>3, <2>4, TypeByParts DEF Restore, Resume
  <1>10. CASE Kick(t) BY <1>10, GotoTyped, TypeByParts DEF Kick, TaskPcs
  <1>11. CASE Take(t) BY <1>11, GotoTyped, TypeByParts DEF Take, TaskPcs
  <1>12. CASE GiveUp(t) BY <1>12, RetryTyped, TypeByParts DEF GiveUp
  <1>13. CASE Close(t)
    <2>0. task[t].ok \in Results BY DEF TaskType
    <2>1. task' \in [Tasks -> TaskType] /\ flags' \in FlagType BY <1>13, <2>0, RetryTyped, OverTyped DEF Close
    <2> QED BY <1>13, <2>1, TypeByParts DEF Close
  <1>14. CASE Finish(t)
    <2>1. flags' \in FlagType BY <1>14 DEF Finish, FlagType, TaskType
    <2> QED BY <1>14, <2>1, GotoTyped, TypeByParts DEF Finish, TaskPcs
  <1>15. CASE Release(t)
    <2>1. task' \in [Tasks -> TaskType] BY <1>15, SetTyped, IdleTyped DEF Release
    <2>2. flags' \in FlagType BY <1>15 DEF Release, Answers, FlagType
    <2> QED BY <1>15, <2>1, <2>2, TypeByParts DEF Release, HandedBack
  <1> QED
    BY <1>1, <1>2, <1>3, <1>4, <1>5, <1>6, <1>7, <1>8, <1>9, <1>10, <1>11, <1>12, <1>13, <1>14, <1>15, <1>16 DEF TaskStep

LEMMA TypeStep == TypeOK /\ [Next]_vars => TypeOK'
  <1> SUFFICES ASSUME TypeOK, [Next]_vars PROVE TypeOK' OBVIOUS
  <1>1. ASSUME UNCHANGED vars PROVE Typed' BY <1>1, TypeByParts DEF vars, Typed
  <1>2. ASSUME Next PROVE Typed' BY <1>2, VmTypes, WebTypes, TaskTypes DEF Next, VmStep
  <1>3. Typed' => TypeOK' BY DEF Typed, TypeOK, VmType, WebType, TaskType, FlagType
  <1> QED BY <1>1, <1>2, <1>3

\* No thread of the console leaves the states listed for it, and none
\* tries more often than it may.
THEOREM ConsoleTypes == Spec => []TypeOK
  BY TypeInit, TypeStep, PTL DEF Spec
-----------------------------------------------------------------------------
\* Who holds the lock of the domain, and that of a session: a console
\* process belongs to the holder of the domain's lock, so two of them, or a
\* thread that types on its own process beside one that types on a session,
\* would have two holders.
HolderOfLock ==
    /\ procs \subseteq {lock}
    /\ \A w \in Webs : web[w].pc \in {"held", "spawned", "open", "closing", "unreg"} => lock = w
    /\ \A t \in Tasks : task[t].pc \in {"run", "close"} => lock = t
HolderOfSession ==
    \A t \in Tasks : task[t].pc \in {"recheck", "inject", "restore"} => task[t].on \in Webs /\ slock[task[t].on] = t
Seeking == \A t \in Tasks : task[t].pc = "slock" => task[t].on \in Webs
Typing(t) == task[t].pc \in {"inject", "restore"}
PausedIsHeld == \A w \in Webs : web[w].paused => \E t \in Tasks : Typing(t) /\ task[t].on = w
Inv == TypeOK /\ HolderOfLock /\ HolderOfSession /\ Seeking /\ PausedIsHeld

LEMMA InvInit == Init => Inv
  <1> SUFFICES ASSUME Init PROVE Inv OBVIOUS
  <1>1. \A t \in Tasks : task[t].pc = "none" BY DEF Init, Idle
  <1>2. \A w \in Webs : web[w].pc = "none" BY DEF Init
  <1>3. procs = {} BY DEF Init
  <1> QED BY <1>1, <1>2, <1>3, TypeInit DEF Inv, HolderOfLock, HolderOfSession, Seeking, PausedIsHeld, Init

\* What an update does to the program counters.
LEMMA SetPc ==
    ASSUME TypeOK, NEW t \in Tasks, NEW r, Set(t, r)
    PROVE  task'[t] = r /\ \A u \in Tasks \ {t} : task'[u] = task[u]
  BY TypeByParts DEF Set, Typed

LEMMA RulePc ==
    ASSUME TypeOK, NEW w \in Webs, NEW pc, NEW next, WebRule(w, pc, next)
    PROVE  /\ web[w].pc = pc /\ web'[w].pc = next /\ \A v \in Webs \ {w} : web'[v] = web[v]
           /\ UNCHANGED <<slock, task>>
  BY TypeByParts DEF WebRule, Typed, WebType

LEMMA HoldVm ==
    ASSUME Inv, VmStep
    PROVE  HolderOfLock' /\ HolderOfSession' /\ Seeking'
  <1>1. UNCHANGED <<lock, web, slock, task>> /\ procs' \subseteq procs BY VmFrame DEF VmStep, Start, Create, Clear, Mark, Stop, PowerOff, Boots
  <1> QED BY <1>1 DEF Inv, HolderOfLock, HolderOfSession, Seeking

LEMMA HoldWeb ==
    ASSUME Inv, NEW w \in Webs, WebOpen(w) \/ WebLeave(w) \/ WebStep(w)
    PROVE  HolderOfLock' /\ HolderOfSession' /\ Seeking'
  <1> USE DEF Inv, HolderOfLock
  <1>1. UNCHANGED <<slock, task>>
    BY DEF WebOpen, WebLeave, WebStep, WebLock, WebRefused, WebSpawn, WebRegister, WebCut, WebEnd, WebUnregister, WebClose, WebRule
  <1>2. HolderOfSession' /\ Seeking' BY <1>1 DEF HolderOfSession, Seeking
  <1>3. lock # NoOne => ~Free BY DEF Free
  <1>4. ASSUME WebOpen(w) PROVE HolderOfLock' BY <1>1, <1>4, RulePc DEF WebOpen
  <1>5. ASSUME WebLock(w) PROVE HolderOfLock'
    <2>1. lock = NoOne /\ NoOne \notin Webs \cup Tasks BY <1>5, ConsoleAssumption DEF WebLock, Free
    <2>2. procs = {} BY <2>1, TypeByParts DEF Typed
    <2> QED BY <1>1, <1>5, <2>1, <2>2, RulePc DEF WebLock
  <1>6. ASSUME WebRefused(w) PROVE HolderOfLock' BY <1>1, <1>6, RulePc DEF WebRefused
  <1>7. ASSUME WebSpawn(w) PROVE HolderOfLock'
    <2>1. lock = w BY <1>7, RulePc DEF WebSpawn
    <2> QED BY <1>1, <1>7, <2>1, RulePc DEF WebSpawn
  <1>8. ASSUME WebRegister(w) PROVE HolderOfLock'
    <2>1. lock = w BY <1>8, RulePc DEF WebRegister
    <2> QED BY <1>1, <1>8, <2>1, RulePc DEF WebRegister
  <1>9. ASSUME WebLeave(w) \/ WebCut(w) PROVE HolderOfLock'
    <2>1. lock = w BY <1>9, RulePc DEF WebLeave, WebCut, WebEnd
    <2> QED BY <1>1, <1>9, <2>1, RulePc DEF WebLeave, WebCut, WebEnd
  <1>10. ASSUME WebUnregister(w) PROVE HolderOfLock'
    <2>1. lock = w BY <1>10, RulePc DEF WebUnregister
    <2> QED BY <1>1, <1>10, <2>1, RulePc DEF WebUnregister
  <1>11. ASSUME WebClose(w) PROVE HolderOfLock'
    <2>1. lock = w BY <1>11, RulePc DEF WebClose
    <2>2. procs' = {} BY <1>11, <2>1 DEF WebClose
    <2>3. \A v \in Webs \ {w} : web'[v].pc \notin {"held", "spawned", "open", "closing", "unreg"}
      BY <1>11, <2>1, RulePc DEF WebClose
    <2>4. web'[w].pc = "over" BY <1>11, RulePc DEF WebClose
    <2>5. \A t \in Tasks : task[t].pc \notin {"run", "close"} BY <2>1, ConsoleAssumption
    <2> QED BY <1>1, <2>2, <2>3, <2>4, <2>5
  <1> QED BY <1>2, <1>4, <1>5, <1>6, <1>7, <1>8, <1>9, <1>10, <1>11 DEF WebStep
\* The fields of a thread after an update of several.
LEMMA Updated ==
    ASSUME NEW r \in TaskType, NEW pc, NEW on, NEW ok, NEW left
    PROVE  /\ [r EXCEPT !.pc = pc, !.ok = ok, !.on = on, !.left = left].pc = pc
           /\ [r EXCEPT !.pc = pc, !.on = on].pc = pc /\ [r EXCEPT !.pc = pc, !.on = on].on = on
           /\ [r EXCEPT !.pc = pc, !.left = left].pc = pc
           /\ [r EXCEPT !.ok = ok, !.pc = pc].pc = pc /\ [r EXCEPT !.ok = ok, !.pc = pc].on = r.on
  BY DEF TaskType

\* A thread that leaves its console does so for one of these states.
Outside == {"none", "ask", "finish", "direct", "wait", "seek", "claim", "free"}
LEMMA OutPc ==
    ASSUME TypeOK, NEW t \in Tasks,
           (\E ok : Over(t, ok)) \/ Direct(t) \/ Retry(t) \/ (\E pc \in Outside : Goto(t, pc)) \/ Set(t, Idle)
    PROVE  task'[t].pc \in Outside /\ \A u \in Tasks \ {t} : task'[u] = task[u]
  <1> USE DEF Outside
  <1> task[t] \in TaskType BY TypeByParts DEF Typed
  <1>1. Idle.pc = "none" BY DEF Idle
  <1>2. ASSUME NEW ok, Over(t, ok) PROVE task'[t].pc \in Outside /\ \A u \in Tasks \ {t} : task'[u] = task[u]
    <2> DEFINE r == IF task[t].kind = "post" THEN [task[t] EXCEPT !.pc = "finish", !.ok = ok, !.on = NoOne, !.left = 0]
                                           ELSE Idle
    <2>1. r.pc \in {"finish", "none"} BY <1>1, Updated
    <2>2. Set(t, r) BY <1>2 DEF Over
    <2> HIDE DEF r
    <2> QED BY <2>1, <2>2, SetPc
  <1>3. ASSUME Direct(t) PROVE task'[t].pc \in Outside /\ \A u \in Tasks \ {t} : task'[u] = task[u]
    <2> DEFINE r == [task[t] EXCEPT !.pc = "direct", !.on = NoOne]
    <2>1. r.pc = "direct" BY Updated
    <2>2. Set(t, r) BY <1>3 DEF Direct
    <2> HIDE DEF r
    <2> QED BY <2>1, <2>2, SetPc
  <1>4. ASSUME Retry(t) PROVE task'[t].pc \in Outside /\ \A u \in Tasks \ {t} : task'[u] = task[u]
    <2>1. CASE Again(t)
      <3> DEFINE r == [task[t] EXCEPT !.pc = "direct", !.left = task[t].left - 1]
      <3>1. r.pc = "direct" BY Updated
      <3>2. Set(t, r) BY <1>4, <2>1 DEF Retry
      <3> HIDE DEF r
      <3> QED BY <3>1, <3>2, SetPc
    <2>2. CASE ~Again(t) BY <1>2, <1>4, <2>2 DEF Retry
    <2> QED BY <2>1, <2>2
  <1>5. ASSUME NEW pc \in Outside, Goto(t, pc) PROVE task'[t].pc \in Outside /\ \A u \in Tasks \ {t} : task'[u] = task[u]
    BY <1>5, SetPc DEF Goto, TaskType
  <1> QED BY <1>1, <1>2, <1>3, <1>4, <1>5, SetPc

\* Leaving without touching any lock or process keeps the holders.
LEMMA OutHolds ==
    ASSUME Inv, NEW t \in Tasks, task'[t].pc \in Outside, \A u \in Tasks \ {t} : task'[u] = task[u],
           procs' \subseteq procs, lock' = lock, slock' = slock, \A w \in Webs : web'[w].pc = web[w].pc
    PROVE  HolderOfLock' /\ HolderOfSession' /\ Seeking'
  BY DEF Inv, HolderOfLock, HolderOfSession, Seeking, Outside

\* Pausing or resuming the I/O of a session leaves its handler where it is.
LEMMA PausedPc ==
    ASSUME TypeOK, NEW s, NEW b, web' = [web EXCEPT ![s].paused = b]
    PROVE  \A w \in Webs : web'[w].pc = web[w].pc
  BY TypeByParts DEF Typed, WebType

LEMMA HoldTask ==
    ASSUME Inv, NEW t \in Tasks, Poll(t) \/ Probe(t) \/ TaskStep(t) \/ \E kind \in {"extract", "capture"} : Ask(t, kind)
    PROVE  HolderOfLock' /\ HolderOfSession' /\ Seeking'
  <1> DEFINE Goal == HolderOfLock' /\ HolderOfSession' /\ Seeking'
  <1> USE DEF TaskRule
  <1> TypeOK /\ task[t] \in TaskType BY TypeByParts DEF Inv, Typed
  <1>1. ASSUME Poll(t) PROVE Goal BY <1>1, SetPc, OutHolds DEF Poll, Fresh, Outside
  <1>2. ASSUME NEW kind \in {"extract", "capture"}, Ask(t, kind) PROVE Goal
    BY <1>2, SetPc, OutHolds DEF Ask, Fresh, Outside
  <1>16. ASSUME Ready(t) PROVE Goal
    <2>1. Set(t, Idle) \/ \E pc \in Outside : Goto(t, pc) BY <1>16 DEF Ready, Outside
    <2>2. UNCHANGED <<procs, lock, web, slock>> BY <1>16 DEF Ready
    <2> QED BY <2>1, <2>2, OutPc, OutHolds
  <1>3. ASSUME Claim(t) \/ Kick(t) \/ Finish(t) PROVE Goal
    <2>1. \E pc \in Outside : Goto(t, pc) BY <1>3 DEF Claim, Kick, Finish, Outside
    <2>2. procs' \subseteq procs /\ UNCHANGED <<lock, web, slock>> BY <1>3 DEF Claim, Kick, Finish
    <2> QED BY <2>1, <2>2, OutPc, OutHolds
  <1>4. ASSUME GiveUp(t) \/ Release(t) PROVE Goal
    <2>1. Retry(t) \/ Set(t, Idle) BY <1>4 DEF GiveUp, Release
    <2>2. UNCHANGED <<procs, lock, web, slock>> BY <1>4 DEF GiveUp, Release
    <2> QED BY <2>1, <2>2, OutPc, OutHolds
  <1>5. ASSUME Probe(t) PROVE Goal
    <2>1. lock = NoOne /\ lock' = t /\ procs' = procs \cup {t} /\ UNCHANGED <<web, slock>> BY <1>5 DEF Probe, Free
    <2>2. procs = {} BY <2>1, ConsoleAssumption, TypeByParts DEF Inv, HolderOfLock, Typed
    <2>3. task'[t].pc = "close" /\ \A u \in Tasks \ {t} : task'[u] = task[u] BY <1>5, SetPc DEF Probe, Fresh
    <2> QED BY <2>1, <2>2, <2>3, ConsoleAssumption DEF Inv, HolderOfLock, HolderOfSession, Seeking
  <1>6. ASSUME Take(t) PROVE Goal
    <2>1. lock = NoOne /\ lock' = t /\ procs' \subseteq procs \cup {t} /\ UNCHANGED <<web, slock>> BY <1>6 DEF Take, Free
    <2>2. procs = {} BY <2>1, ConsoleAssumption, TypeByParts DEF Inv, HolderOfLock, Typed
    <2>3. task'[t].pc = "run" /\ \A u \in Tasks \ {t} : task'[u] = task[u] BY <1>6, SetPc DEF Take, Goto, TaskType
    <2> QED BY <2>1, <2>2, <2>3, ConsoleAssumption DEF Inv, HolderOfLock, HolderOfSession, Seeking
  <1>7. ASSUME Close(t) PROVE Goal
    <2>1. lock = t BY <1>7 DEF Close, At, Inv, HolderOfLock
    <2>2. procs' = {} /\ lock' = NoOne /\ UNCHANGED <<web, slock>> BY <1>7, <2>1 DEF Close, Inv, HolderOfLock
    <2>3. task'[t].pc \in Outside /\ \A u \in Tasks \ {t} : task'[u] = task[u] BY <1>7, OutPc DEF Close
    <2>4. \A u \in Tasks \ {t} : task[u].pc \notin {"run", "close"} BY <2>1 DEF Inv, HolderOfLock
    <2>5. \A w \in Webs : web[w].pc \notin {"held", "spawned", "open", "closing", "unreg"}
      BY <2>1, ConsoleAssumption DEF Inv, HolderOfLock
    <2> QED BY <2>2, <2>3, <2>4, <2>5 DEF Inv, HolderOfLock, HolderOfSession, Seeking, Outside
  <1>8. ASSUME Seek(t) PROVE Goal
    <2>1. UNCHANGED <<procs, lock, web, slock>> BY <1>8 DEF Seek
    <2>2. CASE reg = NoOne BY <1>8, <2>1, <2>2, OutPc, OutHolds DEF Seek
    <2>3. CASE reg # NoOne
      <3>1. task'[t].pc = "slock" /\ task'[t].on = reg /\ \A u \in Tasks \ {t} : task'[u] = task[u]
        <4> DEFINE r == [task[t] EXCEPT !.pc = "slock", !.on = reg]
        <4>1. r.pc = "slock" /\ r.on = reg BY Updated
        <4>2. Set(t, r) BY <1>8, <2>3 DEF Seek
        <4> HIDE DEF r
        <4> QED BY <4>1, <4>2, SetPc
      <3>2. reg \in Webs BY <2>3, TypeByParts DEF Typed
      <3> QED BY <2>1, <3>1, <3>2 DEF Inv, HolderOfLock, HolderOfSession, Seeking
    <2> QED BY <2>2, <2>3
  <1>9. ASSUME SessionLock(t) PROVE Goal
    <2>1. UNCHANGED <<procs, lock, web>> BY <1>9 DEF SessionLock
    <2>2. CASE SessionFree(t)
      <3>1. task'[t].pc = "recheck" /\ task'[t].on = task[t].on /\ \A u \in Tasks \ {t} : task'[u] = task[u]
        BY <1>9, <2>2, SetPc DEF SessionLock, Goto, TaskType
      <3>2. task[t].on \in Webs BY <1>9 DEF SessionLock, At, Inv, Seeking
      <3>3. slock' = [slock EXCEPT ![task[t].on] = t] /\ slock[task[t].on] = NoOne BY <1>9, <2>2 DEF SessionLock, SessionFree
      <3>4. slock'[task[t].on] = t BY <3>2, <3>3, TypeByParts DEF Typed
      <3>5. HolderOfSession'
        <4>1. \A w \in Webs \ {task[t].on} : slock'[w] = slock[w] BY <3>3, TypeByParts DEF Typed
        <4>2. NoOne \notin Tasks BY ConsoleAssumption
        <4> QED BY <3>1, <3>2, <3>3, <3>4, <4>1, <4>2 DEF Inv, HolderOfSession
      <3> QED BY <2>1, <3>1, <3>2, <3>5 DEF Inv, HolderOfLock, Seeking
    <2>3. CASE ~SessionFree(t) BY <1>9, <2>1, <2>3, OutPc, OutHolds DEF SessionLock
    <2> QED BY <2>2, <2>3
  <1>10. ASSUME Recheck(t) \/ Restore(t), Direct(t) \/ \E ok : Over(t, ok),
                slock' = [slock EXCEPT ![task[t].on] = NoOne] PROVE Goal
    <2>1. task'[t].pc \in Outside /\ \A u \in Tasks \ {t} : task'[u] = task[u] BY <1>10, OutPc
    <2>2. task[t].on \in Webs /\ slock[task[t].on] = t BY <1>10 DEF Recheck, Restore, At, Inv, HolderOfSession
    <2>3. \A w \in Webs : slock[w] # t => slock'[w] = slock[w] BY <1>10, <2>2, TypeByParts DEF Typed
    <2>4. UNCHANGED <<procs, lock>> /\ \A w \in Webs : web'[w].pc = web[w].pc
      BY <1>10, PausedPc DEF Recheck, Restore, Resume, Resumed
    <2>5. HolderOfSession' BY <2>1, <2>3 DEF Inv, HolderOfSession, Outside
    <2> QED BY <2>1, <2>4, <2>5 DEF Inv, HolderOfLock, Seeking, Outside
  <1>11. ASSUME Recheck(t), Goto(t, "inject"), UNCHANGED slock PROVE Goal
    <2>1. task'[t].pc = "inject" /\ task'[t].on = task[t].on /\ \A u \in Tasks \ {t} : task'[u] = task[u]
      BY <1>11, SetPc DEF Goto, TaskType
    <2>2. UNCHANGED <<procs, lock>> /\ \A w \in Webs : web'[w].pc = web[w].pc BY <1>11, PausedPc DEF Recheck, Resume, Resumed
    <2>3. task[t].on \in Webs /\ slock[task[t].on] = t BY <1>11 DEF Recheck, At, Inv, HolderOfSession
    <2> QED BY <1>11, <2>1, <2>2, <2>3 DEF Inv, HolderOfLock, HolderOfSession, Seeking
  <1>12. ASSUME Recheck(t) PROVE Goal BY <1>10, <1>11, <1>12 DEF Recheck, Resume
  <1>13. ASSUME Restore(t) PROVE Goal BY <1>10, <1>13 DEF Restore, Resume
  <1>14. ASSUME Inject(t) PROVE Goal
    <2>1. task'[t].pc = "restore" /\ task'[t].on = task[t].on /\ \A u \in Tasks \ {t} : task'[u] = task[u]
      <3> PICK ok : Result(t, ok) BY <1>14 DEF Inject, Commands
      <3> DEFINE r == [task[t] EXCEPT !.ok = ok, !.pc = "restore"]
      <3>1. r.pc = "restore" /\ r.on = task[t].on BY Updated
      <3>2. task[t].pc = "inject" BY <1>14 DEF Inject, At
      <3>3. Set(t, r) BY <3>2 DEF Result
      <3> HIDE DEF r
      <3> QED BY <3>1, <3>3, SetPc
    <2>2. UNCHANGED <<procs, lock, web, slock>> BY <1>14 DEF Inject, Commands
    <2>3. task[t].pc = "inject" BY <1>14 DEF Inject, At
    <2> QED BY <2>1, <2>2, <2>3 DEF Inv, HolderOfLock, HolderOfSession, Seeking
  <1>15. ASSUME Run(t) PROVE Goal
    <2>1. task'[t].pc = "close" /\ \A u \in Tasks \ {t} : task'[u] = task[u]
      <3> PICK ok : Result(t, ok) BY <1>15 DEF Run, Commands
      <3> DEFINE r == [task[t] EXCEPT !.ok = ok, !.pc = "close"]
      <3>1. r.pc = "close" BY Updated
      <3>2. task[t].pc = "run" BY <1>15 DEF Run, At
      <3>3. Set(t, r) BY <3>2 DEF Result
      <3> HIDE DEF r
      <3> QED BY <3>1, <3>3, SetPc
    <2>2. UNCHANGED <<procs, lock, web, slock>> BY <1>15 DEF Run, Commands
    <2>3. task[t].pc = "run" BY <1>15 DEF Run, At
    <2> QED BY <2>1, <2>2, <2>3 DEF Inv, HolderOfLock, HolderOfSession, Seeking
  <1> QED BY <1>1, <1>2, <1>3, <1>4, <1>5, <1>6, <1>7, <1>8, <1>9, <1>12, <1>13, <1>14, <1>15, <1>16 DEF TaskStep

\* A session stays paused only while the thread that paused it types.
LEMMA HoldPause ==
    ASSUME Inv, [Next]_vars
    PROVE  PausedIsHeld'
  <1> TypeOK BY DEF Inv
  <1>1. ASSUME UNCHANGED <<web, task>> PROVE PausedIsHeld' BY <1>1 DEF Inv, PausedIsHeld, Typing
  <1>2. ASSUME NEW w \in Webs, WebOpen(w) \/ WebLeave(w) \/ WebStep(w) PROVE PausedIsHeld'
    <2>1. \E pc, next : WebRule(w, pc, next)
      BY <1>2 DEF WebOpen, WebLeave, WebStep, WebLock, WebRefused, WebSpawn, WebRegister, WebCut, WebEnd, WebUnregister, WebClose
    <2>2. UNCHANGED task /\ \A v \in Webs : web'[v].paused = web[v].paused BY <2>1, TypeByParts DEF WebRule, Typed, WebType
    <2> QED BY <2>2 DEF Inv, PausedIsHeld, Typing
  <1>3. ASSUME NEW t \in Tasks, UNCHANGED web, ~Typing(t), \A u \in Tasks \ {t} : task'[u] = task[u] PROVE PausedIsHeld'
    BY <1>3 DEF Inv, PausedIsHeld, Typing
  <1>4. ASSUME NEW t \in Tasks, NEW r, Set(t, r), UNCHANGED web, ~Typing(t) PROVE PausedIsHeld' BY <1>3, <1>4, SetPc
  <1>5. ASSUME NEW t \in Tasks, Resume(t), \A u \in Tasks \ {t} : task'[u] = task[u] PROVE PausedIsHeld'
    <2>1. \A w \in Webs : web'[w].paused => web[w].paused /\ w # task[t].on
      BY <1>5, TypeByParts DEF Resume, Resumed, Typed, WebType
    <2>2. ASSUME NEW w \in Webs, web'[w].paused PROVE \E u \in Tasks : Typing(u)' /\ task'[u].on = w
      <3> PICK u \in Tasks : Typing(u) /\ task[u].on = w BY <2>1, <2>2 DEF Inv, PausedIsHeld
      <3> QED BY <1>5, <2>1, <2>2 DEF Typing
    <2> QED BY <2>2 DEF PausedIsHeld
  <1>6. ASSUME NEW t \in Tasks, Recheck(t) PROVE PausedIsHeld'
    <2>1. CASE Resume(t) /\ Direct(t) BY <1>5, <2>1, OutPc
    <2>2. CASE web' = [web EXCEPT ![task[t].on].paused = TRUE] /\ Goto(t, "inject")
      <3>1. task'[t].pc = "inject" /\ task'[t].on = task[t].on /\ \A u \in Tasks \ {t} : task'[u] = task[u]
        BY <2>2, SetPc, TypeByParts DEF Goto, TaskType, Typed
      <3>2. \A w \in Webs : web'[w].paused => web[w].paused \/ w = task[t].on
        BY <2>2, TypeByParts DEF Typed, WebType
      <3>3. ~Typing(t) BY <1>6 DEF Recheck, At, Typing
      <3> QED BY <3>1, <3>2, <3>3 DEF Inv, PausedIsHeld, Typing
    <2> QED BY <1>6, <2>1, <2>2 DEF Recheck
  <1>7. ASSUME NEW t \in Tasks, Restore(t) PROVE PausedIsHeld'
    <2>1. Direct(t) \/ \E ok : Over(t, ok) BY <1>7 DEF Restore
    <2> QED BY <1>5, <1>7, <2>1, OutPc DEF Restore
  <1>8. ASSUME NEW t \in Tasks, Inject(t) PROVE PausedIsHeld'
    <2> PICK ok : Result(t, ok) BY <1>8 DEF Inject, Commands
    <2> DEFINE r == [task[t] EXCEPT !.ok = ok, !.pc = "restore"]
    <2>1. r.pc = "restore" /\ r.on = task[t].on BY TypeByParts, Updated DEF Typed
    <2>2. task[t].pc = "inject" BY <1>8 DEF Inject, At
    <2>3. Set(t, r) BY <2>2 DEF Result
    <2> HIDE DEF r
    <2>4. task'[t].pc = "restore" /\ task'[t].on = task[t].on /\ \A u \in Tasks \ {t} : task'[u] = task[u] BY <2>1, <2>3, SetPc
    <2>5. UNCHANGED web BY <1>8 DEF Inject, Commands
    <2> QED BY <2>4, <2>5 DEF Inv, PausedIsHeld, Typing
  <1>9. ASSUME NEW t \in Tasks, Poll(t) \/ Probe(t) \/ Ready(t) \/ Claim(t) \/ Seek(t) \/ SessionLock(t) \/ Kick(t) \/ Take(t)
                                 \/ Finish(t) \/ Release(t) \/ \E kind \in {"extract", "capture"} : Ask(t, kind) PROVE PausedIsHeld'
    <2>1. UNCHANGED web /\ ~Typing(t)
      BY <1>9 DEF Poll, Probe, Ready, Claim, Seek, SessionLock, Kick, Take, Finish, Release, Ask, TaskRule, At, Typing
    <2>2. \E r : Set(t, r)
      BY <1>9 DEF Poll, Probe, Ready, Claim, Seek, SessionLock, Kick, Take, Finish, Release, Ask, Goto, Direct
    <2> QED BY <1>4, <2>1, <2>2
  <1>10. ASSUME NEW t \in Tasks, GiveUp(t) \/ Run(t) \/ Close(t) PROVE PausedIsHeld'
    <2>1. UNCHANGED web /\ ~Typing(t) BY <1>10 DEF GiveUp, Run, Close, Commands, At, Typing
    <2>2. Retry(t) \/ (\E ok : Over(t, ok)) \/ \E r : Set(t, r) BY <1>10 DEF GiveUp, Run, Close, Commands, Result
    <2> QED BY <1>3, <2>1, <2>2, OutPc, SetPc
  <1>11. ASSUME VmStep PROVE PausedIsHeld' BY <1>1, <1>11, VmFrame
  <1> QED
    BY <1>1, <1>2, <1>6, <1>7, <1>8, <1>9, <1>10, <1>11 DEF Next, VmStep, TaskStep, vars

LEMMA InvStep == Inv /\ [Next]_vars => Inv'
  <1> SUFFICES ASSUME Inv, [Next]_vars PROVE Inv' OBVIOUS
  <1>1. TypeOK' BY TypeStep DEF Inv
  <1>2. ASSUME Next PROVE HolderOfLock' /\ HolderOfSession' /\ Seeking' BY <1>2, HoldVm, HoldWeb, HoldTask DEF Next, VmStep
  <1>3. ASSUME UNCHANGED vars PROVE HolderOfLock' /\ HolderOfSession' /\ Seeking'
    BY <1>3 DEF vars, Inv, HolderOfLock, HolderOfSession, Seeking
  <1> QED BY <1>1, <1>2, <1>3, HoldPause DEF Inv

-----------------------------------------------------------------------------
LEMMA InvOneDriver == Inv => OneDriver
  <1> SUFFICES ASSUME Inv PROVE OneDriver OBVIOUS
  <1>1. ASSUME NEW S, NEW x, S \subseteq {x} PROVE Cardinality(S) <= 1
    <2>1. S = {} \/ S = {x} BY <1>1
    <2>2. Cardinality({}) = 0 BY FS_EmptySet
    <2>3. Cardinality({x}) = 1 BY FS_Singleton
    <2> QED BY <2>1, <2>2, <2>3
  <1>2. Cardinality(procs) <= 1 BY <1>1 DEF Inv, HolderOfLock
  <1>3. \A t, u \in Drivers : t = u
    <2> SUFFICES ASSUME NEW t \in Drivers, NEW u \in Drivers PROVE t = u OBVIOUS
    <2>1. t \in Tasks /\ u \in Tasks BY DEF Drivers
    <2>2. CASE At(t, "run") /\ At(u, "run") BY <2>1, <2>2 DEF Inv, HolderOfLock, At
    <2>3. ASSUME NEW a \in Drivers, NEW b \in Drivers, At(a, "run"), ~At(b, "run") PROVE FALSE
      <3>1. lock = a BY <2>3 DEF Drivers, Inv, HolderOfLock, At
      <3>2. task[b].on = lock BY <2>3 DEF Drivers, Inv, HolderOfLock
      <3>3. a \in Tasks /\ task[b].on \in Webs BY <2>3 DEF Drivers, Inv, HolderOfSession, At
      <3> QED BY <3>1, <3>2, <3>3, ConsoleAssumption
    <2>4. CASE ~At(t, "run") /\ ~At(u, "run")
      <3>1. task[t].on = lock /\ task[u].on = lock BY <2>4 DEF Drivers, Inv, HolderOfLock
      <3>2. slock[task[t].on] = t /\ slock[task[u].on] = u BY <2>4 DEF Drivers, Inv, HolderOfSession, At
      <3> QED BY <3>1, <3>2
    <2> QED BY <2>2, <2>3, <2>4
  <1>4. \E x : Drivers \subseteq {x} BY <1>3
  <1>5. Cardinality(Drivers) <= 1 BY <1>1, <1>4
  <1> QED BY <1>2, <1>5 DEF OneDriver, Inv, PausedIsHeld, Typing

\* One console process of the domain lives at a time, one thread types on it,
\* and a session is paused only in its hands, for any number of sessions,
\* threads, retries and restarts.
THEOREM OneDriverAlways == Spec => []OneDriver
  BY InvInit, InvStep, InvOneDriver, PTL DEF Spec
=============================================================================
