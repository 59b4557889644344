------------------------------ MODULE Consoles ------------------------------
(***************************************************************************)
(* The serial console of one VM on its agent: web sessions, configuration  *)
(* extraction, command capture, post-boot commands and the readiness probe *)
(* share it through the lock of the domain, the registry of sessions and   *)
(* the lock of a session; the post-boot flags and the console's control    *)
(* state outlive them.                                                     *)
(***************************************************************************)
EXTENDS Naturals, FiniteSets
CONSTANTS Webs,       \* bound: web sessions, each opened once
          Tasks,      \* bound: threads of automation at once
          Askers,     \* bound: those of them that may extract or capture
          NoOne, Retries,
          MaxBoots    \* bound: starts of the VM
ASSUME ConsoleAssumption ==
    /\ Webs \cap Tasks = {} /\ Askers \subseteq Tasks /\ NoOne \notin Webs \cup Tasks
    /\ Retries \in Nat /\ MaxBoots \in Nat
VARIABLES
    vm,      \* [run, boot, up: the guest has booted, step: of a start, or
             \* whether the domain is defined, auto: see Ready]
    procs,   \* the owners of live console processes of the domain
    lock,    \* holder of the domain's console lock
    reg,     \* the registered web session
    web,     \* web sessions: their handlers, and whether their I/O is paused
    slock,   \* holders of the sessions' locks
    task,    \* the threads that extract, capture, run commands or probe
    flags,   \* [done, busy: post-boot commands; extracting; ready: the node's row]
    control  \* the control state users see
vars == <<vm, procs, lock, reg, web, slock, task, flags, control>>

Idle == [kind |-> "none", pc |-> "none", on |-> NoOne, boot |-> 0, ok |-> "no", left |-> 0]
Kinds == {"none", "post", "extract", "capture", "probe"}
Results == {"no", "yes", "later"}
TaskPcs == {"none", "ask", "claim", "seek", "slock", "recheck", "inject", "restore", "direct", "wait", "run", "close", "finish", "free"}
\* Types; the retries of a thread never pass their number.
TypeOK ==
    /\ vm \in [run : BOOLEAN, boot : 0..MaxBoots, up : BOOLEAN, auto : BOOLEAN,
               step : {"gone", "defined", "define", "clear", "mark", "create"}]
    /\ procs \subseteq Webs \cup Tasks
    /\ lock \in Webs \cup Tasks \cup {NoOne} /\ reg \in Webs \cup {NoOne} /\ control \in {"interactive", "read_only"}
    /\ web \in [Webs -> [pc : {"none", "wait", "held", "spawned", "open", "closing", "unreg", "over"}, paused : BOOLEAN]]
    /\ slock \in [Webs -> Tasks \cup {NoOne}]
    /\ task \in [Tasks -> [kind : Kinds, pc : TaskPcs, on : Webs \cup {NoOne}, boot : 0..MaxBoots, ok : Results, left : 0..Retries]]
    /\ flags \in [done : BOOLEAN, busy : BOOLEAN, extracting : BOOLEAN, ready : BOOLEAN]
Init ==
    /\ \E auto \in BOOLEAN :
          vm = [run |-> FALSE, boot |-> 0, up |-> FALSE, auto |-> auto, step |-> "gone"]
    /\ procs = {} /\ lock = NoOne /\ reg = NoOne
    /\ web = [w \in Webs |-> [pc |-> "none", paused |-> FALSE]] /\ slock = [w \in Webs |-> NoOne]
    /\ task = [t \in Tasks |-> Idle] /\ control = "interactive"
    /\ flags = [done |-> FALSE, busy |-> FALSE, extracting |-> FALSE, ready |-> FALSE]

-----------------------------------------------------------------------------
\* The libvirt thread.  A deployment creates the domain, forgets the last
\* boot and announces the post-boot commands; a domain that is only off is
\* created last.  The controller takes the node for not ready first.
VmRule == UNCHANGED <<lock, reg, web, slock, task>>
Start == /\ ~vm.run /\ vm.step \in {"gone", "defined"} /\ vm.boot < MaxBoots
         /\ vm' = [vm EXCEPT !.boot = @ + 1, !.step = IF @ = "gone" THEN "define" ELSE "clear"]
         /\ flags' = [flags EXCEPT !.ready = FALSE] /\ VmRule /\ UNCHANGED <<procs, control>>
Create == /\ vm.step \in {"define", "create"} /\ VmRule /\ UNCHANGED <<procs, flags>>
          /\ \/ /\ vm' = [vm EXCEPT !.run = TRUE, !.step = IF @ = "define" THEN "clear" ELSE "defined"]
                /\ UNCHANGED control
             \/ /\ vm' = [vm EXCEPT !.step = "defined"]
                /\ control' = IF vm.step = "create" THEN "interactive" ELSE control
Forget == flags' = [flags EXCEPT !.done = FALSE, !.busy = FALSE, !.ready = FALSE] /\ control' = "interactive"
Clear == vm.step = "clear" /\ vm' = [vm EXCEPT !.step = "mark"] /\ Forget /\ VmRule /\ UNCHANGED procs
Mark == /\ vm.step = "mark" /\ vm' = [vm EXCEPT !.step = IF vm.run THEN "defined" ELSE "create"]
        /\ control' = "read_only" /\ VmRule /\ UNCHANGED <<procs, flags>>
\* stop_node removes the VM; a guest may also power itself off.  Both end
\* its console processes.
Stop == /\ vm.step = "defined" /\ vm' = [vm EXCEPT !.run = FALSE, !.up = FALSE, !.step = "gone"]
        /\ procs' = {} /\ Forget /\ VmRule
PowerOff == /\ vm.run /\ vm.step = "defined" /\ vm' = [vm EXCEPT !.run = FALSE, !.up = FALSE]
            /\ procs' = {} /\ VmRule /\ UNCHANGED <<flags, control>>
\* The guest comes to the point where its probe finds it booted.
Boots == /\ vm.run /\ ~vm.up /\ vm' = [vm EXCEPT !.up = TRUE] /\ VmRule /\ UNCHANGED <<procs, flags, control>>

-----------------------------------------------------------------------------
\* _console_websocket_libvirt.  The processes of the domain are killed
\* before the lock is taken, whoever holds it.
WebRule(w, pc, next) == /\ web[w].pc = pc /\ web' = [web EXCEPT ![w].pc = next]
                        /\ UNCHANGED <<vm, slock, task, flags, control>>
Free == lock = NoOne
WebOpen(w) == vm.run /\ WebRule(w, "none", "wait") /\ procs' = {} /\ UNCHANGED <<lock, reg>>
WebLock(w) == Free /\ WebRule(w, "wait", "held") /\ lock' = w /\ UNCHANGED <<procs, reg>>
WebRefused(w) == ~Free /\ WebRule(w, "wait", "over") /\ UNCHANGED <<procs, lock, reg>>
WebSpawn(w) == /\ WebRule(w, "held", "spawned") /\ procs' = IF vm.run THEN procs \cup {w} ELSE procs
               /\ UNCHANGED <<lock, reg>>
WebRegister(w) == /\ WebRule(w, "spawned", IF w \in procs THEN "open" ELSE "closing") /\ reg' = w
                  /\ UNCHANGED <<procs, lock>>
WebEnd(w) == WebRule(w, "open", "closing") /\ UNCHANGED <<procs, lock, reg>>
WebLeave(w) == w \in procs /\ WebEnd(w)
WebCut(w) == w \notin procs /\ WebEnd(w)
\* It waits five seconds for an extraction on its terminal and unregisters anyway.
WebUnregister(w) == WebRule(w, "closing", "unreg") /\ reg' = NoOne /\ UNCHANGED <<procs, lock>>
WebClose(w) == WebRule(w, "unreg", "over") /\ procs' = procs \ {w} /\ lock' = NoOne /\ UNCHANGED reg

-----------------------------------------------------------------------------
At(t, pc) == task[t].pc = pc
Set(t, r) == task' = [task EXCEPT ![t] = r]
Goto(t, pc) == Set(t, [task[t] EXCEPT !.pc = pc])
Fresh(kind, pc) == [kind |-> kind, pc |-> pc, on |-> NoOne, ok |-> "no", left |-> Retries,
                    boot |-> IF kind = "post" THEN vm.boot ELSE 0]
\* What is over: post-boot commands are accounted for, and an extraction on
\* a console of its own is off.
Over(t, ok) == /\ Set(t, IF task[t].kind = "post"
                            THEN [task[t] EXCEPT !.pc = "finish", !.ok = ok, !.on = NoOne, !.left = 0]
                            ELSE Idle)
               /\ flags' = IF task[t].kind = "extract" /\ task[t].on = NoOne THEN [flags EXCEPT !.extracting = FALSE] ELSE flags

\* check_readiness looks the domain up on the libvirt thread and awaits its
\* probe.  A guest that is not up is not ready, and nothing changes.
Poll(t) ==
    /\ vm.run /\ vm.step = "defined" /\ vm.up /\ ~flags.ready /\ At(t, "none") /\ Set(t, Fresh("post", "ask"))
    /\ UNCHANGED <<vm, procs, lock, reg, web, slock, flags, control>>
\* The caller hears that the node is ready whatever becomes of the commands,
\* if it still listens; nobody waits for an answer across a restart of the VM.
Answers(t) == IF vm.run /\ vm.step = "defined" /\ task[t].boot = vm.boot THEN {flags, [flags EXCEPT !.ready = TRUE]} ELSE {flags}
\* A guest found ready over SSH, or on an agent without pexpect, is ready
\* without the post-boot commands (auto = FALSE).  Any other enters
\* run_vm_post_boot_commands, which runs them once.
Ready(t) ==
    /\ At(t, "ask") /\ UNCHANGED <<vm, procs, lock, reg, web, slock>>
    /\ \/ ~vm.auto /\ Set(t, Idle) /\ flags' \in Answers(t) /\ UNCHANGED control
       \/ vm.auto /\ flags.done /\ Set(t, Idle) /\ control' = "interactive" /\ flags' \in Answers(t)
       \/ vm.auto /\ ~flags.done /\ flags.busy /\ Set(t, Idle) /\ control' = "read_only" /\ flags' \in Answers(t)
       \/ /\ vm.auto /\ ~flags.done /\ ~flags.busy /\ flags' = [flags EXCEPT !.busy = TRUE]
          /\ Goto(t, "claim") /\ UNCHANGED control
Claim(t) == /\ At(t, "claim") /\ Goto(t, "seek") /\ control' = "read_only"
            /\ UNCHANGED <<vm, procs, lock, reg, web, slock, flags>>
\* extract_vm_config, run_vm_cli_commands
Ask(t, kind) == /\ t \in Askers /\ vm.run /\ At(t, "none") /\ Set(t, Fresh(kind, "seek"))
                /\ UNCHANGED <<vm, procs, lock, reg, web, slock, flags, control>>
\* The readiness probe reads the console if nobody has it, and kills nobody.
Probe(t) == /\ vm.run /\ ~flags.ready /\ At(t, "none") /\ Free /\ ~flags.extracting /\ lock' = t /\ procs' = procs \cup {t}
            /\ Set(t, [Fresh("probe", "close") EXCEPT !.ok = "yes"]) /\ UNCHANGED <<vm, reg, web, slock, flags, control>>

\* piggyback_extract, piggyback_run_commands, piggyback_run_commands_capture
TaskRule == UNCHANGED <<vm, procs, lock, reg>>
Direct(t) == /\ Set(t, [task[t] EXCEPT !.pc = "direct", !.on = NoOne])
             /\ flags' = IF task[t].kind = "extract" THEN [flags EXCEPT !.extracting = TRUE] ELSE flags
Seek(t) == /\ At(t, "seek") /\ TaskRule /\ UNCHANGED <<web, slock, control>>
           /\ \/ reg = NoOne /\ Direct(t)
              \/ reg # NoOne /\ Set(t, [task[t] EXCEPT !.pc = "slock", !.on = reg]) /\ UNCHANGED flags
\* mutant: the lock of a session does not keep others off
SessionFreeAnyway(t) == TRUE
SessionFree(t) == slock[task[t].on] = NoOne
SessionLock(t) == /\ At(t, "slock") /\ TaskRule /\ UNCHANGED <<web, control>>
                  /\ \/ /\ SessionFree(t) /\ slock' = [slock EXCEPT ![task[t].on] = t] /\ Goto(t, "recheck") /\ UNCHANGED flags
                     \/ ~SessionFree(t) /\ Direct(t) /\ UNCHANGED slock
\* mutant: a failed injection leaves without resuming the user's I/O
ResumedIfOk(t) == [web EXCEPT ![task[t].on].paused = task[t].ok = "no"]
Resumed(t) == [web EXCEPT ![task[t].on].paused = FALSE]
\* However it leaves a session, the console is interactive again.
Resume(t) == control' = "interactive" /\ web' = Resumed(t) /\ slock' = [slock EXCEPT ![task[t].on] = NoOne]
Recheck(t) ==
    /\ At(t, "recheck") /\ TaskRule
    /\ \/ /\ reg = NoOne /\ Direct(t) /\ Resume(t)
       \/ /\ reg # NoOne /\ web' = [web EXCEPT ![task[t].on].paused = TRUE] /\ control' = "read_only"
          /\ Goto(t, "inject") /\ UNCHANGED <<slock, flags>>
\* Commands go well, though those of a console of its own may time out one
\* by one, or not; post-boot commands that meet a login prompt on a session
\* are left for later, and that is a success.
Result(t, ok) == Set(t, [task[t] EXCEPT !.ok = ok, !.pc = IF @ = "run" THEN "close" ELSE "restore"])
Commands(t, console) ==
    /\ UNCHANGED <<vm, procs, lock, reg, web, slock, flags, control>>
    /\ \/ console \in procs /\ vm.up /\ Result(t, "yes")
       \/ console \in procs /\ vm.up /\ At(t, "inject") /\ task[t].kind = "post" /\ Result(t, "later")
       \/ Result(t, "no")
Inject(t) == At(t, "inject") /\ Commands(t, task[t].on)
Restore(t) ==
    /\ At(t, "restore") /\ TaskRule /\ Resume(t)
    /\ IF task[t].ok # "no" \/ task[t].kind # "extract" THEN Over(t, task[t].ok) ELSE Direct(t)

\* extract_config, run_commands, run_commands_capture without a session:
\* kill, wait a minute for the lock, spawn, run, close; then again.
Kick(t) == /\ At(t, "direct") /\ Goto(t, "wait") /\ procs' = IF task[t].kind = "capture" /\ reg # NoOne THEN procs ELSE {}
           /\ UNCHANGED <<vm, lock, reg, web, slock, flags, control>>
Take(t) == /\ At(t, "wait") /\ Free /\ lock' = t /\ procs' = IF vm.run THEN procs \cup {t} ELSE procs
           /\ Goto(t, "run") /\ UNCHANGED <<vm, reg, web, slock, flags, control>>
\* mutant: it may try once more than it should
AgainOnce(t) == TRUE
Again(t) == task[t].left > 0
Retry(t) == IF Again(t) THEN Set(t, [task[t] EXCEPT !.pc = "direct", !.left = @ - 1]) /\ UNCHANGED flags ELSE Over(t, "no")
\* mutant: the lock is waited for without a limit
TimesOutNever(t) == FALSE
TimesOut(t) == ~Free
GiveUp(t) == At(t, "wait") /\ TimesOut(t) /\ Retry(t) /\ TaskRule /\ UNCHANGED <<web, slock, control>>
Run(t) == At(t, "run") /\ Commands(t, t)
Close(t) == /\ At(t, "close") /\ procs' = procs \ {t} /\ lock' = NoOne
            /\ (IF task[t].ok = "no" THEN Retry(t) ELSE Over(t, task[t].ok)) /\ UNCHANGED <<vm, reg, web, slock, control>>

\* The end of run_vm_post_boot_commands, in two steps.
Finish(t) == /\ At(t, "finish") /\ Goto(t, "free") /\ flags' = [flags EXCEPT !.done = @ \/ task[t].ok # "no", !.busy = FALSE]
             /\ TaskRule /\ UNCHANGED <<web, slock, control>>
\* mutant: control comes back only after commands that went well
HandedBackIfOk(t) == control' = IF task[t].ok = "no" THEN control ELSE "interactive"
HandedBack(t) == control' = "interactive"
Release(t) == /\ At(t, "free") /\ Set(t, Idle) /\ HandedBack(t) /\ flags' \in Answers(t)
              /\ TaskRule /\ UNCHANGED <<web, slock>>

-----------------------------------------------------------------------------
WebStep(w) == WebLock(w) \/ WebRefused(w) \/ WebSpawn(w) \/ WebRegister(w) \/ WebCut(w) \/ WebUnregister(w) \/ WebClose(w)
TaskStep(t) ==
    \/ Ready(t) \/ Claim(t) \/ Seek(t) \/ SessionLock(t) \/ Recheck(t) \/ Inject(t) \/ Restore(t) \/ Kick(t) \/ Take(t)
    \/ GiveUp(t) \/ Run(t) \/ Close(t) \/ Finish(t) \/ Release(t)
Next ==
    \/ Start \/ Create \/ Clear \/ Mark \/ Stop \/ PowerOff \/ Boots
    \/ \E w \in Webs : WebOpen(w) \/ WebLeave(w) \/ WebStep(w)
    \/ \E t \in Tasks : Poll(t) \/ Probe(t) \/ TaskStep(t) \/ \E kind \in {"extract", "capture"} : Ask(t, kind)
Spec == Init /\ [][Next]_vars
\* Threads and handlers run on, whatever users do with their sessions, the
\* controller asks for readiness until the node is ready (strongly: its thread
\* comes from a pool larger than Tasks), and, of the guest and not of the
\* code, a VM that stays on boots in the end.
FairSpec == /\ Spec /\ \A w \in Webs : WF_vars(WebStep(w)) /\ \A t \in Tasks : WF_vars(TaskStep(t))
            /\ SF_vars(\E t \in Tasks : Poll(t)) /\ WF_vars(Create \/ Clear \/ Mark) /\ WF_vars(Boots)

-----------------------------------------------------------------------------
Drivers == {t \in Tasks : At(t, "run") /\ t \in procs} \cup {t \in Tasks : At(t, "inject") /\ task[t].on \in procs}
\* One console process of the domain lives at a time, though processes are
\* killed under their owners, one thread at a time types on it, and a session
\* is paused only in the hands of the thread that types on it.
OneDriver == /\ Cardinality(procs) <= 1 /\ Cardinality(Drivers) <= 1
             /\ \A w \in Webs : web[w].paused =>
                   \E t \in Tasks : task[t].pc \in {"inject", "restore"} /\ task[t].on = w
\* Every thread ends, even while a user keeps the console open for ever.
TasksEnd == \A t \in Tasks : task[t].pc # "none" ~> task[t].pc = "none"
\* A VM that is set up over its console and stays on, is not left view-only:
\* the state a start, a poll or a thread has set is taken back however they
\* interleave across restarts.
Restored == vm.auto /\ control = "read_only" ~> control = "interactive" \/ ~vm.run
\* "Post-boot commands will run on the next readiness cycle after user logs
\* in": the thread that left them for later does not put them down as done.
LaterIsNotDone == [][\A t \in Tasks : At(t, "finish") /\ task[t].ok = "later" /\ flags'.done => flags.done]_vars
=============================================================================
