------------------------------ MODULE Agents ------------------------------
(***************************************************************************)
(* One agent and its host row: registration and heartbeats, the marking of *)
(* silent agents, restarts and what the controller does about them, and    *)
(* software updates, in which a task of the agent changes its checkout and *)
(* reports to the update row while the controller's handler, the next      *)
(* registration and the health check write that row too.                   *)
(***************************************************************************)
EXTENDS Naturals
CONSTANTS Versions,    \* commits, each with a version string of its own
          Latest,      \* the controller's version and commit
          Installed,   \* what the agent runs at first
          Requests,    \* bound: targets asked for, a version or a commit
          Updates,     \* bound: update rows, numbered as they are created
          Jobs,        \* bound: lab jobs on this agent
          FixedIds,    \* whether an agent id is configured (else each start makes one up)
          MaxStarts,   \* bound: processes of the agent
          MaxEvents    \* bound: updates, deregistrations, crashes, failed commands, lost messages
ASSUME AgentAssumption ==
    /\ {Latest, Installed} \subseteq Versions /\ "none" \notin Versions
    /\ Requests \subseteq [sha : BOOLEAN, v : Versions] /\ Updates \subseteq Nat /\ FixedIds \subseteq BOOLEAN /\ MaxStarts \in Nat \ {0} /\ MaxEvents \in Nat
VARIABLES
    host,    \* the host row: status, heartbeat too old, process and version it knows
    agent,   \* [up, open: serves requests, fixed, id, reg, inc: its process, ver: the code it loaded]
    repo,    \* the checkout: its head, and the rollback sentinel
    ran,     \* history: versions some process of the agent has loaded
    entry,   \* the registration in progress at the controller
    update,  \* the update rows: status, target, age (over 300 s, over the timeout), dated
    ask,     \* the request handler that waits for the agent's answer to an update
    task,    \* the update tasks of the agent, from the request on
    late,    \* reports their sender gave up on, which may still arrive
    job,     \* lab jobs of this agent whose rows run: the process that executes them
    spent    \* the events and faults used
vars == <<host, agent, repo, ran, entry, update, ask, task, late, job, spent>>

Active == {"pending", "downloading", "installing", "restarting"}
Ended == {"completed", "failed"}
Targets == [sha : BOOLEAN, v : Versions]
Starts == 0..MaxStarts
NoMark == [prev |-> "none", to |-> "none"]
NoEntry == [pc |-> "none", restart |-> FALSE, ver |-> Installed, commit |-> Installed]
NoHost == [st |-> "none", stale |-> FALSE, since |-> 0, ver |-> Installed]
NoUpdate == [st |-> "none", to |-> [sha |-> FALSE, v |-> Latest], age |-> 0, dated |-> FALSE]
NoTask == [pc |-> "none", ref |-> Latest, prev |-> Latest]
Phases == {"none", "asked", "fetch", "ready", "marked", "unmark", "changed", "install", "done", "restart"}
\* Types of the rows, the processes and the messages: in a row, what its
\* model declares, whoever writes it.
TypeOK ==
    /\ host \in [st : {"none", "online", "offline"}, stale : BOOLEAN, since : Starts, ver : Versions]
    /\ agent \in [up : BOOLEAN, open : BOOLEAN, fixed : BOOLEAN, id : {"row", "own"}, reg : BOOLEAN,
                  inc : Starts, ver : Versions]
    /\ repo \in [head : Versions, mark : [prev : Versions, to : Versions] \cup {NoMark}] /\ ran \subseteq Versions
    /\ entry \in [pc : {"none", "cleanup", "check", "reply"}, restart : BOOLEAN, ver : Versions, commit : Versions]
    /\ update \in [Updates -> [st : Active \cup Ended \cup {"none"}, to : Targets, age : 0..2, dated : BOOLEAN]]
    /\ ask \in [Updates -> {"none", "sent", "accepted"}] /\ late \subseteq Updates \X (Active \cup Ended)
    /\ task \in [Updates -> [pc : Phases, ref : Versions, prev : Versions]]
    /\ job \in [Jobs -> Starts]
    /\ spent \in 0..MaxEvents

Init ==
    /\ host = NoHost /\ repo = [head |-> Installed, mark |-> NoMark] /\ ran = {Installed} /\ spent = 0
    /\ agent \in [up : {FALSE}, open : {FALSE}, fixed : FixedIds, id : {"row"}, reg : {FALSE}, inc : {0}, ver : {Installed}]
    /\ entry = NoEntry /\ update = [u \in Updates |-> NoUpdate] /\ ask = [u \in Updates |-> "none"]
    /\ task = [u \in Updates |-> NoTask] /\ late = {}
    /\ job = [j \in Jobs |-> 0]
Event == spent < MaxEvents /\ spent' = spent + 1
Fault == Event

-----------------------------------------------------------------------------
\* lifespan: the process has loaded the checkout when it looks for a
\* rollback sentinel, and serves requests after its first registration.
\* mutant: a missing sentinel is not noticed
RolledBackBlind(head, mark) == IF head = mark.to THEN head ELSE mark.prev
RolledBack(head, mark) == IF mark = NoMark \/ head = mark.to THEN head ELSE mark.prev
Boot ==
    /\ ~agent.up /\ agent.inc < MaxStarts
    /\ agent' = [agent EXCEPT !.up = TRUE, !.id = IF agent.fixed THEN "row" ELSE "own", !.inc = @ + 1, !.ver = repo.head]
    /\ ran' = ran \cup {repo.head}
    /\ repo' = [head |-> RolledBack(repo.head, repo.mark), mark |-> NoMark]
    /\ UNCHANGED <<host, entry, update, ask, task, late, job, spent>>
Dead == /\ agent' = [agent EXCEPT !.up = FALSE, !.open = FALSE, !.reg = FALSE]
        /\ task' = [u \in Updates |-> IF task[u].pc = "asked" THEN task[u] ELSE NoTask]
        /\ UNCHANGED <<host, repo, ran, entry, update, ask, late, job>>
Crash == Fault /\ agent.up /\ Dead
\* systemctl restart, two seconds after the last report
Restart(u) == agent.up /\ task[u].pc = "restart" /\ Dead /\ UNCHANGED spent

-----------------------------------------------------------------------------
\* register_agent, three commits one after the other.  An agent known by
\* name or address only is not compared with the process the row knows.
Registering == agent.up /\ ~agent.reg /\ entry = NoEntry
Restarted == host.st # "none" /\ agent.id = "row" /\ agent.inc > host.since
Register ==
    /\ Registering /\ UNCHANGED <<agent, repo, ran, update, ask, task, late, job, spent>>
    /\ host' = [st |-> "online", stale |-> FALSE, since |-> agent.inc, ver |-> agent.ver]
    /\ entry' = [pc |-> IF Restarted THEN "cleanup" ELSE "check", restart |-> Restarted,
                 ver |-> agent.ver, commit |-> repo.head]
\* The request did not arrive: the agent starts serving and tries again.
RegisterLost == /\ Registering /\ Fault /\ agent' = [agent EXCEPT !.open = TRUE]
                /\ UNCHANGED <<host, repo, ran, entry, update, ask, task, late, job>>
Cleanup ==
    /\ entry.pc = "cleanup" /\ entry' = [entry EXCEPT !.pc = "check"]
    /\ job' = [j \in Jobs |-> 0]
    /\ UNCHANGED <<host, agent, repo, ran, update, ask, task, late, spent>>
\* _check_update_completion: a version is compared with what the process
\* loaded, a commit with what the checkout holds.
\* mutant: a restart is enough
MatchesAnyway(e, to) == e.restart \/ (IF to.sha THEN e.commit = to.v ELSE e.ver = to.v)
Matches(e, to) == IF to.sha THEN e.commit = to.v ELSE e.ver = to.v
Checked(u) ==
    IF update[u].st \notin Active THEN update[u]
    ELSE IF Matches(entry, update[u].to) THEN [update[u] EXCEPT !.st = "completed"]
    ELSE IF update[u].age > 0 THEN [update[u] EXCEPT !.st = "failed"] ELSE update[u]
Check == /\ entry.pc = "check" /\ entry' = [entry EXCEPT !.pc = "reply"]
         /\ update' = [u \in Updates |-> Checked(u)]
         /\ UNCHANGED <<host, agent, repo, ran, ask, task, late, job, spent>>
\* The answer, with the id of the row; it may be lost, and the agent may be
\* another process by now.
Reply ==
    /\ entry.pc = "reply" /\ entry' = NoEntry
    /\ \/ /\ agent.up /\ agent.inc = host.since /\ UNCHANGED spent
          /\ agent' = [agent EXCEPT !.open = TRUE, !.reg = TRUE, !.id = "row"]
       \/ agent.up /\ Fault /\ agent' = [agent EXCEPT !.open = TRUE]
       \/ (~agent.up \/ agent.inc # host.since) /\ UNCHANGED <<agent, spent>>
    /\ UNCHANGED <<host, repo, ran, update, ask, task, late, job>>
\* send_heartbeat and heartbeat: anything but a good answer means registering anew.
\* mutant: a heartbeat of an agent without a row is answered as any other
KnownAlways == TRUE
Known == host.st # "none" /\ agent.id = "row"
Heartbeat ==
    /\ agent.up /\ agent.reg /\ (~Known \/ host.st # "online" \/ host.stale)
    /\ host' = IF Known THEN [host EXCEPT !.st = "online", !.stale = FALSE] ELSE host
    /\ agent' = [agent EXCEPT !.reg = Known]
    /\ UNCHANGED <<repo, ran, entry, update, ask, task, late, job, spent>>
HeartbeatLost == /\ agent.up /\ agent.reg /\ Fault /\ agent' = [agent EXCEPT !.reg = FALSE]
                 /\ UNCHANGED <<host, repo, ran, entry, update, ask, task, late, job>>
\* No heartbeat for ninety seconds, and update_stale_agents.
HostRule == UNCHANGED <<agent, repo, ran, entry, update, ask, task, late, job, spent>>
Silence == HostRule /\ ~agent.reg /\ host.st = "online" /\ ~host.stale /\ host' = [host EXCEPT !.stale = TRUE]
MarkStale == HostRule /\ host.st = "online" /\ host.stale /\ host' = [host EXCEPT !.st = "offline"]
\* mark_agent_offline: a job's call found no connection to the agent, which
\* may be down or only not answer this once.
Unreachable ==
    /\ host.st = "online" /\ host' = [host EXCEPT !.st = "offline"]
    /\ (IF agent.open THEN Fault ELSE UNCHANGED spent)
    /\ UNCHANGED <<agent, repo, ran, entry, update, ask, task, late, job>>
\* unregister_agent: update rows go with the host row, jobs are unassigned.
Unregister ==
    /\ Event /\ host.st # "none" /\ host' = NoHost /\ update' = [u \in Updates |-> NoUpdate]
    /\ job' = [j \in Jobs |-> 0]
    /\ UNCHANGED <<agent, repo, ran, entry, ask, task, late>>

-----------------------------------------------------------------------------
\* trigger_agent_update.  A version is checked out as the controller's own
\* commit, whatever version was asked for.
Ref(to) == IF to.sha THEN to.v ELSE Latest
Running(u) == update[u].st \in Active
Reaches == UNCHANGED <<host, agent, repo, ran, entry, late, job>>
Trigger(u, to) ==
    /\ Event /\ host.st = "online" /\ update[u] = NoUpdate /\ task[u] = NoTask /\ ask[u] = "none" /\ Reaches
    /\ \A o \in Updates : /\ Running(o) => update[o].age > 0
                         /\ o < u => update[o] # NoUpdate \/ task[o] # NoTask
    /\ to.sha \/ host.ver # to.v
    /\ update' = [o \in Updates |-> IF o = u THEN [NoUpdate EXCEPT !.st = "pending", !.to = to]
                                    ELSE IF Running(o) THEN [update[o] EXCEPT !.st = "failed"] ELSE update[o]]
    /\ ask' = [ask EXCEPT ![u] = "sent"] /\ task' = [task EXCEPT ![u] = [NoTask EXCEPT !.pc = "asked", !.ref = Ref(to)]]
\* trigger_update at the agent starts a task beside any other.
Receive(u) == /\ task[u].pc = "asked" /\ agent.open /\ ask' = [ask EXCEPT ![u] = "accepted"]
              /\ task' = [task EXCEPT ![u].pc = "fetch"] /\ Reaches /\ UNCHANGED <<update, spent>>
\* The answer is written over what the task has reported since.
Write(u, st) == IF update[u].st = "none" THEN update[u] ELSE [update[u] EXCEPT !.st = st]
Dated(u) == IF update[u].st = "none" THEN update[u] ELSE [Write(u, "downloading") EXCEPT !.age = 0, !.dated = TRUE]
Answer(u) ==
    /\ ask' = [ask EXCEPT ![u] = "none"] /\ Reaches
    /\ \/ ask[u] = "accepted" /\ update' = [update EXCEPT ![u] = Dated(u)] /\ UNCHANGED <<task, spent>>
       \/ ask[u] = "accepted" /\ Fault /\ update' = [update EXCEPT ![u] = Write(u, "failed")] /\ UNCHANGED task
       \/ /\ ask[u] = "sent" /\ (IF agent.open THEN Fault ELSE UNCHANGED spent)
          /\ update' = [update EXCEPT ![u] = Write(u, "failed")] /\ task' = [task EXCEPT ![u] = NoTask]
\* update_progress_callback takes any report on any row.
Reported(u, st) == IF st = "downloading" /\ ~update[u].dated THEN Dated(u) ELSE Write(u, st)
\* A report arrives, or its sender gives it up: it is lost, or handled later.
Arrives(u, st) == update' = [update EXCEPT ![u] = Reported(u, st)] /\ UNCHANGED late
Missed(u, st) == late' \in {late, late \cup {<<u, st>>}} /\ UNCHANGED update
Report(u, st) == \/ Arrives(u, st) /\ UNCHANGED spent
                 \/ Fault /\ Missed(u, st)
Arrive(m) == /\ late' = late \ {m} /\ update' = [update EXCEPT ![m[1]] = Reported(m[1], m[2])]
             /\ UNCHANGED <<host, agent, repo, ran, entry, ask, task, job, spent>>

\* perform_systemd_update.  A status reported twice is reported once here.
Doing(u, pc, next) == /\ task[u].pc = pc /\ task' = [task EXCEPT ![u].pc = next]
                      /\ UNCHANGED <<host, agent, ran, entry, ask, job>>
Says(u, pc, st, next) == Doing(u, pc, next) /\ Report(u, st) /\ UNCHANGED repo
Fetch(u) == /\ task[u].pc = "fetch" /\ Report(u, "downloading")
            /\ task' = [task EXCEPT ![u].pc = "ready", ![u].prev = repo.head]
            /\ UNCHANGED <<host, agent, repo, ran, entry, ask, job>>
Works(u, pc, next) == Doing(u, pc, next) /\ UNCHANGED <<update, late, spent>>
Sentinel(u) == Works(u, "ready", "marked") /\ repo' = [repo EXCEPT !.mark = [prev |-> task[u].prev, to |-> task[u].ref]]
Checkout(u) == Works(u, "marked", "changed") /\ repo' = [repo EXCEPT !.head = task[u].ref]
\* A command fails or takes too long, and so does the report, perhaps.  The
\* sentinel goes after a checkout that failed, but stays when the checkout
\* took too long, whether it changed the head or not; after the installation
\* sentinel and checkout stay as they are.
Fails(u) == /\ Fault /\ (Arrives(u, "failed") \/ Missed(u, "failed"))
            /\ UNCHANGED <<host, agent, ran, entry, ask, job>>
            /\ \/ task[u].pc \in {"fetch", "ready", "done"} /\ task' = [task EXCEPT ![u] = NoTask] /\ UNCHANGED repo
               \/ task[u].pc = "marked" /\ task' = [task EXCEPT ![u].pc = "unmark"] /\ UNCHANGED repo
               \/ /\ task[u].pc = "marked" /\ task' = [task EXCEPT ![u] = NoTask]
                  /\ repo' \in {repo, [repo EXCEPT !.head = task[u].ref]}
Unmark(u) == /\ task[u].pc = "unmark" /\ task' = [task EXCEPT ![u] = NoTask] /\ repo' = [repo EXCEPT !.mark = NoMark]
             /\ UNCHANGED <<host, agent, ran, entry, update, ask, late, job, spent>>
Perform(u) ==
    \/ Fetch(u) \/ Sentinel(u) \/ Checkout(u) \/ Unmark(u) \/ Restart(u)
    \/ Says(u, "changed", "downloading", "install") \/ Says(u, "install", "installing", "done")
    \/ Says(u, "done", "restarting", "restart")

-----------------------------------------------------------------------------
RowRule == UNCHANGED <<host, agent, repo, ran, entry, ask, task, late, job, spent>>
Age(u) == /\ RowRule /\ Running(u) /\ ask[u] = "none" /\ update[u].age < 2
          /\ update' = [update EXCEPT ![u].age = @ + 1]
\* check_stuck_agent_updates
\* mutant: updates the agent has not answered are left alone
StuckAnswered(u) == update[u].st \in Active \ {"pending"} /\ (host.st = "offline" \/ update[u].age = 2)
Stuck(u) == update[u].st \in Active /\ (host.st = "offline" \/ update[u].age = 2)
FailStuck(u) == RowRule /\ Stuck(u) /\ update' = [update EXCEPT ![u].st = "failed"]

\* Lab jobs, whose calls the agent executes.
JobRule == UNCHANGED <<host, agent, repo, ran, entry, update, ask, task, late, spent>>
Dispatch(j) == JobRule /\ job[j] = 0 /\ host.st = "online" /\ ~host.stale /\ agent.open /\ job' = [job EXCEPT ![j] = agent.inc]
\* The call is answered, or its process is gone and it fails.
Finish(j) == JobRule /\ job[j] # 0 /\ job' = [job EXCEPT ![j] = 0]

\* The API process restarts: registrations and requests under way are gone.
ApiCrash == /\ Fault /\ entry' = NoEntry /\ ask' = [u \in Updates |-> "none"]
            /\ task' = [u \in Updates |-> IF task[u].pc = "asked" THEN NoTask ELSE task[u]]
            /\ agent' = IF agent.up /\ entry # NoEntry THEN [agent EXCEPT !.open = TRUE] ELSE agent
            /\ UNCHANGED <<host, repo, ran, update, late, job>>

Registration == Boot \/ Register \/ Cleanup \/ Check \/ Reply \/ Heartbeat
Next ==
    \/ Registration \/ RegisterLost \/ HeartbeatLost \/ Crash \/ Silence \/ MarkStale \/ Unreachable \/ Unregister \/ ApiCrash
    \/ \E u \in Updates : \/ Receive(u) \/ Answer(u) \/ Perform(u) \/ Fails(u) \/ Age(u) \/ FailStuck(u)
                          \/ \E to \in Requests : Trigger(u, to)
    \/ \E m \in late : Arrive(m)
    \/ \E j \in Jobs : Dispatch(j) \/ Finish(j)
Spec == Init /\ [][Next]_vars
\* Time passes; the agent's supervisor, its heartbeat loop, the API's
\* handlers and the health check run on.
UpdateHealth == \E u \in Updates : Receive(u) \/ Answer(u) \/ Age(u) \/ FailStuck(u)
FairSpec == Spec /\ WF_vars(Registration) /\ WF_vars(UpdateHealth)

-----------------------------------------------------------------------------
\* Whatever is lost or restarted, and though the row is deleted under it, an
\* agent that stays up is known in the end as the process it is.
Recognised == agent.up ~>
    ~agent.up \/ (agent.reg /\ host.st = "online" /\ host.since = agent.inc /\ host.ver = agent.ver)
\* Every update ends, whoever reopens its row.
UpdatesEnd == \A u \in Updates : update[u].st \in Active ~> update[u].st \notin Active
\* An update to a version is completed only when the agent has run it, late
\* reports, second updates and rollbacks included.  (Of a commit that is not
\* so: its checkout is enough.)
CompletedRan == \A u \in Updates : (update[u].st = "completed" /\ ~update[u].to.sha) => update[u].to.v \in ran
=============================================================================
