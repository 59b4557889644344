----------------------------- MODULE ImageSync -----------------------------
(***************************************************************************)
(* Image synchronisation of one agent: the library, the per-host image     *)
(* rows, the sync jobs and the asyncio tasks that execute them, the passes *)
(* of the node lifecycle that wait for images, the agent's transfers, and  *)
(* the monitors (image reconciliation, job health, enforcement) that clean *)
(* up behind all of them.  A pass covers nodes of one image; a pass over   *)
(* several images is several passes.                                       *)
(***************************************************************************)
EXTENDS Naturals, FiniteSets
CONSTANTS Images,     \* library images (identified by their references)
          Nodes,      \* nodes of the labs
          Settings,   \* which images are files, which nodes are placed here, and pinned
          ImageOf,    \* the reference each node uses
          Jobs,       \* bound: sync job rows that exist at one time
          Limit,      \* image_sync_max_concurrent
            MaxRetries, \* state_enforcement_max_retries
          MaxEvents   \* bound: requests of users, crashes, outages, failures, delays
ASSUME ImageAssumption ==
    /\ ImageOf \in [Nodes -> Images]
    /\ Settings \subseteq {s \in [files : SUBSET Images, placed : SUBSET Nodes, pinned : SUBSET Nodes] :
                        s.pinned \subseteq s.placed}
    /\ {Limit, MaxEvents} \subseteq Nat /\ MaxRetries \in Nat \ {0}
    /\ "none" \notin Jobs \cup Images
VARIABLES
    setting,  \* fixed: files (qcow2, iol) among the images, the rest are Docker images;
              \* nodes placed on the agent; nodes pinned to it, which a pass checks first
    library,  \* images of the manifest
    agent,    \* [held: images the agent has, gone: images it had and lost, xfer: its transfers]
    host,     \* status of the host row, and whether AGENT_OFFLINE is still to be handled
    row,      \* status of each ImageHost row
    job,      \* the ImageSyncJob rows
    locked,   \* job rows locked by a request that found them
    task,     \* the task executing each job: where it stands and for whom
    wait,     \* waiters of _wait_for_sync_and_callback
    pass,     \* lifecycle passes
    node,     \* [want, act, sync] of each node, the enforcement attempts it has
              \* had (tries) and whether it was given up (mark)
    doom,     \* images a cleanup decided to delete from the agent
    seen,     \* what image checks know of the agent: inventories read by the monitor
              \* and for a registration, and images a registration still has to push
    spent     \* the events and faults used
vars == <<library, agent, host, row, job, locked, task, wait, pass, node, doom, seen, spent>>

Active == {"pending", "transferring"}
Ended == {"completed", "failed", "cancelled"}
NoJob == [st |-> "free", img |-> "none"]
NoTask == [pc |-> "none", ids |-> {}]
Passes == [pc : {"new", "preask", "await", "ask", "deploy"},
           img : Images, ids : SUBSET Nodes, job : Jobs \cup {"none"}]
\* Types of the rows, the tasks, the passes and the agent's books: every
\* handler writes only statuses the models and the endpoints declare.
TypeOK ==
    /\ setting \in Settings /\ library \subseteq Images /\ doom \in [Images -> {"no", "row", "bare"}]
    /\ agent \in [held : SUBSET Images, gone : SUBSET Images, xfer : [Jobs -> {"none", "moving", "done", "lost"}]]
    /\ host \in [st : {"online", "offline"}, event : BOOLEAN]
    /\ row \in [Images -> {"none", "unknown", "syncing", "synced", "missing", "failed"}]
    /\ job \in [Jobs -> [st : Active \cup Ended, img : Images] \cup {NoJob}]
    /\ task \in [Jobs -> [pc : {"none", "begin", "poll"}, ids : SUBSET Nodes]]
    /\ wait \subseteq [job : Jobs, ids : SUBSET Nodes] /\ pass \subseteq Passes
    /\ node \in [Nodes -> [want : {"running", "stopped"}, act : {"stopped", "starting", "running", "error"},
                           sync : {"null", "checking", "syncing", "failed"},
                           tries : 0..MaxRetries, mark : BOOLEAN]]
    /\ seen \subseteq [by : {"monitor", "pull", "push"}, imgs : SUBSET Images]
    /\ locked \subseteq Jobs /\ spent \in 0..MaxEvents

Init ==
    /\ setting \in Settings
    /\ library \in SUBSET Images /\ agent \in [held : SUBSET Images, gone : {{}}, xfer : {[j \in Jobs |-> "none"]}]
    /\ host = [st |-> "online", event |-> FALSE] /\ row = [i \in Images |-> "none"]
    /\ job = [j \in Jobs |-> NoJob] /\ locked = {} /\ task = [j \in Jobs |-> NoTask]
    /\ wait = {} /\ pass = {} /\ doom = [i \in Images |-> "no"]
    /\ node \in [Nodes -> [want : {"running", "stopped"}, act : {"stopped"}, sync : {"null"},
                            tries : {0}, mark : {FALSE}]]
    /\ seen = {} /\ spent = 0

Event == spent < MaxEvents /\ spent' = spent + 1
Fault == Event
Online == host.st = "online"
Using(i) == {n \in setting.placed : ImageOf[n] = i}
ActiveJobs == {j \in Jobs : job[j].st \in Active}
\* The status columns of the nodes of a set.
Sync(f, ids, s) == [n \in Nodes |-> IF n \in ids THEN [f[n] EXCEPT !.sync = s] ELSE f[n]]
Act(f, ids, a) == [n \in Nodes |-> IF n \in ids THEN [f[n] EXCEPT !.act = a] ELSE f[n]]
SyncFailed(ids) == node' = Act(Sync(node, ids, "failed"), ids, "error")
\* mutant: the row takes the status of a cancelled job
MarkJob(i, s) == row' = IF row[i] = "none" THEN row ELSE [row EXCEPT ![i] = IF s = "unknown" THEN "cancelled" ELSE s]
Mark(i, s) == row' = IF row[i] = "none" THEN row ELSE [row EXCEPT ![i] = s]
Status(j, s) == job' = [job EXCEPT ![j].st = s]
\* A job that ended stays while a task, a waiter, a pass or the agent refers
\* to it: its row is deleted after a month (cleanup_old_image_sync_jobs).
Read(j) == \E w \in wait \cup pass : w.job = j
Close(j, s) == job' = [job EXCEPT ![j] = IF Read(j) \/ agent.xfer[j] = "moving" THEN [@ EXCEPT !.st = s] ELSE NoJob]

-----------------------------------------------------------------------------
\* queue_image_sync_job.  A row locked by another request is skipped.
Existing(i) == {j \in ActiveJobs : job[j].img = i}
Refused(i) == i \notin library \/ ~Online \/ row[i] = "synced"
Full == Cardinality(ActiveJobs) >= Limit
\* Rows are interchangeable: the new one takes the first free place.
Places == {j \in Jobs : job[j] = NoJob /\ task[j] = NoTask /\ ~Read(j)}
NewJob(i, ids) ==
    /\ Places # {}
    /\ LET j == (CHOOSE x \in Places : TRUE) IN
       /\ job' = [job EXCEPT ![j] = [st |-> "pending", img |-> i]]
       /\ task' = [task EXCEPT ![j] = [pc |-> "begin", ids |-> ids]]
    /\ row' = [row EXCEPT ![i] = "syncing"]
Queueable(i) == ~Refused(i) /\ Existing(i) \subseteq locked /\ ~Full
Queue(i) == Queueable(i) /\ NewJob(i, {}) /\ UNCHANGED locked
\* A request that finds the job of another keeps it locked until it ends.
Found(i) == /\ ~Refused(i)
            /\ \E j \in Existing(i) \ locked : locked' = locked \cup {j}
            /\ UNCHANGED <<row, job, task>>

\* push_image_to_hosts, push_image_on_upload
Push(i) == /\ Event /\ (Queue(i) \/ Found(i))
           /\ UNCHANGED <<library, agent, host, wait, pass, node, doom, seen>>
\* pull_images_on_registration: ask the agent (a failed call is an agent without
\* images), write the rows of the Docker images, and push those not synced.
Known(by, imgs) == [by |-> by, imgs |-> imgs]
Docker == library \ setting.files
Pull == /\ Event /\ Online /\ \A s \in seen : s.by # "pull"
        /\ \E imgs \in {agent.held, {}} : seen' = seen \cup {Known("pull", imgs)}
        /\ UNCHANGED <<library, agent, host, row, job, locked, task, wait, pass, node, doom>>
Left(s, imgs) == (seen \ {s}) \cup {Known("push", I) : I \in {imgs} \ {{}}}
Reconciled(s, i) == IF i \notin Docker THEN row[i]
                    ELSE IF i \in s.imgs THEN "synced"
                    ELSE IF row[i] \in {"none", "synced"} THEN "missing" ELSE row[i]
Pulled(s) == /\ s.by = "pull" /\ row' = [i \in Images |-> Reconciled(s, i)]
             /\ seen' = Left(s, {i \in Docker : Reconciled(s, i) # "synced"})
             /\ UNCHANGED <<library, agent, host, job, locked, task, wait, pass, node, doom, spent>>
Pushed(s, i) == /\ s.by = "push" /\ i \in s.imgs /\ seen' = Left(s, s.imgs \ {i})
                /\ \/ Queue(i) \/ Found(i)
                   \/ /\ Refused(i) \/ (Existing(i) \subseteq locked /\ (Full \/ Places = {}))
                      /\ UNCHANGED <<row, job, task, locked>>
                /\ UNCHANGED <<library, agent, host, wait, pass, node, doom, spent>>
Unlock(j) == /\ j \in locked /\ locked' = locked \ {j}
             /\ UNCHANGED <<library, agent, host, row, job, task, wait, pass, node, doom, seen, spent>>
\* cancel_sync_job: the task is not told.
Cancel(j) == /\ Event /\ job[j].st \in Active /\ Status(j, "cancelled") /\ Mark(job[j].img, "unknown")
             /\ UNCHANGED <<library, agent, host, locked, task, wait, pass, node, doom, seen>>
Upload(i) == /\ Event /\ i \notin library /\ library' = library \cup {i}
             /\ UNCHANGED <<agent, host, row, job, locked, task, wait, pass, node, doom, seen>>
\* delete_image, with its background cleanup of the hosts that have a row
Remove(i) == /\ Event /\ i \in library /\ library' = library \ {i}
             /\ doom' = IF row[i] # "none" /\ Using(i) = {} THEN [doom EXCEPT ![i] = "row"] ELSE doom
             /\ UNCHANGED <<agent, host, row, job, locked, task, wait, pass, node, seen>>

-----------------------------------------------------------------------------
\* _execute_sync_job.  It looks neither at the status it overwrites nor at
\* the status of the row.
Begin(j) == /\ task[j].pc = "begin" /\ Status(j, "transferring") /\ task' = [task EXCEPT ![j].pc = "poll"]
            /\ agent' = [agent EXCEPT !.xfer[j] = IF Online THEN "moving" ELSE "lost"]
            /\ UNCHANGED <<library, host, row, locked, wait, pass, node, doom, seen, spent>>
\* mutant: a transfer the agent has forgotten passes for one that is over
ArrivedAnyhow(j) == agent.xfer[j] # "moving" /\ Online
Arrived(j) == agent.xfer[j] = "done" /\ Online
Broken(j) == agent.xfer[j] = "lost" \/ ~Online
\* _trigger_re_reconcile: only the nodes still wanted running.
Pass(pc, i, ids, j) == [pc |-> pc, img |-> i, ids |-> ids, job |-> j]
Fresh(i, ids) == Pass("new", i, ids, "none")
Again(i, ids) == LET Runnable == {n \in ids : node[n].want = "running"}
                 IN  {Fresh(i, Runnable) : r \in {Runnable} \ {{}}}
\* What _run_sync_and_callback and _wait_for_sync_and_callback do at the end.
Callback(st, i, ids) ==
    IF st = "completed"
    THEN node' = Sync(node, ids, "null") /\ pass' = pass \cup Again(i, ids)
    ELSE SyncFailed(ids) /\ UNCHANGED pass
Finish(j, st, mark) ==
    /\ Close(j, st) /\ Mark(job[j].img, mark) /\ task' = [task EXCEPT ![j] = NoTask]
    /\ agent' = IF agent.xfer[j] = "moving" THEN agent ELSE [agent EXCEPT !.xfer[j] = "none"]
    /\ Callback(st, job[j].img, task[j].ids)
\* A transfer that times out here goes on there.
Poll(j) == /\ task[j].pc = "poll" /\ UNCHANGED <<library, host, locked, wait, doom, seen>>
           /\ \/ Arrived(j) /\ Finish(j, "completed", "synced") /\ UNCHANGED spent
              \/ Broken(j) /\ Finish(j, "failed", "failed") /\ UNCHANGED spent
              \/ ~Broken(j) /\ Finish(j, "failed", "failed") /\ Fault
\* The waiter knows completed, failed and error; a cancelled job runs into
\* its ten minutes.
Waited(w) == /\ wait' = wait \ {w}
             /\ \/ job[w.job].st \in {"completed", "failed"} /\ Callback(job[w.job].st, job[w.job].img, w.ids) /\ UNCHANGED spent
                \/ job[w.job].st = "cancelled" /\ SyncFailed(w.ids) /\ UNCHANGED <<pass, spent>>
                \/ job[w.job].st \in Active /\ SyncFailed(w.ids) /\ Fault /\ UNCHANGED pass
             /\ UNCHANGED <<library, agent, host, row, job, locked, task, doom, seen>>

-----------------------------------------------------------------------------
\* A lifecycle pass.  ensure_images_for_deployment waits for the image of
\* the pinned nodes; check_and_start_image_sync does not wait.
Pins(p) == p.ids \cap setting.pinned
PassStep(p, pc) == p.pc = pc /\ UNCHANGED <<library, agent, host, locked, doom, seen>>
Over(p) == pass' = pass \ {p}
On(p, pc, j) == pass' = (pass \ {p}) \cup {Pass(pc, p.img, p.ids, j)}
\* The agent's answer: an error counts as an image it does not have.
Present(p) == Online /\ p.img \in agent.held
Lacks(p) == IF Present(p) THEN Fault ELSE UNCHANGED spent
Has(p) == Present(p) /\ UNCHANGED spent
Missing(p) == p.img \notin library
\* The first lines of both: nodes are "checking" while the agent is asked.
Checking(p, ids, pc) ==
    IF Online THEN node' = Sync(node, ids, "checking") /\ On(p, pc, "none")
    ELSE node' = Act(node, ids, "error") /\ Over(p)
ToCheck(p) == Checking(p, p.ids, "ask")
Enter(p) == /\ PassStep(p, "new") /\ UNCHANGED <<row, job, task, wait, spent>>
            /\ IF Pins(p) # {} THEN Checking(p, Pins(p), "preask") ELSE ToCheck(p)
\* sync_image_to_agent: a job somebody else started is a failure here.
PreAsk(p) ==
    /\ PassStep(p, "preask") /\ UNCHANGED wait
    /\ \/ Has(p) /\ ToCheck(p) /\ UNCHANGED <<row, job, task>>
       \/ /\ Lacks(p) /\ Queueable(p.img) /\ NewJob(p.img, {}) /\ node' = Sync(node, Pins(p), "syncing")
          /\ \E j \in Jobs : job[j] = NoJob /\ job'[j] # NoJob /\ On(p, "await", j)
       \/ /\ Lacks(p) /\ ~Queueable(p.img) /\ UNCHANGED <<row, job, task>>
          /\ IF ~Missing(p) /\ Online /\ row[p.img] = "synced" THEN ToCheck(p) ELSE SyncFailed(Pins(p)) /\ Over(p)
\* The time limit cancels the task, which writes nothing any more.
Await(p) ==
    /\ PassStep(p, "await") /\ UNCHANGED <<row, job, wait>>
    /\ \/ /\ task[p.job] = NoTask /\ UNCHANGED <<task, spent>>
          /\ IF job[p.job].st = "completed" THEN ToCheck(p)
             ELSE SyncFailed(Pins(p)) /\ Over(p)
       \/ /\ task[p.job] # NoTask /\ Fault /\ task' = [task EXCEPT ![p.job] = NoTask]
          /\ SyncFailed(Pins(p)) /\ Over(p)
\* Starts the job whatever the row says and however many jobs the host has,
\* or waits for the one it finds.
Ask(p) ==
    /\ PassStep(p, "ask")
    /\ \/ Has(p) /\ node' = Sync(node, p.ids, "null") /\ On(p, "deploy", "none") /\ UNCHANGED <<row, job, task, wait>>
       \/ /\ Lacks(p) /\ Missing(p) /\ SyncFailed(p.ids) /\ Over(p) /\ UNCHANGED <<row, job, task, wait>>
       \/ /\ Lacks(p) /\ ~Missing(p) /\ node' = Act(Sync(node, p.ids, "syncing"), p.ids, "starting") /\ Over(p)
          /\ IF Existing(p.img) = {} THEN NewJob(p.img, p.ids) /\ UNCHANGED wait
             ELSE /\ \E j \in Existing(p.img) : wait' = wait \cup {[job |-> j, ids |-> p.ids]}
                  /\ UNCHANGED <<row, job, task>>
\* The attempts are forgotten when every node of the pass runs.
Spare(f, ids) == [n \in Nodes |-> IF n \in ids THEN [f[n] EXCEPT !.tries = 0, !.mark = FALSE] ELSE f[n]]
Deploy(p) == /\ PassStep(p, "deploy") /\ Over(p) /\ UNCHANGED <<row, job, task, wait, spent>>
             /\ node' = IF Present(p) THEN Spare(Act(node, p.ids, "running"), p.ids)
                         ELSE Act(node, p.ids, "error")
PassSteps(p) == Enter(p) \/ PreAsk(p) \/ Await(p) \/ Ask(p) \/ Deploy(p)

\* The user's wish, and the monitors that follow it.  A node that failed and is
\* stopped counts as stopped, and one that failed and is started has its attempts
\* back.
Rested(n) == [node[n] EXCEPT !.act = "stopped", !.sync = "null", !.tries = 0, !.mark = FALSE]
Want(n) == /\ Event /\ UNCHANGED <<library, agent, host, row, job, locked, task, wait, pass, doom, seen>>
           /\ \/ node[n].want = "stopped" /\ node' = [node EXCEPT ![n].want = "running"]
              \/ /\ node[n].want = "running"
                 /\ node' = [node EXCEPT ![n] =
                        [(IF node[n].act \in {"stopped", "error"} THEN Rested(n) ELSE @) EXCEPT !.want = "stopped"]]
              \/ node[n].want = "running" /\ node[n].act = "error" /\ node' = Spare(node, {n})
Waiting(n) == node[n].sync \in {"checking", "syncing"}
Busy(n) == \E p \in pass : n \in p.ids
NodeRule == UNCHANGED <<library, agent, host, row, job, locked, task, wait, doom, seen, spent>>
Idles(n) == /\ node[n].want = "running" /\ node[n].act \in {"stopped", "error"}
            /\ ~Waiting(n) /\ ~Busy(n)
\* _is_enforceable and the batch job: an attempt each, or the node is given up.
Enforce(i, ids) ==
    /\ NodeRule /\ Online /\ ids # {} /\ ids \subseteq Using(i)
    /\ \A n \in ids : Idles(n) /\ node[n].tries < MaxRetries
    /\ pass' = pass \cup {Fresh(i, ids)}
    /\ node' = [n \in Nodes |-> IF n \in ids THEN [node[n] EXCEPT !.tries = @ + 1, !.mark = FALSE] ELSE node[n]]
GiveUp(n) == /\ NodeRule /\ Idles(n) /\ node[n].tries >= MaxRetries /\ ~node[n].mark
             /\ node' = [node EXCEPT ![n].mark = TRUE, ![n].act = "error"] /\ UNCHANGED pass
Halt(n) == /\ NodeRule /\ node[n].want = "stopped" /\ ~Busy(n) /\ UNCHANGED pass
           /\ (node[n].act # "stopped" \/ node[n].sync # "null")
           /\ node' = [node EXCEPT ![n] = Rested(n)]
StuckStarting(n) == /\ NodeRule /\ node[n].act = "starting" /\ ~Waiting(n) /\ ~Busy(n)
                    /\ node' = [node EXCEPT ![n].act = "stopped"] /\ UNCHANGED pass
\* check_orphaned_image_sync_status compares the library's name of an image
\* with the node's reference, and those are two names.
LibraryId(i) == <<i>>
SyncRuns(n) == \E j \in ActiveJobs : LibraryId(job[j].img) = ImageOf[n]
\* mutant: only "syncing" is cleared
StaleSyncing(n) == node[n].sync = "syncing"
Stale(n) == Waiting(n)
ClearOrphan(n) == /\ NodeRule /\ Stale(n) /\ ~SyncRuns(n) /\ node' = Sync(node, {n}, "null") /\ UNCHANGED pass

-----------------------------------------------------------------------------
\* The agent, its host row and the event of its going offline.
AgentStep == UNCHANGED <<library, row, job, locked, task, wait, pass, node, doom, seen>>
Load(j) == /\ AgentStep /\ agent.xfer[j] = "moving" /\ UNCHANGED <<host, spent>>
           /\ agent' = [agent EXCEPT !.held = @ \cup {job[j].img}, !.gone = @ \ {job[j].img}, !.xfer[j] = "done"]
LoadFails(j) == /\ AgentStep /\ agent.xfer[j] = "moving" /\ Fault
                /\ agent' = [agent EXCEPT !.xfer[j] = "lost"] /\ UNCHANGED host
AgentRestart == /\ AgentStep /\ Fault /\ UNCHANGED host
                /\ agent' = [agent EXCEPT !.xfer = [j \in Jobs |-> IF @[j] = "none" THEN "none" ELSE "lost"]]
Lose1(i, a) == [a EXCEPT !.held = @ \ {i}, !.gone = @ \cup ({i} \cap a.held)]
Drop(i) == /\ AgentStep /\ i \in agent.held /\ Fault /\ agent' = Lose1(i, agent) /\ UNCHANGED host
Outage == AgentStep /\ Fault /\ Online /\ host' = [st |-> "offline", event |-> TRUE] /\ UNCHANGED agent
Return == AgentStep /\ ~Online /\ host' = [host EXCEPT !.st = "online"] /\ UNCHANGED <<agent, spent>>
HandleOffline == /\ host.event /\ host' = [host EXCEPT !.event = FALSE] /\ row' = [i \in Images |-> "none"]
                 /\ UNCHANGED <<library, agent, job, locked, task, wait, pass, node, doom, seen, spent>>

-----------------------------------------------------------------------------
\* image_reconciliation_monitor
MonitorRule == UNCHANGED <<library, host, locked, wait, pass, node>>
RowRule == MonitorRule /\ UNCHANGED spent
Adopt(i) == /\ RowRule /\ Online /\ i \in library /\ row[i] = "none" /\ row' = [row EXCEPT ![i] = "unknown"]
            /\ UNCHANGED <<agent, job, task, doom, seen>>
\* The manifest and the references are read before the agent is asked.
Pick(i) == /\ RowRule /\ Online /\ i \notin library /\ Using(i) = {} /\ doom[i] = "no"
           /\ (row[i] # "none" \/ i \in agent.held)
           /\ doom' = [doom EXCEPT ![i] = IF row[i] # "none" THEN "row" ELSE "bare"]
           /\ UNCHANGED <<agent, row, job, task, seen>>
\* A deletion that fails may have been made; the row of an agent that is known to
\* be away is left alone.
Delete(i) == /\ MonitorRule /\ doom[i] # "no" /\ doom' = [doom EXCEPT ![i] = "no"] /\ UNCHANGED <<job, task, seen>>
             /\ \/ /\ Online /\ agent' = Lose1(i, agent) /\ UNCHANGED spent
                   /\ row' = IF doom[i] = "row" THEN [row EXCEPT ![i] = "none"] ELSE row
                \/ /\ IF Online THEN Fault /\ agent' \in {agent, Lose1(i, agent)} ELSE UNCHANGED <<agent, spent>>
                   /\ IF doom[i] = "row" THEN Mark(i, "failed") ELSE UNCHANGED row
                \/ ~Online /\ UNCHANGED <<agent, row, spent>>
\* The Docker images are listed at once and the files asked for one by one; what
\* cannot be asked counts as absent.
Unasked == {agent.held \ setting.files} \cup {{i} : i \in agent.held \cap setting.files}
Inventory == /\ MonitorRule /\ Online /\ \A s \in seen : s.by # "monitor"
             /\ \/ seen' = seen \cup {Known("monitor", agent.held)} /\ UNCHANGED spent
                \/ Fault /\ \E lost \in Unasked : seen' = seen \cup {Known("monitor", agent.held \ lost)}
             /\ UNCHANGED <<agent, row, job, task, doom>>
\* A Docker image that is not there is missing only if it was synced.
Verified(s, i) == IF row[i] = "none" \/ i \notin library THEN row[i]
                  ELSE IF i \in s.imgs THEN "synced"
                  ELSE IF i \in setting.files \/ row[i] = "synced" THEN "missing" ELSE row[i]
Verify(s) == /\ RowRule /\ s.by = "monitor" /\ row' = [i \in Images |-> Verified(s, i)]
             /\ seen' = seen \ {s} /\ UNCHANGED <<agent, job, task, doom>>
Resync(i) == RowRule /\ row[i] = "missing" /\ Queueable(i) /\ NewJob(i, {}) /\ UNCHANGED <<agent, doom, seen>>

\* check_stuck_image_sync_jobs: the agent knows the transfer of a Docker
\* image under the job's name, and that of a file under another.
\* mutant: a job left pending is not looked at
StuckTransfer(j) == job[j].st = "transferring"
Stuck(j) == job[j].st \in Active
AgentBusy(j) == Online /\ job[j].st = "transferring" /\ job[j].img \notin setting.files /\ agent.xfer[j] = "moving"
FailStuck(j) ==
    /\ Stuck(j) /\ Mark(job[j].img, "failed")
    /\ IF task[j] = NoTask THEN Close(j, "failed") ELSE Status(j, "failed")
    /\ \/ ~Online /\ job[j].st = "transferring" /\ UNCHANGED spent
       \/ task[j] = NoTask /\ ~AgentBusy(j) /\ UNCHANGED spent
       \/ (task[j] # NoTask \/ AgentBusy(j)) /\ Fault   \* it is slow, and runs
    /\ UNCHANGED <<library, agent, host, locked, task, wait, pass, node, doom, seen>>
Forget(j) == /\ job[j].st \in Ended /\ task[j] = NoTask /\ ~Read(j)
             /\ agent.xfer[j] # "moving" /\ j \notin locked
             /\ job' = [job EXCEPT ![j] = NoJob] /\ agent' = [agent EXCEPT !.xfer[j] = "none"]
             /\ UNCHANGED <<library, host, row, locked, task, wait, pass, node, doom, seen, spent>>
\* The controller restarts: tasks are gone, rows stay, and of a job and its
\* row perhaps only the first was written.
Torn(j) == \/ task[j].pc = "poll" /\ Arrived(j) /\ Status(j, "completed")
           \/ task[j].pc = "poll" /\ Broken(j) /\ Status(j, "failed")
           \/ task[j] = NoTask /\ job[j].st \in Active /\ Status(j, "failed")
Crash == /\ Fault /\ (UNCHANGED job \/ \E j \in Jobs : Torn(j))
         /\ task' = [j \in Jobs |-> NoTask] /\ wait' = {} /\ pass' = {} /\ locked' = {}
         /\ doom' = [i \in Images |-> "no"] /\ seen' = {}
         /\ UNCHANGED <<library, agent, host, row, node>>

TaskSteps(j) == Begin(j) \/ Poll(j)
Next ==
    /\ UNCHANGED setting
    /\ \/ \E i \in Images : \/ Push(i) \/ Upload(i) \/ Remove(i) \/ Drop(i) \/ Adopt(i) \/ Pick(i) \/ Delete(i)
                              \/ Resync(i) \/ \E ids \in SUBSET setting.placed : Enforce(i, ids)
       \/ \E j \in Jobs : TaskSteps(j) \/ Unlock(j) \/ Cancel(j) \/ Load(j) \/ LoadFails(j) \/ FailStuck(j) \/ Forget(j)
       \/ \E w \in wait : Waited(w)
       \/ \E p \in pass : PassSteps(p)
       \/ \E n \in setting.placed : Want(n) \/ Halt(n) \/ StuckStarting(n) \/ ClearOrphan(n) \/ GiveUp(n)
       \/ AgentRestart \/ Outage \/ Return \/ HandleOffline \/ Pull \/ Inventory \/ Crash
       \/ \E s \in seen : Pulled(s) \/ Verify(s) \/ \E i \in Images : Pushed(s, i)
Spec == Init /\ [][Next]_<<setting, vars>>
\* Coroutines run on and transfers end; the health check, the image
\* reconciliation and the enforcement come round.
Syncs == HandleOffline \/ \E j \in Jobs : TaskSteps(j) \/ Load(j) \/ Unlock(j) \/ Forget(j)
Lifecycle == (\E w \in wait : Waited(w)) \/ (\E p \in pass : PassSteps(p))
Health == \E j \in Jobs : FailStuck(j)
NodeHealth == \E n \in setting.placed : Halt(n) \/ StuckStarting(n) \/ ClearOrphan(n) \/ GiveUp(n) \/ Enforce(ImageOf[n], {n})
Reconcile == Inventory \/ \E s \in seen : Verify(s)
Repair == \E i \in Images : Adopt(i) \/ Delete(i) \/ Resync(i)
FairSpec == Spec /\ WF_vars(Syncs) /\ WF_vars(Lifecycle) /\ WF_vars(Health) /\ WF_vars(NodeHealth)
             /\ WF_vars(Reconcile) /\ WF_vars(Repair)

-----------------------------------------------------------------------------
\* A row says "synced" only of an image that arrived: whatever the agent
\* forgot of its transfers, an image it does not have was there and was
\* removed since.
Honest == \A i \in Images : row[i] = "synced" => i \in agent.held \cup agent.gone
\* Every job ends, though a restart, a cancelled deployment or a time limit
\* can leave it without a task, and so an image can be sent again.
JobsEnd == \A j \in Jobs : job[j].st \in Active ~> job[j].st \notin Active
\* A node the user wants running gets its image and runs, whichever of the two
\* checks met the missing image and whatever was interrupted, unless it is given
\* up after its MaxRetries attempts (the image is not in the library, the agent is
\* away, or attempts failed).
Served == \A n \in Nodes : (n \in setting.placed /\ node[n].want = "running") ~>
    \/ node[n].act = "running" \/ node[n].want = "stopped" \/ ImageOf[n] \notin library \/ ~Online
    \/ node[n].mark
=============================================================================
