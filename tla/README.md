# A TLA+ development of Archetype's control plane

Archetype runs network labs. A *controller* (`api/app`: a FastAPI process and a scheduler process
over one database) keeps the desired state of every lab, and *agents* (`agent/`) on the hosts
create containers, virtual machines and their network links. Nothing in the system is a
transaction across the two: the controller writes what it wants, sends calls that may fail or go
unanswered, and several monitors compare database and hosts and repair the difference. The
modules here model that from the source, TLC checks them on small instances, and TLAPS proves the
main invariants for all values of the constants.

All paths below are relative to the repository; `api/app` is left out where it is clear.

## 1. Inventory

| Component | State it keeps | Operations | Status |
|---|---|---|---|
| Node and lab state machine (`services/state_machine.py`) | none | tables and predicates | modelled, `NodeStates` |
| Desired-state commands (`routers/labs_node_states.py`, `routers/labs/_shared.py`) | `NodeState.desired_state` | start, stop one node or all | modelled, `NodeLifecycle` |
| Node lifecycle manager (`tasks/node_lifecycle*.py`) | `NodeState.actual_state`, timestamps, job row | one task per job, load to finalize | partly, `NodeLifecycle` |
| State enforcement (`tasks/state_enforcement.py`) | attempts, failed mark, cooldown | monitor cycle, batch job | partly, `NodeLifecycle`, `EnforcementBudget` |
| Reconciliation (`tasks/reconciliation_db.py`) | the agents' snapshot | query, node loop, lab state | partly, `NodeLifecycle`, `LabJobs` |
| Stuck nodes (`tasks/stuck_nodes.py`) | none | reset aged transitions | modelled, `NodeLifecycle` |
| Job health (`tasks/job_health.py`) | `Job` rows | retry, fail, sweep, recover | partly, `NodeLifecycle`, `LabJobs` |
| Node events (`routers/events.py`, `agent/events`) | queue in flight | post, apply | modelled, `NodeLifecycle` |
| Agent container operations (`agent/providers/docker.py`, `agent/routers/labs.py`) | containers | create, start, stop | partly, `NodeLifecycle` |
| Lab deploy and destroy jobs (`tasks/jobs.py`, `routers/jobs.py`, `jobs.py`, `agent_client/node_ops.py`) | `Job` rows, `Lab.state` | up, down, restart, cancel | partly, `LabJobs` |
| Agent deploy jobs and locks (`agent/locks.py`, `agent/routers/jobs.py`) | local lock, Redis key | acquire, run, release, force | partly, `LabJobs` |
| Distributed locks of the controller (`utils/locks.py`, `tasks/reconciliation.py`) | Redis keys | acquire, renew, release | partly, `RedisLease`, `ScopeLock` |
| Job callbacks (`agent/callbacks.py`) | dead letters | deliver, retry | not modelled: the controller sends deploy and destroy without a callback address |
| Links and reservations (`services/link_reservations.py`, `tasks/link_*.py`, `tasks/live_links.py`, `routers/labs/link_states.py`) | `LinkState` rows, endpoint reservations, tunnels | create, remove, check, repair, converge | partly, `Links` |
| VLAN tags of an agent (`agent/network/docker_plugin.py`, `plugin_vlan.py`, `plugin_state.py`, `agent/routers/overlay.py`) | tags in use, endpoints and their file | allocate, set, release, recover | partly, `VlanTags` |
| Image sync (`tasks/image_sync.py`, `tasks/image_reconciliation.py`, `routers/images/sync.py`) | `ImageHost` rows, sync jobs, `NodeState.image_sync_status` | queue, transfer, wait, verify, resync, clean | partly, `ImageSync` |
| Agent registration and updates (`routers/agents.py`, `tasks/stuck_agents.py`, `agent/registration.py`, `agent/updater.py`) | `Host` row, update rows, checkout and sentinel | register, heartbeat, update, roll back | partly, `Agents` |
| Consoles (`agent/console_extractor.py`, `console_session_registry.py`, `virsh_console_lock.py`, `routers/console.py`) | domain lock, sessions, control state | open, extract, run commands | partly, `Consoles` |
| Libvirt provider (`agent/providers/libvirt*.py`) | domains | | partly, as far as `VlanTags` and `Consoles` meet it |
| Placement, multi-host jobs, migration | placements, cleanup queue | bin-packing, sub-jobs | not modelled yet |
| Scenario and test runners | runs and steps | | not modelled yet |
| Tunnel devices, disk cleanup, image library and ISO import, topology parsing, users, metrics, web UI | | | not modelled: I/O, formats, conversions |

How they interact. A user command writes `desired_state` and creates a job; the job's task
(`run_node_reconcile`) announces transitions, calls the agent and writes the results. The agent
posts container events back. Every 30 seconds enforcement looks for rows whose desired and actual
state differ and creates jobs of its own. Reconciliation asks the agents what is really there and
overwrites rows. The stuck-node and stuck-job checks take back work nobody finishes. Besides,
`lab up`, `lab down` and `lab restart` run jobs that have an agent deploy or destroy a lab as a
whole, under a lock at the agent. All share the `NodeState`, `Lab` and `Job` rows and have no lock
in common except `reconciliation_lock` and `link_ops_lock`; each protects itself by reading whether
the lab has an active job. Links are worked on by four parties: the task of a topology edit, the
request for one link, the link monitor and the reconciliation of the lab; at the agent their calls
meet the Docker network plugin, which hands out the VLAN tags. A start of a node may first have to
send an image to its agent; agents come, go, restart and are updated, and each of that is a row at
the controller that several handlers write. On an agent, users and three kinds of automatic
tasks share the one console a virtual machine has.

What is hard about it. Every `await` inside a cycle lets the others run, so a row, a snapshot or a
set of active jobs may be old when it is used. Calls are lost with unknown effect and sent again.
A job that is only slow is retried while its task runs on. A restart of a process leaves rows of
jobs without tasks. Events are late or lost. One node of a job fails and the others do not.
`PROJECT.json` lists these hazards at their lines, with the properties that cover them.

What makes it correct. Retries are bounded and the bound is not lost to a race; jobs do not pile
up; reconciliation does not undo what a job is doing; an agent works on a lab once at a time;
nodes, jobs, requests and labs come to rest in the right state once faults stop; a lock excludes
and never stays for ever; links that should be up are wired and rows of links that are gone go;
no two ports get one tag by accident; rows about images and updates claim only what happened;
one party at a time types on a console and gives it back.

## 2. Modules

| Module | What it is |
|---|---|
| `NodeStates` | the state machine tables as pure operators |
| `NodeLifecycle` | the control loop of one lab: users, jobs, enforcement, reconciliation, stuck checks, job health, one agent with containers and events, restarts |
| `EnforcementBudget` | the abstract promise of enforcement: a retry budget per node; `NodeLifecycle` implements it |
| `LabJobs` | the deploy and destroy jobs of one lab: endpoints, tasks with their HTTP retries, the agent's lock, job health, lab state |
| `RedisLease` | the lease both controller locks implement, in discrete time |
| `ScopeLock` | the abstract promise of such a lock to the tasks inside; `RedisLease` implements it |
| `Links` | the links of one lab: rows, reservations, four workers, agents that hold the wires |
| `VlanTags` | the VLAN tags of one agent's bridge: the plugin with its lock, pool and file, the routers and libvirt beside it, restarts |
| `ImageSync` | images of one agent: library, host rows, sync jobs and their tasks, waiting passes, the monitors that repair |
| `Agents` | one agent and its host row: registration, heartbeats, restarts, software updates with rollback |
| `Consoles` | the console of one virtual machine: web sessions, extraction, post-boot commands, the domain lock and the registry |
| `MC...` | the same for TLC: model values, the shape of the instance, symmetry |
| `NodeLifecycleProofs` (with `NodeStates`), `LabJobsProofs`, `RedisLeaseProofs`, `LinksProofs`, `VlanTagsProofs`, `ImageSyncProofs`, `AgentsProofs`, `ConsolesProofs` | theorems |

`NodeLifecycle` extends `NodeStates` and instantiates `EnforcementBudget` (`Budget == INSTANCE ...
WITH`, with the counters and marks of the rows for the abstract ones); `RedisLease` instantiates
`ScopeLock` (`Lock`) with the running threads for the protected tasks. The other modules each model
one protocol with the rest of the system as its environment: agents that go away, users, rows that
others delete.

### NodeLifecycle and the code

The controller is two processes over one database: the API runs user commands, events and the
jobs users create, the scheduler runs the monitors and the jobs they create. An action is what
runs between two awaits, on freshly read rows, and its transaction is atomic; the milliseconds
between a read and the commit that uses it are not modelled. Anything read before an await and
used after it is in a variable: `job[j]` (the phase lists and outstanding calls of a task, and the
columns it has changed in memory and not yet committed),
`recon` (the agents' snapshot, whether a job was active, the nodes still to do, the states
tallied), `enf` (the rows and active jobs of the scan, the nodes selected so far).

- `desired`, `actual`, `stopTs`, `startTs`, `attempts`, `failed` are the columns of `NodeState`;
  `cooling` is the Redis cooldown key or the backoff of `_should_skip_enforcement`; `lab` is
  `Lab.state`. A timestamp is unset, fresh, or past its threshold.
- `job[j]` is a row of `Job` and its task: `st` its status, `pc` where the task is (`"none"` when
  the task died), `kind` its action (`sync:node:<id>`, `sync:lab:<ids>`, `sync:batch:<n>`).
- `StartNode`, `StopNode`, `StartAll`, `StopAll` are the endpoints; `ListNodeStates` is the
  listing, a read that converges stopped nodes in error. `LoadAndValidate`,
  `SetTransitionalStates`, `ResolveAgents`, `CategorizeNodes`, `BeginPhase`, the call results,
  `PostOperation` and the closing steps are the stages of `NodeLifecycleManager.execute`;
  `FailPreflight` and `FailResources` its early failures.
- `_finalize` is several steps, as it awaits: `Settle` converges stopped nodes in error in memory,
  `PlaceDeployed` and `Place` save the placements (each asks the agent first and commits the session),
  `CountErrors` counts the errors and, without any, resets the counters of the nodes that are not in
  error, and `Finalize` commits after the broadcast. A commit writes the columns whose value in memory
  changed (`dirty`, `Flush`), over whatever the others have written since.
- `EnforceScan` loads the rows that differ and the active jobs, `EnforceFilter` is one turn of
  the filter loop of `enforce_lab_states`, `EnforceCreate` makes the batch. The session keeps the
  rows it loaded until a commit expires them, so a turn may see a node's row as it was or as it is.
- `ReconcileQuery` and `ReconcileNode` are the two halves of `_do_reconcile_lab`, the second one
  node at a time.
- `CheckStuckStopping`, `CheckStuckStarting` and `CheckStuckJob` are the health checks;
  `ReceiveNodeEvent` the event endpoint; `Agent...`, `CallLost`, `ContainerCrashes`,
  `AgentGoesDown`, `ApiRestarts` and `SchedulerRestarts` the environment.

Abstractions, all in the direction of more behaviours unless said otherwise:

- One lab, one agent. Sub-jobs per agent, migration, image sync, links and placements are left
  for later modules. Libvirt nodes are not modelled.
- Create and start are one call with one answer (a start that fails after a create is
  `AgentStartFails`); a batched call for several nodes is one call per node. A task's result rows
  are treated as committed as they are written. An agent does not act after a call is lost
  (fewer behaviours).
- Reconciliation may run at any time: its trigger conditions compare ages. Timestamps do not age
  while reconciliation holds a snapshot, as the query timeouts are far below the thresholds of
  360 seconds and more (fewer behaviours).
- The initial states are a lab at rest and undeployed, with any desired state per node.
- Enforcement's exception path, `enforce_node_state` (called by scenario steps) and config
  extraction are left out, as are `"dead"` and `"error"` container statuses, image checks and
  readiness in reconciliation and the agent query of the listing.
- A job that times out keeps its task, which is what the code does: no one cancels it.

### LabJobs and the code

- `job[j]` is a row of `Job` with its task: `pc` is `"begin"` before and during the preflight
  checks, `"call"` while `run_agent_job` waits for the agent, `"waits"` for the up job of a
  restart behind its down job, `"none"` without a task. `late` says that a live job has passed
  its time: two minutes while queued, the timeout of its kind while running.
- `req[j][a]` is the `a`-th HTTP request of a job as the agent has it: `"waiting"` (on its way,
  behind the configuration extraction of a destroy, or behind the local lock), `"locked"` (it has
  the local lock and asks for the Redis key), `"running"`, or answered. A request whose caller
  gave up stays at the agent: `CallTimesOut` sends the next one beside it.
- `key` and `locking` are the Redis key and the lock manager (`DeployLockManager`, or
  `NoopDeployLockManager` after a start without Redis). `KeyForced` is the forced release by job
  health. `HeartbeatFails` ends `heartbeat_loop`: the operation goes on `"unattended"`, its key may
  expire, and the error is raised when it is over, so that it answers as failed whatever it did.
- `LabUpChecks` and `LabUpCreates` are the two halves of `lab_up` around the image sync; the
  conflict check is in the first alone, as in the code. `LabDown`, `LabRestart`, `CancelJob` are
  the other endpoints. `JobStarts`, `NoAgent`, `PreflightFails`, `CallSucceeds`, `CallFails`,
  `CallRetried`, `AgentUnavailable` are `run_agent_job` with `with_retry` below it; each writes
  the row whatever it has become meanwhile.
- `stranded` are the jobs the recovery at a start of the scheduler has found (`SchedulerRestarts`):
  any that are queued or running, those the API process is working on too. It retries or fails every
  one of them before the other checks begin.
- `FailJob`, `DropDuplicate`, `RetryWithoutLock`, `ForceRelease`, `RetryAfterLock` are the ways
  through `_retry_job` and `_fail_job`; `ReconcileQueries` and `ReconcileWrites` are
  reconciliation as far as the lab's state goes.

Abstractions:

- One lab on one agent; its containers are present or absent as a whole, and the lab state is
  what they show. Sync jobs, desired states, links and the records a destroy cleans up are left
  out. An agent at its limit of concurrent jobs, which counts as no agent, is not modelled.
- Requests that wait are let in in any order; `asyncio.Lock` is first come, first served (more
  behaviours).
- A row serves for a new job once nothing reads or writes it any more, and which free row is
  taken makes no difference (`OneOf`); with all rows in use no job is created (a bound).
  `tries`, `late` and `superseded_by_id` are dropped when nothing reads them any more.
- All faults share the budget `MaxTroubles`: lost and failing calls, Redis errors, a silent
  agent, restarts, jobs past their time.

### RedisLease and the code

`owner` and `ttl` are the key; `inside` the tasks in the scope; `renewing` the ones whose thread
runs. `Acquire` is `SET NX EX`, `Renew` the compare-and-expire script of the thread, `Exit` the
compare-and-delete script; `AcquireFails`, `RenewFails` and `ExitFails` are calls that raise
`RedisError`, whether or not they took effect. A scope may last for any time. The fallback to
GET and DEL of `utils/locks.py` when `EVAL` is unavailable is left out.
`ScopeLock` says what a lock owes its scopes without keys or clocks: who is inside, who is
protected (`renewing`), and whether every call has been answered (no error spent).

### Links and the code

- `row[l]` is the `LinkState` row of a link with its `VxlanTunnel`, `resv` the
  `LinkEndpointReservation` rows, `topo` the `Link` definitions. `tag` and `vxlan` are the wires:
  the link whose tag an endpoint's port carries, the VXLAN ports of a cross-host link.
- `worker[w]` is a pass of one of the four workers with what it has read and not yet written.
  `"task"` is `process_link_changes` after `update_topology` (`EditTopology`), `"request"` is
  `hot_connect_link` and `hot_disconnect_link`, `"monitor"` one cycle of `link_reconciliation`,
  `"lab"` the link part of the lab's reconciliation. `holder` is who is inside `link_ops_lock`.
- `BeginCreate`, `CallAgent`, `RollBack`, `FinishCreate` are `create_same_host_link` and
  `create_cross_host_link`, one agent call at a time; `BeginTeardown` and `FinishTeardown`
  `teardown_link`. `CleanupDeleted`, `CheckLink` (with `FinishRetag`, `FinishRecover`),
  `CleanupOrphan`, `CleanupTunnel`, `HealReservations`, the overlay convergence (`ReadOverlay`,
  `DeclareOverlay`, `CommitOverlay`) and the port convergence (`ReadPorts`, `PushPort`, `ReadPairs`,
  `PushPairs`) are the phases of the monitor in their order. Each cleanup ends in one transaction
  (`CommitDeleted`, `CommitOrphans`, `CommitTunnels`), and between a read and the write that uses it
  every agent call is a step. A repair does not touch the tunnel record; one that is not tried, because
  another worker has the row locked, counts as failed. The claim of a creation flushes the outcomes a worker has not committed
  yet, so it waits for the locks on all those rows (`CreateIn`). `SetLink`, `SetAllLinks`, `ListLinks` are the other requests.
- Left out: link conditions, interface names, MTU and ARP, carrier of one side only, sub-interfaces.

### VlanTags and the code

- `bridge` and `tunnel` are the tags on OVS ports, `track` the plugin's endpoints, `file` its state
  file, `pool` its two sets of allocated tags, `held` what libvirt remembers of a defined machine.
- A request (`req[s]`) is plug, unplug, repair, attach, detach, connect or disconnect. Its steps are
  the commands between awaits: it looks at the bridge, picks from the preferred range and else from
  the other, sets ports, records, copies the endpoints and writes the file. `lock` is
  `DockerOVSPlugin._lock`; `attach` and the two-port requests allocate without it.
- `Define`, `Start`, `Stop`, `Undefine` are the libvirt side; `Restart` is `start()` with
  `_reconcile_state`, `_cleanup_orphaned_ovs_ports` and the reconnection of endpoints (`lost`).
- Left out: `declare_port_state`, ages of stale endpoints, management and external ports, networks.
  The allocator's cursor is a free choice among the free tags (more behaviours).

### ImageSync and the code

- `row[i]` is the `ImageHost` status, `job[j]` an `ImageSyncJob` row, `task[j]` the asyncio task
  that executes it, `wait` the coroutines of `_wait_for_sync_and_callback`, `pass` the passes of
  the lifecycle manager from the image check to the deployment. `agent` has the images it holds,
  those it held once, and what it knows of its transfers.
- `Queue`, `Found`, `Begin`, `Poll`, `Waited`, `PreAsk`, `Await`, `Ask` translate
  `queue_image_sync_job`, `_execute_sync_job`, the two ways a pass checks images
  (`ensure_images_for_deployment` for pinned nodes, `check_and_start_image_sync`) and what each does at
  its end. `Adopt`, `Pick`, `Delete`, `Inventory`, `Verify`, `Resync` are image reconciliation: a failed
  deletion fails the row, and what the agent does not answer about counts as absent. `Pull`,
  `Pulled` and `Pushed` are `pull_images_on_registration`, which writes the rows from an inventory and
  then queues what is missing. `FailStuck`, `ClearOrphan`, `StuckStarting` are job and node health.
- `Enforce` and `GiveUp` are state enforcement as far as images go: an attempt each time, and at
  `MaxRetries` the node is given up (`mark`) until a user starts or stops it or a pass in which all
  nodes run resets it. Backoff and cooldown are delays only: the retry comes at any time (more behaviours).
- A pass covers nodes of one image (a pass over several is several passes). Finding and inserting a
  job is one step, although rows locked elsewhere are skipped (`locked`). A job that ended is
  dropped when nothing refers to it. The completion of a job and of its row is torn only by `Crash`.
- Left out: the disabled strategy, checksums, deletion of hosts, discovery and metadata.

### Agents and the code

- `host` is the `Host` row; `entry` a registration between its three commits; `agent` the process
  with the code it loaded and whether it has a configured id; `repo` the git checkout with the
  rollback sentinel; `update[u]` an update row, `ask[u]` the controller's request, `task[u]` the
  task at the agent; `late` reports that were given up by their sender and may still arrive.
- `Register`, `Cleanup`, `Check`, `Reply` are `register_agent`; `Trigger` and `Answer`
  `trigger_agent_update`; `Fetch` to `Restart` the steps of `perform_systemd_update`; `Boot` is the
  lifespan with `check_and_rollback`; `FailStuck` is `check_stuck_agent_updates`.
- A command of an update that fails reports so, and the report may be lost (`Missed`). After a failed
  checkout the sentinel is cleared in a step of its own (`Unmark`); after one that timed out it stays,
  with the checkout changed or not, as it does after a failed installation.
- `Unreachable` is any call of the controller that gets no connection, also to an agent that is up.
- A job is the process that executes it. Updates that a container-mode agent refuses are failed
  answers; bulk updates are several updates.

### Consoles and the code

- `web[w]` is a console websocket from its arrival to its cleanup, `task[t]` a thread that extracts a
  configuration, captures a command, runs post-boot commands or probes a boot log. `procs` are the
  live `virsh console` processes; the registry, the domain lock, the control state and the caches
  are variables of their own.
- A task looks for a registered session (`Seek`); with one it pauses it, types on its pty and
  resumes it (`SessionLock` to `Resume`); without one it takes the domain lock, killing what is in
  the way, and spawns a process (`Kick`, `Take`, `Run`, `Close`).
- A start of the machine is four steps of the libvirt thread (`Start`, `Create`, `Clear`, `Mark`); what
  was polled or begun before it runs on beside them. The lookup of a new poll needs that thread too, so
  polls begin between starts.
- `Poll` is a readiness check that finds the guest up; one that does not changes nothing and is not a
  step of its own. `Ready` is what follows: a guest found ready over SSH, and any guest on an agent
  without pexpect (`auto` is FALSE), is ready without post-boot commands; any other enters
  `run_vm_post_boot_commands`, which runs them, or finds them done or under way.
- On a console of its own, commands may time out one by one and the run still counts as a success
  (`Commands`).
- `Askers` are the threads that may extract or capture besides (a bound).
- Left out: Docker, SSH and TCP consoles, processes that outlive a crash of the agent, the
  boot interventions of one vendor. A readiness answer across a restart of the machine is dropped.

## 3. Runs

| Run | Bounds | Properties | Shows |
|---|---|---|---|
| `enforcement` | 1 node, 2 jobs, budget 2, 1 command, 1 restart | `BatchStillDue`, `OneBatchJob`, `FailedUntilReset`, `BudgetSpec` | the retry budget survives all interleavings and implements `EnforcementBudget` |
| `events` | 1 node, 1 job, budget 1, 3 events in flight, 1 command, 1 job timeout or restart | `TypeOK`, `EnforcementBounded` | late and lost events, a slow job taken for stuck: the budget holds all the same |
| `pair` | 2 nodes, 1 job, budget 1, no command, 1 fault | `BudgetSpec` | several nodes in one job, one failing, resets written late |
| `convergence` | 1 node, 1 job, budget 2, 2 deploy attempts, 1 command, 1 fault, 1 restart or outage | `Converges`, `JobsEnd`, `LabFollows` | liveness once commands, faults, outages and restarts stop |
| `jobs` | 3 rows, 1 retry, 2 requests up and 1 down, 2 commands, 1 trouble | `TypeOK`, `OneOperation`, `JobsEnd`, `RequestsEnd`, `LabTruthful` | deploys and destroys exclude each other; jobs, requests and lab state come to rest |
| `lock` | 3 processes, TTL 5, interval 2, delay 1, 2 errors, 2 crashes | `TypeOK`, `RenewedMeansOwner`, `ExclusiveWhileRedisAnswers`, `LockSpec`, `OrphanExpires` | the lease, which implements `ScopeLock` |
| `links` | 2 links with a common endpoint, 2 hosts, 1 request or outage, 1 failed call | `TypeOK`, `ReservedByRow`, `Settles`, `Vanishes` | wires and rows of links come to agree |
| `tags` | 2 containers of 2 labs, 1 VM, 5 tags, 2 requests at a time, 4 events, 1 allocator beside the pool, 1 failed command | `TypeOK`, `NoStray`, `Fresh`, `Served` | tags are fresh, ports are not stray, endpoints are served |
| `images` | 1 image (file or Docker), 1 node (here, pinned, or elsewhere), 2 jobs, budget 2, 1 event or trouble | `TypeOK`, `Honest`, `JobsEnd`, `Served` | rows are honest, jobs end, nodes get their images |
| `agents` | 2 versions, 2 updates, 2 processes, 1 lab job, 2 events or troubles | `TypeOK`, `CompletedRan`, `Recognised`, `UpdatesEnd` | registration and updates |
| `consoles` | 1 session, 2 tasks (1 of which may extract or capture), 1 retry, 2 boots, guests with and without post-boot commands | `TypeOK`, `OneDriver`, `TasksEnd`, `Restored` | the shared console |
| `deferred` | 1 session, 1 task, 1 boot | `LaterIsNotDone`, violated | deferred post-boot commands are put down as done |

Why the bounds are enough. In `NodeLifecycle` the races are between one node's rows, a job and the
single instances of enforcement and reconciliation; a second job matters beside the first where
jobs pile up (`enforcement`), a second node where a job's nodes influence each other (`pair`).
`MaxRetries` 2 separates "one attempt early" from "at the bound"; with `EventQueue` 3 a whole stop
(killed, died, destroying) can be in flight behind a start; `MaxDisruptions` bounds restarts,
outages and job timeouts together, so that a run has one of each kind but not all at once. In
`LabJobs` three rows hold a restart and the retry of one of its jobs; one trouble is enough for a job
without a task, a request nobody waits for or a key left behind, and with two commands a cancel or a
new job meets each. The code sends two requests for an up and four for a down job; the third and
fourth add only more requests that wait. In `Links` two links and three endpoints are the least in
which an endpoint moves from a same-host to a cross-host link; `HealEvery` is 2 where the code has 10,
so that both kinds of cycle occur. In `VlanTags` two requests at a time are a lock holder and one
beside it; two plus one tags let the preferred range spill into the other and both be used up. In `ImageSync` a
second job row is the one a health check or a cancel makes room for; the instance has one event in
all, so troubles are checked one at a time, at every point. In `Agents` two updates are one that
supersedes another, and two troubles a lost report that arrives after a crash. In `Consoles` two
tasks and a session are the three parties that meet at a session lock; the commands, poll or probe
of one and the extraction of the other are the pairs that meet. In `images` a budget of 2 lets an
attempt fail and the next one serve the node, or both fail and the node be given up.

Deadlock is not checked where the bounded system may stop (`CHECK_DEADLOCK FALSE`): with the bounds
used up and everything settled there is nothing to do, and a free lock may stay free. In the `images`
run it is checked: there is always a monitor that can act.

Fairness. In `NodeLifecycle` and `LabJobs` (`FairSpec`) the event loops schedule every ready
coroutine, so tasks, monitors and checks are weakly fair; an agent answers or its call times out;
a silent agent is heard again; cooldowns and keys expire. Strong fairness is used for the ageing
of timestamps alone, because the model lets a timestamp age only while no reconciliation holds a
snapshot, which is infinitely often and not continuously. Faults, restarts, timeouts and user
commands are bounded and not fair. For the lease only time and the renewal threads are fair:
nobody has to leave the scope. In `Links` each worker goes on and agents and nodes come back; in
`VlanTags` requests go on and lost endpoints are reconnected; in `ImageSync` coroutines and transfers
go on and the periodic monitors come round; in `Agents` the supervisor, the heartbeat loop, the
handlers and the health check run; in `Consoles` threads and handlers run and the libvirt thread ends
a start it has begun. No user has to do anything, a console may stay open. Polls are strongly fair
there: the controller asks for readiness every few seconds until the node is ready, and the agent
serves it from a pool larger than the `Tasks` of the instance, so that threads that come and go do
not keep a poll out for ever. One assumption is about the guest and not the code: a machine that
stays on has booted in the end (`Boots`).

How some properties are worded.

- `OneBatchJob` assumes that no live job was taken for stuck (`spent.timeout = 0`): the task of
  a job that was failed meanwhile sets its row to running again (`tasks/node_lifecycle.py:258`).
- `FailedUntilReset` (and with it `BudgetSpec`) has one exception, `Unmarking`: a job that closes has
  read a mark on a counter of 0 and writes only the mark back, late; if the node has been given up on
  anew by then, the new mark goes and the counter stays. Such a pair of values is what
  `EnforcementBounded` allows.
- `EnforcementBounded` allows a mark on a counter of 0: the mark is written on a row the scan
  has loaded and overwrites a reset it has not seen.
- `Converges` leaves out nodes whose container was created and never started (see 4), and reads a
  stopped node in error as the listing will show it (`Shown`).
  It is claimed without events in flight (`EventQueue` 0): a late event can undo a settled node (a
  delayed `creating` sets a running node to pending) and the repair produces events again; whether
  this comes to rest depends on delivery times the model does not have.
- `OneOperation` is about an agent with a lock manager. After a start without Redis there is no
  lock (`NoopDeployLockManager`), not even the local one, and nothing is claimed.
- `Settles` is about links without a rival for an endpoint and loops that do not keep overlapping
  (`Apart`): the monitor and the lab's reconciliation may undo each other's work for as long as they
  run at the same moments, and nothing in the code keeps them apart at every step.
- `Fresh` is about allocations under the plugin's lock while all allocators use the pool, no command
  has failed and the ranges suffice. Each condition stands for a way to hand out a tag twice:
  `create_link` and libvirt only look at the bridge, a failed listing counts as an empty bridge, and
  a used-up range spills into the other.
- `Served` of `ImageSync` excepts nodes that were given up: enforcement tries `MaxRetries` times, so a
  node whose attempts failed, or whose agent was away for all of them, waits for the user.
- `Restored` is about guests that are set up over their console and boot, on an agent that can do so;
  see 4 for the others. It says that no interleaving of starts, polls, sessions and threads, and no
  failure of commands, leaves such a console view-only; it does not say for how long.
- `Honest` allows an image the agent had and lost since: the row says so until it is verified.
- `CompletedRan` is about updates to a version. An update to a commit counts as completed when the
  checkout holds it, whether or not the agent was restarted with it.

## 4. Findings

One statement of the source is refuted by a run: a machine at its login prompt is left to the user
with the comment that its post-boot commands will run in a later readiness cycle, and they are put
down as done (`deferred`; the lines are quoted in `PROJECT.json`).

Other disagreements that the models contain and no run is kept for:

- The lab-wide check of enforcement compares action strings and does not recognise the job of a bulk
  command (`state_enforcement.py:263`); reconciliation's "it truly doesn't exist"
  (`reconciliation_db.py:1169`) does not hold when the agents' answer is older than a job.
- Reconciliation is said not to interfere with a node a job works on (`reconciliation_db.py:939-940`,
  976-977). It looks for active jobs once per pass and may then wait for the readiness of a node. If
  a job of enforcement begins in that time and stops the next node, whose "stopping" is left from a
  task that died, the timestamp is not renewed (`node_lifecycle.py:1004`), and the pass writes the
  node back to running beside the call. With two nodes TLC finds this in a lab that was deployed; the
  node's own result is written afterwards, and `Converges` is what has to hold in the end.
- A node in starting state that nobody works on is said to be recovered by reconciliation
  (`reconciliation_db.py:992`); when its container was created and never started, nothing moves it.
- The up job of a restart is queued with its down job; after two minutes it counts as orphaned and
  its retry deploys beside the down job (`job_health.py:478`).
- `reconciliation_lock` stops excluding after one failed renewal, and yields a second time when its
  body raises `RedisError`.
- Strict one-to-one links: a link whose claim was refused is committed as desired up all the same
  (`link_states.py:1028`), and `UpsertedRow` revives rows without a look at rivals on another link.
- The status of nodes waiting for an image is cleared while its job runs: library names are compared
  with references (`job_health.py:814-826`).
- An agent without configured id registers under a new one at every start, so the cleanup after a
  restart (`routers/agents.py:369-373`) does not happen for it, nor that of its locks.
- Orphan cleanup at a restart takes the ports of a second lab on the shared bridge for orphans
  (`plugin_state.py:683-720`); they are connected again, which is what `Served` shows.
- "Interactive control restored" after post-boot commands (`console_extractor.py:1404-1408`): a guest
  with such commands that is found ready over SSH (`libvirt_readiness.py:501-522`), or that runs on an
  agent without pexpect (120-122), never gets to the code that restores it, and its console stays
  view-only, as the start has set it (`libvirt.py:1695`), until it is stopped.
- A tunnel record that failed or is in cleanup is not repaired with its link (`link_repair.py:87-109`
  writes the link alone); only a new creation of the link makes it active again.
- A repair that finds the row locked answers as one that failed, and the link is written down as in
  error although nobody tried (`link_repair.py:205-208`, `link_reconciliation.py:333-342`).
- A failed post-boot run still answers ready (`libvirt_readiness.py:642-652`), so nothing retries it.
- The result the agent caches "for concurrent requests" of a deploy is never read; the check after a
  start accepts a container that is not running; a cancelled or failed job becomes active again when
  its task reaches the update of its row.

## 5. Proofs

`tlapm` checks every module below from nothing; nothing is assumed but the constants' types (the
named `ASSUME`s of the modules) and, in `LeaseAssumption`, that an interval plus the
worst delay of the thread is less than the TTL.

- `NodeLifecycleProofs`, the operators of `NodeStates`: announced transitions are among
  `VALID_TRANSITIONS`; enforcement has an action for every mismatch except a node in error that is to
  be stopped; a bulk command never proceeds where the single command is refused.
- `NodeLifecycleProofs`, types: `TypeCorrect`, that is `Spec => []TypeOK`. There is one lemma per
  component; the sequences of events and the job records are the parts that need care.
- `NodeLifecycleProofs`: `EnforcementBounded` is not inductive, as the batch is written from
  counters read before awaits. The strengthening `IInv` says that what the scan has read of a node it
  selected is *sound* (`SeenSound`: below the bound, at least the present counter, and 0 if the node
  carries a mark) and that a node about to be marked has a used-up counter or one that was reset
  meanwhile (`SeenWithinBudget`). It is preserved because only enforcement raises a counter or sets
  a mark, one scan at a time, and because a reset lowers the counter and takes the mark away together.
  `BatchStillDue`, `FailedUntilReset` and the refinement `BudgetSpec` follow from the same invariant;
  the refinement maps the marks a job is about to take away to `unmarking`, and needs besides that such
  a pair is only read where mark and counter have that value (`StepSeesFresh`), and that the columns a
  job writes late lower counters and take marks away and do nothing else (`FlushResets`).
  `OneBatchAtATime` (`OneBatchJob`) needs that enforcement looks for batch jobs in its scan and makes
  one later: `BatchInv` says that while a scan has found none, or a batch is in hand, there is none,
  and that a job whose task runs is active, so that no task revives a batch job that had ended. The
  latter fails once a live job is taken for stuck, which is why the property assumes there was none.
- `LabJobsProofs`: `TypeCorrect`, which needs that admitted requests are paid for out of the bound
  on commands and that a job whose lock is being released still has a retry (`TInv`); and
  `OperationsExclude`, that is `Spec => []OneOperation`. That at most one operation runs is not
  inductive, as one about to run must be alone too: the invariant counts the holders of the local
  lock (`OneHolder`). The proof never uses `key`: the forced release, expiry and Redis errors
  cannot break the exclusion, and the Redis key adds nothing to it on one agent process.
- `RedisLeaseProofs`: `RenewedMeansOwner` needs the clock: for every process whose thread runs,
  the time it has waited plus what is left of the key is at least the TTL, so the key outlives the
  next renewal. `ExclusiveWhileRedisAnswers` adds that without errors every process inside still
  renews. `LeaseTypes` is the type part of the same invariant. `ImplementsLock` (`LockSpec`) maps each
  step to one of `ScopeLock`: a free key means nobody renews, a thread that wakes up finds its own
  key, and a release deletes nobody else's, so renewals and the clock are stutters.
- `LinksProofs`: `TypeCorrect` and `ReservationsFollowRows` share one invariant (`LinksInv`), as a
  reservation that outlived its row would be read as a link that is not there. Besides types it says
  that a worker with an operation has a link for it, one without waits for no agent, and a task that
  holds `link_ops_lock` has agents to call. A step that writes rows late falls under one of two lemmas:
  either no row goes away, so reservations stay justified, or those of the rows that go are released
  in the same transaction.
- `VlanTagsProofs`: `TypeCorrect` needs the shape of a request (`Shape`: which ports it is about at
  which step, and that tags are chosen before they are set). `NothingStrays` is about moments of rest;
  its invariant covers the others: a container port without an endpoint belongs to a plug that has set
  the port and not recorded it, or to an unplug that has forgotten the endpoint (`StrayPassing`), and an
  endpoint under repair is not forgotten (`RepairTracked`). `AllocationsAreFresh` needs what the holder
  of the lock knows of the bridge (`SeenOthers`): a tag of the isolated range that came to the bridge
  since it looked came with an attachment that had to leave its own range, which `Fresh` excludes. For
  that, who holds the lock must be known from the requests (`LockHeld`), two requests about one port
  must include an unplug (`Exclusive`), and an attachment has set what it will record (`AttachSet`).
- `ImageSyncProofs`: `ImageTypes` needs that a task and a transfer under way have a job row
  (`Placed`), as rows are written by name and not looked at. `HonestAlways` adds where "synced" may come
  from: a transfer that ended for a task that still polls it is of an image the agent has had
  (`Arrivals`), and so is every image in an inventory read before the rows are written (`Looked`); both
  are kept because an image never leaves the set of those the agent has or had (`Had`).
- `AgentsProofs`: `AgentTypes`, and `CompletedMeansRan`, for which a registration must carry a version
  some process has loaded (`Loaded`) and no late report may say "completed" (`Unfinished`): the sole
  way to complete a row is the comparison in `_check_update_completion`.
- `ConsolesProofs`: `ConsoleTypes`, and `OneDriverAlways`. A live process belongs to the holder of the
  domain lock, and a thread that types on a session's process holds the session (`HolderOfLock`,
  `HolderOfSession`); a thread that looks for a session holds nothing (`Seeking`).
  A session is paused only while a thread that holds it types or is about to resume it.

Every safety invariant and action property of the runs is a theorem, except `LaterIsNotDone`, which
fails. Only model-checked are the liveness properties `Converges`, `JobsEnd`, `LabFollows`,
`OrphanExpires`, `RequestsEnd`, `LabTruthful`, `Settles`, `Vanishes`, `Served`, `UpdatesEnd`,
`Recognised`, `TasksEnd` and `Restored`: fairness and ENABLED are out of the prover's reach. The two
kinds of check complement each other: the proof of `LinksInv` brought out that a claim flushes other
rows, which the model of `CreateIn` had left out and a run with one request could not show.

## 6. Plan

Done: the control loop and the lease with their refinements, lab jobs, links, VLAN tags, image sync, agents
and consoles, and the theorems above. Next:

1. Proofs: who may hold a row's lock in `Links`;
   what the liveness arguments of the loops rest on, as safety lemmas.
2. `NodeLifecycle`: `enforce_node_state` beside the monitor, the exception path of enforcement, the
   agent query of the listing.
3. Several agents: sub-jobs of a deployment, migration and its cleanup queue, bin-packing against a
   reference definition.

## Not modelled

- Code without concurrency or state of its own: file formats, uploads and builds, topology parsing,
  interface names, users and permissions, metrics, the web client. It is about a half of the
  implementation.
- I/O that no other part reads back: disk cleanup, OVS and VXLAN devices, domain XML, disk images,
  vendor quirks of consoles and boots (`docker.py`, `libvirt.py`, `ovs.py`, `vendor_registry.py` and
  `console_extractor.py` are the largest files of the repository, and of each only the calls the
  modules name are modelled).
- Job callbacks: the controller gives no callback address, so that code does not run for its jobs.
- Placement, multi-host jobs, migration, and scenario and test runners: part of the plan.

The map covers about a sixth of all source lines, and above a third of the files of the modelled
components; the rest of those files is logging, queries, payloads and error texts, which the models
abstract, and the cases each section above lists as left out.
