# KRI: a verification project

KRI (`fleet_platform/`) is a self-hosted platform to operate a fleet of nodes: it
bootstraps them, runs Salt commands and Ansible playbooks on them, watches their
presence and their drift from a baseline, raises alerts, and lets an LLM agent
propose actions that people approve. This directory models the parts of it where
concurrency, crashes and time matter, in TLA+; TLC checks the models on small
instances and TLAPS proves the most important results for instances of any size.

Contents: [the system](#1-the-system) · [the modules](#2-modules-and-code) ·
[the runs](#3-the-runs) · [the proofs](#4-the-proofs) ·
[disagreements found](#5-where-the-code-and-its-comments-part) ·
[what is not modelled](#6-what-is-not-modelled) · [plan](#7-plan).

To check it by hand, in this directory:

    tlc -workers 2 -config MCActionGate.cfg MCActionGate
    tlc -workers 2 -config MCMasterFleet.cfg MCMasterFleet
    tlapm ActionGateProofs.tla

## 1. The system

A FastAPI process serves the UI and the nodes (`api/`), Celery workers run the
long work (`workers/`), PostgreSQL keeps the state (`models/`), Redis is broker,
lock store and cache, and Celery beat starts the periodic tasks
(`workers/celery_app.py`, 121–220). Salt and Ansible reach the nodes.

What makes it hard everywhere:

- **Interleaving.** Several API requests, several worker processes and the
  periodic tasks write the same rows. Isolation is READ COMMITTED, most rows are
  read without a lock, changed in Python and written back at a commit.
- **Stale objects.** A SQLAlchemy session returns the object it already holds
  (identity map), sends no UPDATE for a column that has not changed, and its
  objects do not expire at a commit (`db/session.py`).
- **Redelivery.** `task_acks_late` and `task_reject_on_worker_lost` hold for every
  task that does not opt out: a message whose worker is lost is delivered again.
  `run_playbook`, `bootstrap_node` and `provision_master` opt out, but the broker's
  visibility timeout can still deliver their message twice.
- **Two systems, one step.** A row is committed and a message is sent; either may
  happen without the other.
- **Time.** Expiries, orphan limits, lock TTLs and windows are all compared with a
  clock while the thing they judge may be slow and not dead.

| Component | State | Operations | Talks to | What makes it correct |
|---|---|---|---|---|
| E-mail gate of node actions: `routes/node_actions.py`, `pending_action_svc.py`, `salt_tasks.py`, reaper in `maintenance.py` | a `pending_actions` row per destructive action | request, approve and reject by link, dispatch, `run_salt_cmd`, `finalize_node_action`, reap | broker, mail, Salt | dispatched once, never after a denial, every row settled |
| Agent apply-with-approval: `agent_apply_svc.py`, `routes/agent.py`, `agent/guards.py` | the same table, with approver and co-signer | propose, approve, co-sign, reject, execute in the request | agent tools | never without the signatures, once, no false success |
| Agent run: `routes/agent.py`, `agent/loop.py`, `executor.py`, `audit.py` | `agent_sessions`, one DB session and step budget per run | plan, act, refuse, propose, stop, save | LLM, tools, the two gates | every run settles, a session that waits has something to approve |
| LLM routing and costs: `tier_router.py`, `cost_tracker.py` | load and health in the process, spend in Redis | select, lease, cool down, record | endpoints, Redis | leases are given back, the daily budget holds |
| Playbook jobs: `playbook_tasks.py`, `routes/ansible/` | `ansible_jobs` row, Redis lock, Celery message | run, cancel, task with duplicate guard and lock, reap | broker, Redis, Ansible | no second run beside one that a task watches, no false success, no orphan |
| Node bootstrap: `bootstrap_svc.py`, `ansible_tasks.py`, `routes/ansible/bootstrap.py` | `bootstrap_status` of the node, a `BootstrapRun` per task | request, task, status poll that heals, cancel, reap | Ansible, Salt keys | no false success, no stuck node or record |
| Drift: `drift_tasks.py`, `task_lock.py`, `drift_engine.py`, `baseline_loader.py` | facts, drift records, `drift_score`, Redis key | compute with lock and retries, baseline edits | Redis, broker | the score follows the newest record and the latest fact |
| Node reports: `routes/ingest.py`, token minting in `ansible_tasks.py` | node token, rate-limit counter, node columns, `execution_jobs` | mint, push grains, return of a Salt job | Redis, nodes | nothing refused without a cause, returns counted once, the row says what the newest facts say |
| Alerts: `alert_svc.py`, `alert_tasks.py` | `alert_events` | periodic evaluation, delivery | webhooks, mail | one alert per window, alerting recovers |
| Registry of Salt masters: `routes/salt_masters.py` | `salt_masters`, `salt_master_id` of nodes | create, patch, delete | nodes | an enabled and a default master remain |
| Presence: `salt_presence_tasks.py`, `maintenance.mark_stale_nodes`, `reconfigure_minions` | `status`, `last_seen_at`, `salt_master_id`, maintenance | sweep, ingest, mark stale, attach, maintenance switch | Salt masters | silent nodes go offline, connected ones come online and to a master that reaches them |
| Health of masters: `salt_master_probe.py`, `maintenance.poll_salt_masters` | `status`, `last_checked_at` of a master | probe, poll, test on request | salt-api | the status follows what the master answers |
| Provisioning of masters: `ansible_tasks.provision_master`, `routes/salt_masters.py` | `provision_status`, `MasterProvisionRun` | trigger, task, finally clause, reap | Ansible, salt-api | no master provisioning for ever |
| Consoles: `routes/webssh.py`, `routes/vnc.py`, `ssh_connection_cache.py` | `ssh_sessions` rows, cache of connections | open, reuse, connect, time out, close | nodes by SSH and VNC | no leaked connection, none of another credential, rows end |
| Secrets: `node_secrets_svc.py`, `group_secrets_svc.py` and their routes | `node_secrets`, `group_secrets`, pillar files, `top.sls` | set, delete, write the files | file system, Salt | the files follow the rows |
| Index of the fleet: `embedding_svc.py`, `embedding_tasks.py` | `fleet_embeddings` | reindexing tasks: read pages, replace, sweep | embedding endpoint, sources | the index follows its sources, one row set each |
| Library of playbooks: `routes/ansible/sources.py`, `routes/playbook_library.py`, `playbook_sources.py`, `playbook_catalog_svc.py` | directories and clones of the sources, `playbook_catalog` | clone, sync, discover, enable, disable | git, file system | a sync disables only what is gone |
| Questions to models: `routes/llm.py`, `llm_svc.py`, `llm_caller.py`, `model_discovery.py`, `model_health_cache.py` | `llm_endpoints`, `llm_query_log`, health of the models in the process | ask, stream, fall back, log; create, promote, disable, delete an endpoint | model servers | prompts fit into the window, the log is true, one default endpoint |
| Agent quarantine: `agent_quarantine.py` | files awaiting review | put, promote, sweep | file system | nothing promoted unreviewed (not modelled) |

The rest (pages over single tables, authentication, search, SBOM and
vulnerability collection, digest, metrics, frontend, deployment) is listed with reasons in
`PROJECT.json`, `components`.

## 2. Modules and code

| Module | Models | Code it stands for |
|---|---|---|
| `PendingAction` | statuses of a `pending_actions` row, what the reaper does to any row | `models/pending_action.py`, `workers/maintenance.py` |
| `ApprovalContract` | abstract: decided once, only granted actions execute, once | (abstract) |
| `ActionGate` | the e-mail gate; implements `ApprovalContract` | `routes/node_actions.py`, `pending_action_svc.py`, `salt_tasks.py` |
| `AgentApproval` | the agent's gate; implements `ApprovalContract` in serial behaviours | `agent_apply_svc.py`, `routes/agent.py` |
| `PlaybookJob` | jobs, deliveries, lock, cancel, reaper | `playbook_tasks.py`, `routes/ansible/jobs.py`, `playbooks.py` |
| `NodeBootstrap` | bootstrap of one node, its pollers and reaper | `bootstrap_svc.py`, `ansible_tasks.py`, `routes/ansible/bootstrap.py` |
| `DriftEngine` | the drift score, as operators, and the reference definition of conformance | `drift_engine.py` |
| `DriftCompute` | ingest, task, lock, baseline edits; uses `DriftEngine` | `routes/ingest.py`, `drift_tasks.py`, `task_lock.py`, `baseline_loader.py` |
| `AlertEvaluation` | overlapping evaluations of the alert rules | `alert_svc.py`, `alert_tasks.py` |
| `SaltMasters` | requests on the registry of masters | `routes/salt_masters.py` |
| `NodePresence` | sweep, mark stale, attachment, ingest; extends `SaltMasters` | `salt_presence_tasks.py`, `maintenance.py`, `ansible_tasks.py` |
| `MasterHealth` | probe, poll, test; extends `SaltMasters` | `salt_master_probe.py`, `maintenance.py` |
| `MasterProvision` | provisioning and its reaper; extends `MasterHealth` | `ansible_tasks.py`, `maintenance.py` |
| `MasterFleet` | the composition of the four above | |
| `TierRouter` | choice of an endpoint, leases, budget | `tier_router.py`, `cost_tracker.py` |
| `AgentRun` | runs of the agent; extends `TierRouter` | `routes/agent.py`, `agent/` |
| `Consoles` | terminals, screens, cache of connections | `routes/webssh.py`, `routes/vnc.py`, `ssh_connection_cache.py` |
| `NodeIngest` | tokens, pushes of grains, returns of jobs | `routes/ingest.py`, `ansible_tasks.py` |
| `PillarFiles` | secrets and the files written from them | `node_secrets_svc.py`, `group_secrets_svc.py` |
| `KnowledgeIndex` | tasks that rebuild the index of the fleet | `embedding_tasks.py`, `embedding_svc.py` |
| `PlaybookLibrary` | clones and syncs of the sources, the catalog | `routes/ansible/sources.py`, `routes/playbook_library.py`, `playbook_sources.py`, `playbook_catalog_svc.py` |
| `PromptBudget` | how much of a prompt is sent, as operators | `llm_caller.py`, `routes/llm.py` |
| `ModelQueries` | questions, the models' health, changes of endpoints; uses `PromptBudget` | `routes/llm.py`, `llm_svc.py`, `model_discovery.py`, `model_health_cache.py` |
| `FleetServices` | the six above (from `Consoles`) side by side | |
| `MC…` | instances for TLC | |
| `…Proofs` | theorems and their proofs | |

`PROJECT.json`, `map`, gives the lines of every definition.

**Grain of the steps.** One action is one database transaction, one broker or Redis
call, or one decision between two of them; `pc`, `step` or `at` of a request, task or
handler says which comes next. In the API process, which runs coroutines, it is what lies
between two awaits. What a request read and later acts upon is kept in a variable of its
own where it may have become stale (`seen` in `AgentApproval` and `DriftCompute`, `cutoff` in
`AlertEvaluation`, `saw` in `SaltMasters`, `sweep` in `NodePresence`, `loaded` in
`NodeIngest`, `snapshot` in `PillarFiles`). A history variable (marked as such) records what
happened and guards nothing, except `losses`, `overlaps`, `failures`, `edits`, `changes` and
the like, which bound a run.

**Workloads.** Many processes act on the same rows, and not all of them fit into one state
space. Where it matters, the first state chooses a *workload*: the rows to start from and
the processes that act in this behaviour. Each pairs the two or three that share a row. One
run checks them all, and a theorem holds for any set of workloads.

**Time.** No module has a clock. An instant matters to the code only through the
comparison it makes, so each module keeps which limits an instant has passed
(`lapsed`, `executedAt`, `past`, `Age`, `idle`) and lets an action pass them. Where the code
makes a limit longer than the thing it limits (the lock's 7260 s equal the task's hard
limit), the action is disabled while the thing lives.

**ActionGate.** `row[a]` is the status column. `ApproveStart` … `ApproveExecuting`
follow `approve_action`: read, compare-and-swap UPDATE (`ApproveClaim`) that exactly one
request wins, send the task with its callback (`ApproveDispatch`), commit *executing*
(`ApproveExecuting`); each loser settles or refuses. `RunSaltCmd` is the call of Salt;
`TaskLink` publishes the callback before `TaskAck` acknowledges the message, so that a
loss in between repeats both. `FinalizeCheck` and `FinalizeWrite` are the two halves of
the read-decide-write of `finalize_node_action`. Requests of actions that are not
destructive are dispatched at once (`RequestImmediate`).

**AgentApproval.** A request loads the row (`GetAgentAction`) and then decides on that
copy, although it waits for the row lock: see section 5. The first state chooses whether
the behaviour is `serial` (no two requests on one action at a time, which shows the state
machine without the race) or racing.

**PlaybookJob.** A delivery `<<job, n>>` is one delivery of one message. `TaskBegin` is
the duplicate guard, `AcquireLock`, `TargetLocked` and `LockUnavailable` the three
outcomes of the Redis lock, `MarkRunning` … `FinalWrite` the run, `Raise`, `HandlerWrite`,
`HandlerRaises` and `ReleaseLock` its handlers and its `finally` block. The lock's owner
token makes `ReleaseLock` a no-op for a lock that is another's. The playbook (`runner[d]`) is not
the task (`wpc[d]`): it runs in a thread and a process of ansible-runner from `StartRunner` to
`RunnerEnds`, and neither a handler nor the death of the worker ends it. `LetGo` names the tasks
that left theirs behind: over, with the lock given back, or killed, with the lock expired. These are the only
ways two playbooks come to run against one target, which is what `OneRunPerKey` says.

**NodeBootstrap.** `status` is the node's column, `run[t]` the record of task `t`. A poll
(`StatusRead`, `ResetWrite`) and a cancellation (`CancelRead`, `ResetWrite`) write the
node too, which is why "completed" has to be earned.

**DriftEngine and DriftCompute.** `Score` is `compute_drift`: packages missing, extra or too
old, services that should run or not, weights, the cut at 100. Versions compare as Python
tuples do. `DriftCompute` follows one node: the fact gets its time before its commit
(`Stamp`, `CommitFact`), the task is dropped when the key is set (`SkipDuplicate`), the
session omits an UPDATE that changes nothing (`CommitScore` with `loaded`), the key is
deleted whoever set it (`Release`).

**AlertEvaluation.** A subject is a node under one rule, or the pending keys. `cutoff` is
what lay outside the window when the evaluation began; two events inside it make
`scalar_one_or_none` raise (`Stumble`), which rolls back the whole evaluation of all
rules, after its alerts were sent.

**SaltMasters.** `registered`, `enabled` and `isDefault` are the table; a master is its
primary key, a number because a session sends its UPDATEs in key order. A request is a
chain of SELECTs (`saw`, `cleared`, `heir` keep what they returned) and one commit, which the
database may refuse: for a second default master, for a node of a deleted one, for a row
that is gone. `stale` marks the requests that another one's commit has overtaken, `raced`
that such a request committed all the same.

**NodePresence.** The world is `alive`, `listens` and `running`; `Reaching(n)` are the masters
that report a minion up. `SweepPoll` asks one master after another, `SweepLoad` reads the
rows, `SweepCommit` writes them: only the columns that differ from what was loaded
(`Flush`), and nothing at all if one of the nodes refers to a master deleted since.
`MarkStaleNodes` is the UPDATEs of one transaction, `Attach…` `reconfigure_minions` for one node.

**MasterHealth and MasterProvision.** `Checks` and `Aggregate` compute a master's status from
what it answers, check by check, as the probe does. A poll writes all
its masters in one commit. `MasterProvision` follows the task to its `finally` clause, which
looks for *the* running run of the master: `misfiled` records that it settled another task's,
or found several and raised.

**TierRouter and AgentRun.** `load`, `cooling` and the two counters of the spend are what the
router looks at; `Local` and `Fallback` what it may choose. A run goes through `plan`,
`dispatch`, `over` and `save`; a lease is held from `Lease` to `over`. `used` counts
iterations, `call` is the tool call the model chose, `seenCalls` and `dryRunDone` what the
guards compare it with. `db` is the state of the session all of a run shares: after a rollback
its objects expire, and reading one ends the run in an exception. A client may leave, the
process may restart, Redis may be out.

**Consoles.** `at[s]` is where a handler awaits, `conn[s]` the connection it uses, named after
the shell that opened it. `cache` is the set of its entries, `used` the order in which they were last asked for:
the first of them makes room when the cache is full (`Room`). `Reuse` and `Connect` hold the lock of the cache; eviction closes
connections whoever uses them. `record[s]` is the row; `cut` marks sessions whose handler ended
before it could end the row.

**NodeIngest.** A token is named after the one who minted it; `token` is whose hash the node's
row has. A push of grains passes the limit of its address or does not (`ThrottlePush`: others push from the same
address, so at any time), loads the row (`ResolvePush`), asks the limiter of its node, and writes what
differs from what it loaded, which is why one that was overtaken (`outdated`) may leave an older
column beside newer facts. A return of a Salt job looks for the job, inserts, and commits.

**PillarFiles.** A request changes a row (`CommitRow`), reads all secrets of the scope
(`ReadSecrets`), then locks and rewrites the file: merged into what is there for a node,
replaced for a group (`Contents`), and for a group `top.sls` after it. `late` marks a part that
was overwritten by somebody who had read it earlier than its previous writer, `torn` one that a
request left unwritten or half-written.

**KnowledgeIndex.** `content` is what the sources say, `rows` what is committed of them, each row
with the task that inserted it, for two equal rows are still two. A task reads a page by `LIMIT` and
`OFFSET`, compares it with what is stored (`PlanUpsert`), deletes and inserts in one transaction, and
at the end sweeps what it did not read. A `DELETE` finds rows (`Delete`) and then waits for those
another transaction holds (`Lock`), as under READ COMMITTED; rows committed in between escape it.

**PlaybookLibrary.** `dir[s]` is what lies on disk for a source: nothing, a clone or a pull under way, what a killed
git or a missing disk leaves, or the files; the code only asks whether it exists (`There`). A request
(`req`) gets the directories (`CloneBegins` … `Take`), which a sync pulls (`PullBegins`, `PullEnds`: in between, who reads
the directory may at worst find nothing); the sync then scans them (`Scan`), reads the enabled
rows (`LoadEnabled`) and disables what is missing in one commit (`DisableMissing`). `Paired` is the matching by
position that pages and enablings use (`Shown`), `Scanned` the one by name that a sync uses. `held` are the playbooks that never
left their source, `misread` the sources whose directory was not complete when it was scanned: only of these may
a sync disable what is there.

**PromptBudget and ModelQueries.** A prompt is the lengths of its parts; `Budgeted` is what `_budget_inputs` leaves
of them. A question goes through `PickEndpoint`, `BuildContext`, `ResolveModel` (with `Probe` and `ChooseModel` for
an endpoint `__auto__`), `Send`, and `Answer` or `Fail`, which falls back once, to `WriteLog`; a stream may be left
(`Disconnect`). `health` is the cache all endpoints of one URL share, `saying` what a model does when asked. A change of
an endpoint loads the row (`LoadEndpoint`), takes the default from the rows there are (`ClearDefaults`), and commits
(`CommitChange`); `crossed` says that two of them did the second at once.

## 3. The runs

| Run | Instance | Shows |
|---|---|---|
| `gate` | one destructive and one immediate action; 3 requests, or 2 and one lost worker; fairness | `RerunsOnlyAfterLoss`, `OnlyApprovedRuns`, `ExecutedWasAnswered`, that the gate refines `ApprovalContract`, and that rows settle wherever requests and workers stop: `RowsSettle` |
| `gate_early_callback` | 3 requests | **violation** of `CompletionIsRecorded` |
| `agent` | 3 requests, any of which may crash, serial and racing | races never skip a signature: `RunsAreSigned`; one at a time, signers differ and the gate refines `ApprovalContract`: `SignaturesDiffer`, `ImplementsContract` |
| `agent_twice` | 2 racing requests | **violation** of `ExecutedOnce` |
| `jobs` | 2 jobs of one playbook on one node, with killed workers; one job delivered three times; one delivered twice, with kills, late deliveries, and a cancellation or Redis failing; fairness | `OneRunPerKey`, `CompletedSucceeded`, `LockIsFreed`, `OrphanIsReaped` |
| `bootstrap` | 2 requests and 1 client who polls and cancels, fairness | `CompletedIsEarned`, `NoOrphanIsLeft`, `BootstrapSettles` |
| `bootstrap_healed_alive` | the same | **violation** of `HealsOnlyStuckNodes` |
| `drift` | 2 requests, 1 retry, 1 lost worker, 1 edit of the baseline | `ScoreIsNewest`, `NeverOlder`, `QuietScoreIsCurrent`, `ZeroMeansConforming` |
| `alerts` | 2 rules with a node each, 3 evaluations, 1 overlap, 1 failure, fairness | `AlertedOnce`, `DueIsReported` |
| `masters` | up to 3 masters and 1 node, twelve workloads of 2 or 3 processes, fairness | `RegistryStaysUsable`, `PresenceFollows`, `HealthFollows`, `ProvisioningEnds` |
| `agent_run` | a local and a paid endpoint, a budget of one answer, 2 iterations, three workloads of 1 to 3 runs, fairness | `CapHolds`, `AwaitingHasAction`, and that runs end and leases are given back: `RunSettles` |
| `fleet_services` | twenty workloads: shells and a screen with room for one cached connection; two minters and a heartbeat; three returns; three changes to the secrets of a node, two to those of groups; two reindexing tasks, two sources, one edit, one failure; two syncs, a sync and a bulk enabling, a sync with an enabling or a disabling, two changes of the library's world; a question with 96 prompts, two to an `__auto__` endpoint of two models, streams, and questions while one or two administrators create, promote, disable or delete endpoints; fairness | `ConnectionsAreKept`, `SessionIsEnded`, `RefusalHasACause`, `RowFollowsFacts`, `AcknowledgedOnce`, `PillarFollows`, `IndexFollows`, `OneRowSet`, `AutoDisabledIsGone`, `PromptFits`, `LogIsTrue`, `OneDefault` |

Type invariants are proved, not checked (section 4). Every property of a passing run has a mutant in
`PROJECT.json`: a change of one mapped definition, of the kind a bug would make, under which
TLC finds the property violated.

**Are the bounds enough?** Each was chosen so that every race the code has fits in.
Three requests are a winner, a loser and one that finds the row settled. One lost worker
gives two deliveries of one command and two callbacks, which is where the callbacks race;
`MCNext` combines it with two requests only, for a third multiplies the states without a
new kind of race, and the safety properties are proved without that restriction. Two target
counts lie on both sides of the co-sign threshold. Two jobs, and two or three deliveries of
one, are the ways deliveries get to one lock; each workload of `jobs` has the faults (`Faults`) that make a
difference to it. Two tasks of a node are the way run records
overlap. In `drift`, two requests are an older and a newer fact, one retry and one loss put
their tasks in either order, and one edit lets the score change without a new fact. In
`alerts`, two evaluations overlap and the third meets their duplicate. In `masters`, each
workload is two writers of one row (or three, for a deletion between a sweep and an
attachment), starting from the registry in which they can disagree: two enabled masters, or
one disabled and none default. In `agent_run`, two iterations are a dry run and a live call, which is
also the least that lets a call repeat; three runs together are what overshoots a budget of
one. In `fleet_services`, room for one connection makes the second shell evict the first's, a
limit of two is exceeded by the third push, and three writers are two that disagree about who
read first and one who reads what they left; two sources on two pages are what a deletion needs to
make a task miss one. A clone and a local directory, in that order, and two changes (a clone lost, a
playbook removed) are what a wrong pairing of directories and sources needs to disable a playbook that is there. The
prompts have windows and answers of usual sizes and ones where either takes all of the other, and rules as long as the code's, or as the least budget;
two models are one that fails and one to fall back on, and one change of what they do, or of what is known of them,
comes between any two steps. The safety properties are
proved without these bounds (section 4); for liveness they remain. Deadlock is not checked because every one of these
systems really stops: a settled row, a finished job or an exhausted bound has no step left.

**Fairness.** Assumed only of what the code schedules.

- Beat starts the reapers, the sweeps, the polls, `mark_stale_nodes` and the alert evaluation
  again and again; time passes its limits; Redis expires keys.
- A task that began goes on until it ends, by its time limit if need be, or is killed
  (`WorkerKilled` and its like are never fair and always possible); nothing is assumed of the
  playbook it started. Of the e-mail gate nothing
  else is assumed: a request may stop anywhere, and a worker may never answer.
- `BootstrapSettles` also needs somebody to look at the status of the node, as the UI does while
  it shows a bootstrap: only the poll heals a node whose task died before it had a record.
- A run of the agent goes on (`WF` of `Goes`), because the calls of models and tools have timeouts.
- A console's handler goes on, and a shell that waits for the lock of the cache gets it in the end
  (`SF`): the lock of asyncio is first come, first served, and every connection attempt ends. A screen
  has no time limit, so nothing is claimed of one that is live.
- Presence and health *follow* a world that has come to rest: the properties say what happens once
  a minion, a master or a registry no longer changes.
- Beat starts the reindexing tasks again and again and their calls end (`IndexFairness`); `IndexFollows`
  speaks of what happens once sources rest and calls no longer fail.
- Deliveries, cancellations, requests, pushes and edits are never fair.

## 4. The proofs

TLAPS proves, for all values of the constants that satisfy the named ASSUMEs:

| Theorem | Property |
|---|---|
| `ActionGateProofs!DispatchesOnce`, `RunsOnlyApproved`, `RerunsAreRedeliveries`, `ExecutedIsAnswered`, `DenialsAreFinal`, `GateImplementsContract` | the safety properties of the gate, the refinement included |
| `AgentApprovalProofs!RunsOnlySigned`, `SignersAreNamed`, `ExecutedOnSuccess` | what holds in every behaviour, racing or not |
| `AgentApprovalProofs!CoSignersDiffer`, `SerialExecutesOnce`, `GateImplementsContract` | what holds when requests come one at a time, the refinement included |
| `PlaybookJobProofs!RunsAreExclusive`, `CompletionIsEarned` | the safety properties of `jobs` |
| `NodeBootstrapProofs!CompletionIsEarned`, `NoOrphans` | the invariants of `bootstrap` |
| `MonitoringProofs!ScoreFollowsRecords`, `CurrentWhenQuiet`, `NoFallback`, `ZeroIsConforming` | the properties of `drift` |
| `MonitoringProofs!AlertsDoNotRepeat` | `AlertedOnce` |
| `MasterFleetProofs!UsableRegistry` | `RegistryStaysUsable`, an action property |
| `AgentRunProofs!WaitingHasAction`, `BudgetHolds` | `AwaitingHasAction`, `CapHolds` |
| `FleetServicesProofs!ConnectionsFit` | `ConnectionsAreKept` |
| `FleetServicesProofs!NoIdleRefusal`, `RowIsCurrent`, `RecordedOnce` | `RefusalHasACause`, `RowFollowsFacts`, `AcknowledgedOnce` |
| `FleetServicesProofs!FilesFollowRows` | `PillarFollows` |
| `FleetServicesProofs!RowsAreReplaced` | `OneRowSet` |
| `FleetServicesProofs!DisabledIsGone` | `AutoDisabledIsGone` |
| `FleetServicesProofs!SentFits`, `LogNamesTheModel`, `DefaultIsOne` | `PromptFits`, `LogIsTrue`, `OneDefault` |
| `TypeCorrect` of each | `TypeOK`; of `AgentRun`, also that `load` is the number of lease holders, of `MasterFleet`, that at most one master is the default and no node refers to one that is gone. `FleetServices` has no `TypeOK`: the types of each of its components (`IngestTypes`, `PillarTypes`, …) are part of that component's invariant |

Together these are all invariants and action properties of the passing runs, and the refinements; what is left to TLC is
liveness.

The assumptions say only what the data is: sets are disjoint or nonempty, bounds are
numbers, grains and baselines have the shape the parser gives them; a prompt is six lengths, a source of
the index has a number, and no secret has the key `fleet_platform`, under which the pillar file of a node keeps the
node's token and the address of the API (the routes do not check that). TLC evaluates each of them. The
arguments:

- **Gate** (`GateIInv`). `DispatchedOnce` is not inductive: it says nothing of a request
  that has won but not sent. The invariant gives an action an *owner*, the request that
  won the compare-and-swap or has sent the command. `OwnerInv`: an owned action is
  granted and has one owner. The swap makes an owner only from *pending*, and nothing
  leads back to *pending*. `TryInv` and `RunsInv` count deliveries against losses,
  `AnswerInv` follows every "ok" from Salt to the row. The refinement maps *granted* to
  the claim and execution to the dispatch: each step of the gate is a `Grant`, a `Deny`,
  an `Execute` or a stutter.
- **Agent** (`IInv`, `SerialInv`). Requests act on stale rows, so nothing about the current
  row can be assumed. What can: signatures are only ever added, hence what a request saw of
  them stays true (`RequestInv`), and whoever may execute is `Signed`. This is why the race
  that runs a tool twice cannot run it unsigned. In a serial behaviour the request under way is
  alone (`AloneInv`), so what it saw is the row (`FreshInv`), and a decided row has the history
  its status says (`DecidedInv`); from these follow the differing signers and the refinement.
- **Jobs** (`JobIInv`). `OneRunPerKey` speaks of playbooks, the lock is held by deliveries, and either may
  outlive the other. A delivery that got past the lock (`Holds`) is its only holder until it is through its
  `finally` block (`LockInv`), as the TTL outlives it and nobody else's release removes it; a playbook was started by
  a delivery past the lock, which starts no other (`OnceInv`). So a delivery with a playbook under way holds the
  lock or has let go of the playbook. Whoever completes a job holds the lock, hence no other delivery
  of that job is at work (`CompletedSucceeded`).
- **Bootstrap** (`BootstrapIInv`). A task owns its record from `CreateRun` to
  `FinalWrite`; while no two runs overlap, the record its `finally` block finds running is
  its own (`AloneInv`), and "completed" is only written by it, after success (`EarnedInv`).
- **Drift** (`DriftIInv`). While no key has expired under a running task, the task in the
  locked section is the one that set the key (`LockInv`), so nobody writes between its
  read of the score and its commit (`ScoreInv`), and the fact it reads is not older than the
  newest record's (`OrderInv`). `MissedInv`: unless a computation was missed, the newest
  record is that of the latest fact or somebody who will see it is under way.
  `ZeroConforms` proves the engine against the reference definition of conformance.
- **Alerts** (`AlertsInv`). Whoever alerted of a subject is still running, failed, or has left an
  event (`Sent`); an event that is not found lay outside the window and still does
  (`Cutoff`); whoever is still running has been met (`Met`).
- **Masters** (`IInv`). What a request read of the registry still holds, unless the request is
  `stale` (`Fresh`); so a commit that is not `raced` decides on the registry as it is. That no
  sweep, poll, attachment or provisioning changes the registry is a lemma
  (`OthersLeaveRegistry`). `TypeCorrect` needs `Typed`, the types of everything a process has
  read, because what it read is what it writes.
- **Agent runs** (`IInv`). A session waits only if its run ended with a proposal, and the
  proposal was committed before (`Awaits`); the load of an endpoint changes exactly when the set
  of its holders does (`LoadCounts`), by lemmas about the cardinality of that set.
- **The budget** (`CapInv`). `CapHolds` bounds what was billed, but a step depends on what runs
  in flight have had and not yet recorded, and on what they may still have: sums over runs. Both are sets
  of pairs of a run and the number of an answer (`Had`, `ToCome`), so that the sums are
  cardinalities. An answer moves a pair from `ToCome` to `Had`, the recording of a run turns its pairs into
  spend; what was billed is never more than the spend and `Had` (`Bounded`), and with `ToCome` never more
  than the bound. A run joins only while the spend is below the cap, and there are then at most
  `MaxIterations` pairs for each of the `together` runs (`FewAnswers`).
- **Fleet services.** A step of one component leaves the variables of the others alone
  (`Separate`), so each component has an inductive invariant of its own.
  - *Consoles* (`ConsoleInv`): only the holder of the lock connects; it has made room and found no
    entry of its key (`ConnectInv`), and whoever awaits something else cannot add one.
  - *Reports* (`IngestInv`): the counter of the limiter is not ahead of those it let in (`CountInv`); a push that was
    not overtaken knows the column as it is (`RowInv`); whoever has inserted a job and not committed is alone with
    it, and nobody has recorded it (`ReturnInv`).
  - *Secrets* (`PillarInv`): files are written long after they were read, so the invariant speaks of
    the order of the reads (`Later`), not of the file alone. The last reader of a file has seen every
    row as it is now, unless the request that made it so has yet to read it (`FileFollows`, `RowPending`); the
    last writer is the last reader, or the file is `late`. The same of the list of groups in `top.sls`, which every request
    reads for all groups (`TopFollows`).
  - *Index* (`IndexInv`): a task that plans to replace the rows of a source holds or is about to find all there are
    (`TaskInv`, `TurnInv`), as long as only one task at a time has something to insert.
  - *Library* (`LibraryInv`): a playbook that has been there all the time is in the directory, if that is whole
    (`HeldInv`), hence among what a sync found, unless the source is `misread` (`RequestInv`).
  - *Questions* (`QueryInv`): at each step, who was asked, with which answer, and who may be asked next
    (`QuestionInv`); unless two changes crossed, at most one is between taking the default away and giving it, and then there is none (`DefaultInv`).
  - *Prompts* (`SentInv`): the facts about `Budgeted` (`BudgetFits`) rest on `LastMessages`, a recursive function
    that sums lengths. That such a function exists and what it satisfies is proved by induction over
    the naturals in first-order form (`SetInduction`, from the well-foundedness of `<`), over finite approximations of it
    (`Sums`, `SumsExist`); `FittingFits` then says what the choice of the messages returns.

**Only model-checked:** all liveness (`RowsSettle`, `LockIsFreed`,
`OrphanIsReaped`, `BootstrapSettles`, `DueIsReported`, `PresenceFollows`, `HealthFollows`,
`ProvisioningEnds`, `RunSettles`, `SessionIsEnded`, `IndexFollows`), which the prover cannot do under fairness; and the three
violations of section 5, which are counterexamples. Induction over data has to be stated without an operator as parameter; it is used where a proof
needs it (the prompt's lengths, above) and nowhere else. No module declares a recursive operator.

## 5. Where the code and its comments part

Three disagreements are runs of their own, with TLC's counterexample:

1. **An early callback is lost** (`gate_early_callback`). `node_actions.py:464` sends the
   task before `469` commits *executing*; a callback in between finds *approved* and does
   nothing. The row stays *executing* until the reaper calls it failed, although the
   command succeeded.
2. **Two approvals execute twice** (`agent_twice`). `agent_apply_svc.py:103` locks the row
   "to prevent TOCTOU double-execution", but the session returns the object loaded before
   the lock. `populate_existing` would repair it.
3. **A poll fails a live bootstrap** (`bootstrap_healed_alive`). The status endpoint
   (`bootstrap.py:109–120`) takes a node whose task has not yet created its record for a
   stuck one.

Others, met in the models (their states are reachable) or while reading, with no run:

- *Gate.* `finalize_node_action` writes without a condition (`salt_tasks.py:279–297`), over a
  status the reaper wrote meanwhile. Nothing reaps an *approved* row whose request died
  before the dispatch (`maintenance.py:378`).
- *Agent approvals.* A rejection between the commits of an approval is overwritten
  (`agent_apply_svc.py:148,155`). A row that is *executing* with no `executed_at`, left by a
  request that died (186), is never reaped (`maintenance.py:381`): `NULL < cutoff` is not true.
- *Agent runs.* The session is opened up front "so even an aborted/disconnected run is recorded"
  (`routes/agent.py:112`), but after a disconnection it stays *active* and its tokens are not
  counted. A rollback expires the endpoint and the session, so the reads at 195, 207, 218 and 243
  raise in the route, against "Best-effort: never breaks the run" (`agent/audit.py:20`) and
  "always emit a terminal frame" (`routes/agent.py:192`). *awaiting_approval* is not in
  `AgentSession.STATUSES`. A dry run of any state on any target satisfies the guard for
  all later live calls. `should_stop` is never passed, and the planner keeps one tool call of an
  answer, so `MAX_TOOL_CALLS` (12) is reached only where there are more iterations than that.
- *Router and budget.* When the router finds nothing, the route takes the default endpoint
  (`routes/agent.py:87–89`), be it paid, over the cap or cooling down, although the router refuses the cloud
  because "a degraded local cluster must not run up an unbounded bill" (`tier_router.py:135`).
  Runs in flight together all pass the cap; `CapHolds` says by how much. A Redis that
  comes and goes splits the count in two, and neither reaches the cap. `mark_healthy` is never called.
- *Jobs.* The comment of the target lock (`playbook_tasks.py:38–39`) speaks of two runs
  against one node; the key (377) holds the playbook, so two *different* playbooks run on a node
  together. Nor does the lock "prevent" two runs of one: a task that ends by its soft limit or an exception gives it back
  (642–651) although the playbook may still run. The handler calls `runner.cancel()` (611), which ansible-runner's
  `Runner` does not have; the `except` (614) takes that, and skips the wait for the thread (613). The row then says
  "playbook was terminated" (624). The soft limit of 7200 s can come before the end of a job's own `timeout_seconds`,
  which may be as long and begins later. What a killed worker leaves may outlive the TTL of its lock, too. A job cancelled before its task id was stored, or whose revocation is late, runs
  all the same (391), although `jobs.py:142` calls *cancelled* terminal; it then has
  `completed_at` set and, should its worker die, is never reaped (`maintenance.py:187`). A
  duplicate delivery that finds the lock held fails the job of the live run (350, 382). A job whose
  message was never sent (`playbooks.py:425`) stays *pending*, which no reaper looks at.
- *Bootstrap.* A second request is refused for *bootstrapping* only, not for *pending*
  (`bootstrap.py:41`): two bootstraps of a node may run together, and the clean-up of one
  then fails on two running records.
- *Drift.* A task that finds the key set is dropped (`task_lock.py:41–43`) although its holder
  may have read the older fact; so is the redelivery of a lost worker's task for as long as
  the key lives. A plan (`docs/superpowers/plans/2026-05-13-fleet-platform-plan-4-drift-engine.md:25`)
  says "any node with facts and a baseline gets an accurate drift score". A version with fewer parts
  than required is flagged even if it is equal (`drift_engine.py:107`). A changed baseline queues
  no computation.
- *Alerts.* Overlapping evaluations duplicate an event; from then on every evaluation of every
  rule raises (`alert_svc.py:121,154,207,248`), is rolled back and sends its alerts anew, until
  the window has passed. `DueIsReported` shows that it ends. `_deliver_alert` returns before the
  e-mail when there is no webhook (271).
- *Registry.* The checks "at least one must remain enabled" (`salt_masters.py:226,323`) count before anything
  is committed: two requests that disable one master each leave none. A deletion may remove a
  master that was promoted after it looked (305). PATCH of `is_default` to false leaves no default;
  a promotion of a master whose key sorts before the current default's violates the unique index,
  a 500. Concurrent creations may duplicate an endpoint.
- *Presence.* `enable_node` sets a status *active* (`agent/tools.py:477`) that `mark_stale_nodes`
  never turns stale. The sweep, having loaded *online*, sends no UPDATE of a status that was made
  *stale* meanwhile; a master deleted since makes its commit fail for all nodes. An attachment
  writes a list of two masters, so a third one of the node is lost; an `IntegrityError` of
  its last commit ends the batch although it "Never raises on a per-node failure" (`ansible_tasks.py:1223`).
- *Provisioning.* Nothing keeps two tasks from provisioning one master: the `finally` clause of one settles
  the run of the other (`ansible_tasks.py:1163`) or fails on both, and of two first provisionings each
  makes up a password of the salt-api (810), of which one is stored.
- *Tokens and ingest.* A grain collection overwrites the token that a bootstrap has just minted and the one in
  the node's pillar (`ansible_tasks.py:651`): the node's reports are then refused (401) until it is
  given the new one, and the playbook ignores that. The limiter renews the expiry of its counter with every
  request, refused ones included (`ingest.py:64–69`), against "max 10 ingest requests per minute per node"
  (251): a node that keeps trying stays locked out. The handler for a duplicate Salt return
  guards the commit (349), but the unique index is checked by the `flush()` before it (337): a 500. A push
  that was overtaken between loading the row and writing it leaves a column older than the newest facts (259–265).
- *Consoles.* A timed-out session is recorded as *timed_out* and then as *closed* by the `finally` block.
  Rows stay *active* when the handler ends before its `try` block, when the last write fails or the
  process stops: there is no reaper. The cache closes connections that shells still use, once they
  are idle in the cache, the oldest, or of a host whose key does not match; it holds its lock while it
  connects, so one dead host delays all consoles. The fingerprint of a key is the path of a
  temporary file, so connections with keys are never reused. The empty-password guard (`webssh.py:305`) cannot be
  reached. `evict_node` is never called.
- *Secrets.* "After delete, pillar file is regenerated" (`node_secrets.py:103`), but the file of a node is merged,
  so a deleted secret stays in it. Secrets are read before the file is locked, so who read first may
  write last; the file is written in place, and one truncated by a crash loses its other block. Audit events
  of secret changes are added after the commit (`node_secrets.py:74,109`, `group_secrets.py:72,106`) and
  go with the session. Groups called all, global or common are listed in `top.sls` as "common"
  (`group_secrets_svc.py:153`), a file nobody writes.
- *Library.* A clone killed by its limit of 60 s (`playbook_sources.py:78`) leaves a directory, and a directory
  that exists is never cloned again (71); the pull in it fails unnoticed (`check=False`, 93). So the sync reports "ok"
  (238) and disables every enabled entry of that source, although the log says "run Sync to retry" (213). The
  same happens to a mount point whose disk is away. `_dir_source_pairs` claims "no index arithmetic so absent
  directories never shift mappings" (`playbook_library.py:59`), but takes the next directory got for each source
  that has one by then (90–113): after a clone killed in that very call, the next source's playbooks are shown and
  enabled under its key. A sync looks only at the sources listed, so entries of a removed one stay enabled. The list
  is read, changed and written back without a lock (`sources.py:377`), and sources are removed by their index (462): of two
  additions one may be lost, and a repeated DELETE removes the next source. Two repositories whose URLs end alike
  share a directory (`playbook_sources.py:57`).
- *Index.* Tasks that overlap may leave two equal rows of a source, against "delete-then-insert leaves exactly
  one current row set" (`embedding_svc.py:358`); hashes are compared as sets, so nothing repairs that before
  the source changes: `OneRowSet` holds without overlap, `IndexFollows` with it. A node deleted behind the
  offset makes the task miss another one (`embedding_tasks.py:64`) and sweep its rows, until the next run. The
  text of a node tells how long ago it was seen, so its hash changes with every run, against "re-embed only if
  content_hash changed" (21). Embeddings of drift records are never swept.
- *Questions.* The log "reflects every attempt regardless of whether the client stayed connected" (`routes/llm.py:487`), but
  a stream whose browser goes away is cancelled before it is logged. An endpoint deleted meanwhile makes the insert fail
  after the answer was given; so does a failed statement of the context, for "degrading to minimal context" (303) does not
  roll back. The audit event is added after the commit (421) and goes with the session. "ONE input ceiling" (`llm_caller.py:38`) is
  exceeded when the question is long or the window small, for each part is given 1000 characters (49–63); a system prompt
  without rules is then longer than its budget by the marker (133); the tools' descriptions are not counted, and Anthropic is sent
  the configured answer length, not the one that was reckoned with (464–477). The rules are whole in the least budget only because they are
  946 characters long: of more than 1000 the beginning is cut off. Two administrators who create or promote endpoints at once may leave two
  defaults, and then every question that names none is a 500 (`llm_svc.py:44`). `enabled: false` together with `is_default: true`
  makes a disabled endpoint the default, against "never returns a broken endpoint" (86). A failing fixed endpoint (or
  its stream) leaves an unhealthy entry for the shared URL, which keeps an `__auto__` endpoint from probing (`is_stale`): 503 for
  up to five minutes. A stream never forgets an `__auto__` model that failed.

## 6. What is not modelled

- Inside modelled components: the text of mails, logs and scores' details; which baseline wins
  among several (one variable stands for the winner); inventories and credentials (a failed lookup is
  a failed run); the output of a run and its cap; the check of webhook URLs; retention sweeps; who may
  open a console and what it records; how secrets are encrypted; changes to the list of sources, clones that share a directory,
  favourites and the parsing of playbooks; the prompts of the agent, which share the budget of `PromptBudget`, and
  answers (a model answers anything, or fails); native tool calls; that Ollama's list counts as health.
- Salt, Ansible, the mail server, webhooks, models and agent tools are external: they answer or fail at
  will, and may answer late.
- PostgreSQL and Redis are taken to keep what they committed. Redis may be unreachable and its keys
  expire; it does not lose them otherwise. One API process serves consoles and agent runs: their
  caches and counters are per process.
- One day of the budget: that its key expires at midnight is left out. A probe sees one condition of
  its master.
- The components listed in `PROJECT.json` as `not_modelled`. Most keep no state beyond one statement on
  one table (pages, settings, alert rules, digest, device profiles), keep none (retrieval,
  metrics, the frontend), or are vendored (the Ansible collections under `playbooks/`). Agent quarantine and the
  statistics and SBOM ingests do have retries or races, and are next.

## 7. Plan

Done: the gates, jobs, bootstrap, drift and alerts; the fleet of masters (`SaltMasters`, `NodePresence`,
`MasterHealth`, `MasterProvision`, composed in `MasterFleet`); the agent's runs with router and budget
(`TierRouter`, `AgentRun`); consoles, reports, secrets, the index, the library and questions to models (`Consoles`, `NodeIngest`, `PillarFiles`,
`KnowledgeIndex`, `PlaybookLibrary`, `ModelQueries`, side by side in `FleetServices`); proofs of their safety properties.

Next, by importance:

1. Abstract specifications of what jobs, the registry of masters and the index promise, implemented as the two gates implement
   `ApprovalContract`, with their proofs.
2. `AgentRun` composed with `AgentApproval`: today a run ends with a proposal, and the gate begins with one.
3. The chain of provisioning and bootstrap, `MasterProvision` composed with `NodeBootstrap`.
4. `BaselineChoice`: precedence of role, group and fleet baselines, checked against a reference.
5. Quarantine, statistics and SBOM ingest.
