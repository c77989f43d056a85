---------------------------- MODULE PlaybookJob ----------------------------
(***************************************************************************)
(* Playbook jobs: the run and cancel endpoints of api/routes/ansible, the  *)
(* Celery task run_playbook of workers/playbook_tasks.py with its          *)
(* duplicate guard and its per-target lock in Redis, and the reaper        *)
(* reap_orphaned_jobs of workers/maintenance.py.                           *)
(*                                                                         *)
(* A job is one row of ansible_jobs and one Celery message.  The message   *)
(* is acknowledged when its task starts (acks_late=False), so a killed run *)
(* does not come back; but a message that waits unacknowledged longer than *)
(* the broker's visibility timeout is delivered again.  A delivery is a    *)
(* pair <<job, n>>.                                                        *)
(*                                                                         *)
(* The playbook itself runs in a thread and a process of ansible-runner,   *)
(* which the task only watches.  A task that ends by an exception or its   *)
(* time limit does not stop them: Runner has no cancel(), and the handler  *)
(* passes over that.  Nor need they die with a worker that is killed.      *)
(***************************************************************************)
EXTENDS Naturals

CONSTANTS
    Jobs,
    TargetOf,        \* the target (a node or a group) of each job
    PlaybookOf,      \* its playbook
    Cancels,         \* cancel requests
    MaxDeliveries,   \* bound: deliveries of the message of each job
    Workloads        \* bound: the requests and faults of one behaviour

\* Redis cannot be reached; a worker is killed; a delivery begins when the
\* job has run for longer than a task may.
Faults == {"redis", "kill", "late"}

ASSUME FunctionsAssumption == DOMAIN TargetOf = Jobs /\ DOMAIN PlaybookOf = Jobs
ASSUME DeliveriesAssumption == MaxDeliveries \in [Jobs -> Nat \ {0}]
ASSUME JobsAssumption == Jobs # {}
ASSUME WorkloadsAssumption ==
    Workloads \subseteq [jobs : SUBSET Jobs, deliveries : Nat \ {0},
                         cancels : SUBSET Cancels, faults : SUBSET Faults]

Deliveries == UNION {{j} \X (1 .. MaxDeliveries[j]) : j \in Jobs}

JobOf(d) == d[1]

\* The name of the Redis lock of a delivery: target and playbook.
Key(d) == <<TargetOf[JobOf(d)], PlaybookOf[JobOf(d)]>>
Keys == {Key(d) : d \in Deliveries}

VARIABLES
    job,         \* status of each job's row
    completed,   \* its completed_at is set
    past,        \* the limits the age of its started_at has passed
    taskId,      \* its celery_task_id is set
    api,         \* step of the request that runs each job
    cancel,      \* step of each cancel request
    cancelled,   \* the job it is about
    revoke,      \* the revocation of each job's task
    wpc,         \* step of each delivery
    runner,      \* the playbook that each has started: under way, or how it ended
    lock,        \* holder of each lock: no or one delivery
    workload,    \* the workload of this behaviour
    lockless     \* history: the deliveries that went on without Redis

rowVars == <<job, completed, past>>
apiVars == <<taskId, api, cancel, cancelled, revoke>>
history == <<workload, lockless>>
vars == <<rowVars, apiVars, wpc, runner, lock, history>>

JobStatus == {"absent", "pending", "running", "completed", "failed", "cancelled"}

\* "guard" is _DUPLICATE_GUARD_SECONDS, "orphan" the job's timeout_seconds
\* and _ORPHAN_BUFFER_SECONDS.
Limits == {"guard", "orphan"}

\* Holding the row as running; inside the try block; inside the task.
Marked == {"marked", "running"}
Trying == {"begun", "locked"} \cup Marked
Active == Trying \cup {"failing", "finally"}
DeliveryStep == {"none", "queued", "done", "killed"} \cup Active

RunnerState == {"none", "alive", "ok", "bad"}

Goto(d, l) == wpc' = [wpc EXCEPT ![d] = l]

\* A job ends: its status and completed_at are written, whatever they were.
Finish(j, status) ==
    /\ job' = [job EXCEPT ![j] = status]
    /\ completed' = [completed EXCEPT ![j] = TRUE]
    /\ UNCHANGED past

-----------------------------------------------------------------------------
(* POST /playbooks/run.  A request may stop after any step: no fairness    *)
(* makes it go on.                                                         *)

CreateJob(j) ==
    /\ j \in workload.jobs
    /\ api[j] = "none"
    /\ job' = [job EXCEPT ![j] = "pending"]
    /\ api' = [api EXCEPT ![j] = "created"]
    /\ UNCHANGED <<completed, past, taskId, cancel, cancelled, revoke, wpc, lock, history, runner>>

SendTask(j) ==
    /\ api[j] = "created"
    /\ api' = [api EXCEPT ![j] = "sent"]
    /\ Goto(<<j, 1>>, "queued")
    /\ UNCHANGED <<rowVars, taskId, cancel, cancelled, revoke, lock, history, runner>>

\* The id of the task is stored by a second commit.
StoreTaskId(j) ==
    /\ api[j] = "sent"
    /\ api' = [api EXCEPT ![j] = "done"]
    /\ taskId' = [taskId EXCEPT ![j] = TRUE]
    /\ UNCHANGED <<rowVars, cancel, cancelled, revoke, wpc, lock, history, runner>>

-----------------------------------------------------------------------------
(* POST /jobs/{id}/cancel                                                  *)

\* The row is read, without a lock; if it has a task id, the revocation of
\* the task is broadcast to the workers.
CancelStart(c, j) ==
    /\ c \in workload.cancels
    /\ cancel[c] = "idle"
    /\ job[j] \in {"running", "pending"}
    /\ cancel' = [cancel EXCEPT ![c] = "read"]
    /\ cancelled' = [cancelled EXCEPT ![c] = j]
    /\ revoke' = IF taskId[j] /\ revoke[j] = "none" THEN [revoke EXCEPT ![j] = "sent"]
                 ELSE revoke
    /\ UNCHANGED <<rowVars, taskId, api, wpc, lock, history, runner>>

\* ... and the row is written, whatever it is by now.
CancelFinish(c) ==
    /\ cancel[c] = "read"
    /\ cancel' = [cancel EXCEPT ![c] = "done"]
    /\ Finish(cancelled[c], "cancelled")
    /\ UNCHANGED <<taskId, api, cancelled, revoke, wpc, lock, history, runner>>

\* The broadcast reaches the workers, or never does: SIGTERM kills the
\* process that runs the task, and a waiting delivery will be discarded.
RevokeArrives(j) ==
    /\ revoke[j] = "sent"
    /\ revoke' = [revoke EXCEPT ![j] = "known"]
    /\ wpc' = [d \in Deliveries |->
          IF JobOf(d) = j /\ wpc[d] \in Active THEN "killed" ELSE wpc[d]]
    /\ UNCHANGED <<rowVars, taskId, api, cancel, cancelled, lock, history, runner>>

-----------------------------------------------------------------------------
(* The broker                                                              *)

\* A message nobody acknowledged in time is delivered again.
Redeliver(j, n) ==
    /\ n < workload.deliveries
    /\ wpc[<<j, n>>] = "queued"
    /\ wpc[<<j, n + 1>>] = "none"
    /\ Goto(<<j, n + 1>>, "queued")
    /\ UNCHANGED <<rowVars, apiVars, lock, history, runner>>

\* A worker discards a delivery it knows to be revoked.
TaskDiscard(d) ==
    /\ wpc[d] = "queued"
    /\ revoke[JobOf(d)] = "known"
    /\ Goto(d, "done")
    /\ UNCHANGED <<rowVars, apiVars, lock, history, runner>>

-----------------------------------------------------------------------------
(* run_playbook                                                            *)

\* The delivery is acknowledged.  The duplicate guard: a job that is running
\* and started recently is left alone.
TaskBegin(d) ==
    /\ wpc[d] = "queued"
    /\ revoke[JobOf(d)] # "known"
    /\ Goto(d, IF job[JobOf(d)] = "running" /\ "guard" \notin past[JobOf(d)]
               THEN "done" ELSE "begun")
    /\ UNCHANGED <<rowVars, apiVars, lock, history, runner>>

AcquireLock(d) ==
    /\ wpc[d] = "begun"
    /\ lock[Key(d)] = {}
    /\ lock' = [lock EXCEPT ![Key(d)] = {d}]
    /\ Goto(d, "locked")
    /\ UNCHANGED <<rowVars, apiVars, history, runner>>

\* The lock is not waited for: the job fails.
TargetLocked(d) ==
    /\ wpc[d] = "begun"
    /\ lock[Key(d)] # {}
    /\ Finish(JobOf(d), "failed")
    /\ Goto(d, "finally")
    /\ UNCHANGED <<apiVars, lock, history, runner>>

\* The lock is advisory: without Redis the run goes on without it.
LockUnavailable(d) ==
    /\ "redis" \in workload.faults
    /\ wpc[d] = "begun"
    /\ Goto(d, "locked")
    /\ lockless' = lockless \cup {d}
    /\ UNCHANGED <<rowVars, apiVars, lock, workload, runner>>

MarkRunning(d) ==
    /\ wpc[d] = "locked"
    /\ job' = [job EXCEPT ![JobOf(d)] = "running"]
    /\ past' = [past EXCEPT ![JobOf(d)] = {}]
    /\ Goto(d, "marked")
    /\ UNCHANGED <<completed, apiVars, lock, history, runner>>

\* The collections directory is missing, or the target has no host.
RunRefused(d) ==
    /\ wpc[d] = "marked"
    /\ Finish(JobOf(d), "failed")
    /\ Goto(d, "finally")
    /\ UNCHANGED <<apiVars, lock, history, runner>>

StartRunner(d) ==
    /\ wpc[d] = "marked"
    /\ runner' = [runner EXCEPT ![d] = "alive"]
    /\ Goto(d, "running")
    /\ UNCHANGED <<rowVars, apiVars, lock, history>>

\* The playbook ends, watched or not: successful, or failed, or stopped by
\* its timeout or because its worker is gone.
RunnerEnds(d) ==
    /\ runner[d] = "alive"
    /\ \E outcome \in {"ok", "bad"} : runner' = [runner EXCEPT ![d] = outcome]
    /\ UNCHANGED <<rowVars, apiVars, wpc, lock, history>>

\* MUTANT of FinalStatus: the return code is not looked at.
FinalStatusBlind(outcome) == "completed"

FinalStatus(outcome) == IF outcome = "ok" THEN "completed" ELSE "failed"

\* The outcome is written over whatever the row is by now.
FinalWrite(d) ==
    /\ wpc[d] = "running"
    /\ runner[d] # "alive"
    /\ Finish(JobOf(d), FinalStatus(runner[d]))
    /\ Goto(d, "finally")
    /\ UNCHANGED <<apiVars, lock, history, runner>>

\* The soft time limit or any other exception, perhaps while the playbook is
\* under way: the handler reads the row ...
Raise(d) ==
    /\ wpc[d] \in Trying
    /\ Goto(d, IF job[JobOf(d)] = "running" THEN "failing" ELSE "finally")
    /\ UNCHANGED <<rowVars, apiVars, lock, history, runner>>

\* ... and fails it if it was running ...
HandlerWrite(d) ==
    /\ wpc[d] = "failing"
    /\ Finish(JobOf(d), "failed")
    /\ Goto(d, "finally")
    /\ UNCHANGED <<apiVars, lock, history, runner>>

\* ... unless the database fails the handler, too.
HandlerRaises(d) ==
    /\ wpc[d] = "failing"
    /\ Goto(d, "finally")
    /\ UNCHANGED <<rowVars, apiVars, lock, history, runner>>

\* MUTANT of ReleaseLock: the lock is deleted whoever holds it.
ReleaseAnyLock(d) ==
    /\ wpc[d] = "finally"
    /\ lock' = [lock EXCEPT ![Key(d)] = {}]
    /\ Goto(d, "done")
    /\ UNCHANGED <<rowVars, apiVars, history, runner>>

\* finally: a delivery releases only a lock it holds.  If Redis fails that,
\* it is left to the TTL.
ReleaseLock(d) ==
    /\ wpc[d] = "finally"
    /\ \/ lock' = [lock EXCEPT ![Key(d)] = @ \ {d}]
       \/ "redis" \in workload.faults /\ UNCHANGED lock
    /\ Goto(d, "done")
    /\ UNCHANGED <<rowVars, apiVars, history, runner>>

\* The hard time limit, or a lost worker: no handler runs.  The processes of
\* the playbook may outlive it, and with the thread their timeout is gone.
WorkerKilled(d) ==
    /\ "kill" \in workload.faults
    /\ wpc[d] \in Active
    /\ Goto(d, "killed")
    /\ UNCHANGED <<rowVars, apiVars, lock, history, runner>>

\* MUTANT of LockExpires: the lock has no TTL.
LockNeverExpires(k) == FALSE

\* The TTL of the lock is the hard time limit of the task, and counts from
\* later: when it expires its holder is gone.  The playbook need not be.
LockExpires(k) ==
    /\ \E d \in lock[k] : wpc[d] \notin Active
    /\ lock' = [lock EXCEPT ![k] = {}]
    /\ UNCHANGED <<rowVars, apiVars, wpc, history, runner>>

-----------------------------------------------------------------------------
\* MUTANT of Orphaned: only jobs whose task id was stored are reaped.
OrphanedWithTask(j) == job[j] = "running" /\ ~completed[j] /\ "orphan" \in past[j] /\ taskId[j]

\* What reap_orphaned_jobs looks for.
Orphaned(j) == job[j] = "running" /\ ~completed[j] /\ "orphan" \in past[j]

Reap ==
    /\ job' = [j \in Jobs |-> IF Orphaned(j) THEN "failed" ELSE job[j]]
    /\ completed' = [j \in Jobs |-> completed[j] \/ Orphaned(j)]
    /\ UNCHANGED <<past, apiVars, wpc, lock, history, runner>>

OrphanLimitPasses(j) ==
    /\ job[j] = "running"
    /\ "orphan" \notin past[j]
    /\ past' = [past EXCEPT ![j] = @ \cup {"orphan"}]
    /\ UNCHANGED <<job, completed, apiVars, wpc, lock, history, runner>>

\* The guard's window is the hard time limit: past it no task is alive.
GuardLimitPasses(j) ==
    /\ "late" \in workload.faults
    /\ job[j] = "running"
    /\ "guard" \notin past[j]
    /\ \A d \in Deliveries : JobOf(d) = j => wpc[d] \notin Marked
    /\ past' = [past EXCEPT ![j] = @ \cup {"guard"}]
    /\ UNCHANGED <<job, completed, apiVars, wpc, lock, history, runner>>

Init ==
    /\ job = [j \in Jobs |-> "absent"]
    /\ completed = [j \in Jobs |-> FALSE]
    /\ past = [j \in Jobs |-> {}]
    /\ taskId = [j \in Jobs |-> FALSE]
    /\ api = [j \in Jobs |-> "none"]
    /\ cancel = [c \in Cancels |-> "idle"]
    /\ cancelled = [c \in Cancels |-> CHOOSE j \in Jobs : TRUE]    \* read only once set
    /\ revoke = [j \in Jobs |-> "none"]
    /\ wpc = [d \in Deliveries |-> "none"]
    /\ runner = [d \in Deliveries |-> "none"]
    /\ lock = [k \in Keys |-> {}]
    /\ workload \in Workloads
    /\ lockless = {}

Request(j) == CreateJob(j) \/ SendTask(j) \/ StoreTaskId(j)

CancelRequest(c) == (\E j \in Jobs : CancelStart(c, j)) \/ CancelFinish(c)

RunPlaybook(d) ==
    \/ TaskDiscard(d) \/ TaskBegin(d)
    \/ AcquireLock(d) \/ TargetLocked(d) \/ LockUnavailable(d)
    \/ MarkRunning(d) \/ RunRefused(d) \/ StartRunner(d) \/ FinalWrite(d)
    \/ Raise(d) \/ HandlerWrite(d) \/ HandlerRaises(d) \/ ReleaseLock(d)

Environment(j) ==
    \/ RevokeArrives(j)
    \/ \E n \in 1 .. MaxDeliveries[j] - 1 : Redeliver(j, n)
    \/ OrphanLimitPasses(j) \/ GuardLimitPasses(j)

Next ==
    \/ \E j \in Jobs : Request(j) \/ Environment(j)
    \/ \E c \in Cancels : CancelRequest(c)
    \/ \E d \in Deliveries : RunPlaybook(d) \/ RunnerEnds(d) \/ WorkerKilled(d)
    \/ \E k \in Keys : LockExpires(k)
    \/ Reap

Spec == Init /\ [][Next]_vars

\* Beat runs the reaper, Redis expires locks, time passes, and a task that
\* began goes on until it ends, by its time limit if need be, or is killed.
FairSpec ==
    /\ Spec
    /\ WF_vars(Reap)
    /\ \A j \in Jobs : WF_vars(OrphanLimitPasses(j))
    /\ \A k \in Keys : WF_vars(LockExpires(k))
    /\ \A d \in Deliveries : WF_vars(RunPlaybook(d))

-----------------------------------------------------------------------------
(* Properties                                                              *)

\* The values every variable keeps.
TypeOK ==
    /\ job \in [Jobs -> JobStatus]
    /\ completed \in [Jobs -> BOOLEAN]
    /\ past \in [Jobs -> SUBSET Limits]
    /\ taskId \in [Jobs -> BOOLEAN]
    /\ api \in [Jobs -> {"none", "created", "sent", "done"}]
    /\ cancel \in [Cancels -> {"idle", "read", "done"}]
    /\ cancelled \in [Cancels -> Jobs]
    /\ revoke \in [Jobs -> {"none", "sent", "known"}]
    /\ wpc \in [Deliveries -> DeliveryStep]
    /\ runner \in [Deliveries -> RunnerState]
    /\ lock \in [Keys -> SUBSET Deliveries]
    /\ workload \in Workloads
    /\ lockless \subseteq Deliveries

\* The task of a playbook has released its lock, or was killed and the lock
\* has expired.
LetGo(d) == wpc[d] = "done" \/ (wpc[d] = "killed" /\ lock[Key(d)] # {d})

\* Of two playbooks that run against one target at a time (which the lock
\* "prevents"), one was left behind: its task ended by an exception or its
\* time limit and gave the lock back, or was killed so long ago that the
\* lock has expired.  Nothing else lets a second one start, whichever jobs,
\* duplicate deliveries, cancellations and kills there are: not unless Redis
\* failed one of the two, and never because it failed a third.
OneRunPerKey ==
    \A d, e \in Deliveries \ lockless :
        runner[d] = "alive" /\ runner[e] = "alive" /\ Key(d) = Key(e) /\ d # e
            => LetGo(d) \/ LetGo(e)

\* A job is completed only if a run of it succeeded, however its row was
\* overwritten; and then none of its deliveries is still at work on it,
\* whichever was delivered again and whichever run was left behind, unless
\* one went on without Redis.
CompletedSucceeded ==
    \A j \in Jobs : job[j] = "completed" =>
        LET mine == {d \in Deliveries : JobOf(d) = j} IN
        /\ \E d \in mine : runner[d] = "ok"
        /\ mine \cap lockless = {} => \A d \in mine : wpc[d] \notin Marked

\* The lock of a target is given back, if not by its holder then by its TTL.
LockIsFreed == \A k \in Keys : lock[k] # {} ~> lock[k] = {}

\* A running job that was not cancelled before gets an outcome, even if its
\* worker is gone.
OrphanIsReaped ==
    \A j \in Jobs : job[j] = "running" /\ ~completed[j] ~> ~(job[j] = "running" /\ ~completed[j])
=============================================================================
