--------------------------- MODULE NodeBootstrap ---------------------------
(***************************************************************************)
(* The bootstrap of a node: the bootstrap, status and cancel endpoints of  *)
(* api/routes/ansible/bootstrap.py, queue_node_bootstrap, the Celery task  *)
(* bootstrap_node of workers/ansible_tasks.py and the reaper               *)
(* reap_orphaned_bootstraps of workers/maintenance.py.                     *)
(*                                                                         *)
(* Bootstraps of two nodes share nothing: the module follows one node.     *)
(* The task is acknowledged when it starts (acks_late=False), and nothing  *)
(* in it looks for another one, so a message the broker delivers twice is  *)
(* two tasks, just as two requests are.                                    *)
(***************************************************************************)
EXTENDS Naturals, Sequences, FiniteSets

CONSTANTS
    Requests,   \* POST /bootstrap requests; each sends at most one task
    Clients     \* those who poll the status or cancel, again and again

ASSUME RequestsAssumption == IsFiniteSet(Requests)

VARIABLES
    status,      \* bootstrap_status of the node
    run,         \* status of the BootstrapRun of each task
    order,       \* the tasks by the started_at of their runs
    past,        \* the limits the age of each run has passed
    pc,          \* step of each request, and then of its task
    client,      \* step of each client
    succeeded,   \* history: the tasks whose playbook succeeded
    overlapped   \* history: two runs were running at a time

rowVars == <<status, run, order, past>>
vars == <<rowVars, pc, client, succeeded, overlapped>>

NodeStatus == {"unregistered", "pending", "bootstrapping", "completed", "failed"}
RunStatus == {"none", "running", "completed", "failed"}

\* "heal" is the quarter of an hour of the status endpoint, "orphan" is
\* _BOOTSTRAP_ORPHAN_MINUTES.
Limits == {"heal", "orphan"}

\* Inside the try block; after its exception; inside the task.
Trying == {"armed", "ranOk", "ranBad", "written"}
Unwinding == {"failing", "cleaning"}
Active == {"loaded"} \cup Trying \cup Unwinding
Step == {"idle", "read", "readPending", "committed", "queued", "done", "killed"} \cup Active

Goto(t, l) == pc' = [pc EXCEPT ![t] = l]

\* The rows a query for the node's running runs finds.
Running == {t \in Requests : run[t] = "running"}

FailRuns(T) == run' = [t \in Requests |-> IF t \in T THEN "failed" ELSE run[t]]

-----------------------------------------------------------------------------
(* POST /bootstrap                                                         *)

\* The node is read, without a lock.  One that is being bootstrapped is
\* refused; one that waits for its task is not.
ReadNode(r) ==
    /\ pc[r] = "idle"
    /\ Goto(r, CASE status = "bootstrapping" -> "done"
                 [] status = "pending" -> "readPending"
                 [] OTHER -> "read")
    /\ UNCHANGED <<rowVars, client, succeeded, overlapped>>

\* queue_node_bootstrap: status pending is committed.  Of a row that was
\* read as pending the session sends no UPDATE.
QueueBootstrap(r) ==
    /\ pc[r] \in {"read", "readPending"}
    /\ status' = IF pc[r] = "read" THEN "pending" ELSE status
    /\ Goto(r, "committed")
    /\ UNCHANGED <<run, order, past, client, succeeded, overlapped>>

\* ... and the task is sent, by itself or behind provision_master.
SendTask(r) ==
    /\ pc[r] = "committed"
    /\ Goto(r, "queued")
    /\ UNCHANGED <<rowVars, client, succeeded, overlapped>>

\* The node is in no group; the request, or the chain before the task, fails.
RequestFails(r) ==
    /\ pc[r] \in {"read", "readPending", "committed"}
    /\ Goto(r, "done")
    /\ UNCHANGED <<rowVars, client, succeeded, overlapped>>

-----------------------------------------------------------------------------
(* bootstrap_node                                                          *)

\* The node is marked, whatever its status is: the task looks neither for a
\* cancellation nor for another task.
TaskBegin(t) ==
    /\ pc[t] = "queued"
    /\ status' = "bootstrapping"
    /\ Goto(t, "loaded")
    /\ UNCHANGED <<run, order, past, client, succeeded, overlapped>>

\* No SSH credentials, or a minion id that is not valid.
NoCredentials(t) ==
    /\ pc[t] = "loaded"
    /\ status' = "failed"
    /\ Goto(t, "done")
    /\ UNCHANGED <<run, order, past, client, succeeded, overlapped>>

\* No salt-master: the node fails, and so does the one running run there is,
\* although it is another task's.  Two of them raise MultipleResultsFound,
\* and the failure of the node is not committed either.
NoMasters(t) ==
    /\ pc[t] = "loaded"
    /\ IF Cardinality(Running) <= 1
       THEN status' = "failed" /\ FailRuns(Running)
       ELSE UNCHANGED <<status, run>>
    /\ Goto(t, "done")
    /\ UNCHANGED <<order, past, client, succeeded, overlapped>>

\* An exception before the try block: nothing marks the node.
EarlyException(t) ==
    /\ pc[t] = "loaded"
    /\ Goto(t, "done")
    /\ UNCHANGED <<rowVars, client, succeeded, overlapped>>

\* The node token is minted and the record of the run created.
CreateRun(t) ==
    /\ pc[t] = "loaded"
    /\ run' = [run EXCEPT ![t] = "running"]
    /\ order' = Append(order, t)
    /\ overlapped' = (overlapped \/ Running # {})
    /\ Goto(t, "armed")
    /\ UNCHANGED <<status, past, client, succeeded>>

\* ansible-runner ends: successful, or failed or stopped by its timeout.
RunnerEnds(t) ==
    /\ pc[t] = "armed"
    /\ \/ Goto(t, "ranOk") /\ succeeded' = succeeded \cup {t}
       \/ Goto(t, "ranBad") /\ UNCHANGED succeeded
    /\ UNCHANGED <<rowVars, client, overlapped>>

\* MUTANT of Outcome: the return code is not looked at.
OutcomeBlind(step) == "completed"

Outcome(step) == IF step = "ranOk" THEN "completed" ELSE "failed"

\* Node and record get the outcome, whatever they are by now.
FinalWrite(t) ==
    /\ pc[t] \in {"ranOk", "ranBad"}
    /\ status' = Outcome(pc[t])
    /\ run' = [run EXCEPT ![t] = Outcome(pc[t])]
    /\ Goto(t, "written")
    /\ UNCHANGED <<order, past, client, succeeded, overlapped>>

\* The minion's key is accepted on its masters; the sentinel is set.
AutoAccept(t) ==
    /\ pc[t] = "written"
    /\ Goto(t, "done")
    /\ UNCHANGED <<rowVars, client, succeeded, overlapped>>

\* The soft time limit or any other exception: the handler reads the node ...
Raise(t) ==
    /\ pc[t] \in Trying
    /\ Goto(t, IF status = "bootstrapping" THEN "failing" ELSE "cleaning")
    /\ UNCHANGED <<rowVars, client, succeeded, overlapped>>

\* ... and fails it if it was being bootstrapped.
HandlerWrite(t) ==
    /\ pc[t] = "failing"
    /\ status' = "failed"
    /\ Goto(t, "cleaning")
    /\ UNCHANGED <<run, order, past, client, succeeded, overlapped>>

\* MUTANT of CleanUp: the record is left to the reaper.
CleanUpNothing(t) ==
    /\ pc[t] = "cleaning"
    /\ Goto(t, "done")
    /\ UNCHANGED <<rowVars, client, succeeded, overlapped>>

\* finally: the running run of the node fails, if there is just one; it may
\* be another task's.  Two raise MultipleResultsFound and stay running.
CleanUp(t) ==
    /\ pc[t] = "cleaning"
    /\ FailRuns(IF Cardinality(Running) = 1 THEN Running ELSE {})
    /\ Goto(t, "done")
    /\ UNCHANGED <<status, order, past, client, succeeded, overlapped>>

\* The hard time limit, or a lost worker: no handler runs.
WorkerKilled(t) ==
    /\ pc[t] \in Active
    /\ Goto(t, "killed")
    /\ UNCHANGED <<rowVars, client, succeeded, overlapped>>

-----------------------------------------------------------------------------
(* The status and cancel endpoints                                         *)

\* The latest run is over, or older than a quarter of an hour.
LatestIsOver ==
    LET latest == order[Len(order)] IN
    run[latest] \in {"completed", "failed"} \/ "heal" \in past[latest]

\* MUTANT of IsStale: a node without any run is not looked at.
IsStaleRunOnly == order # <<>> /\ LatestIsOver

\* There is no run at all, or the latest is over.
IsStale == order # <<>> => LatestIsOver

\* GET .../status reads node and run, without a lock ...
StatusRead(c) ==
    /\ client[c] = "idle"
    /\ status = "bootstrapping"
    /\ IsStale
    /\ client' = [client EXCEPT ![c] = "healing"]
    /\ UNCHANGED <<rowVars, pc, succeeded, overlapped>>

\* POST .../cancel reads the node, without a lock; nothing is revoked ...
CancelRead(c) ==
    /\ client[c] = "idle"
    /\ status \in {"bootstrapping", "pending"}
    /\ client' = [client EXCEPT ![c] = "cancelling"]
    /\ UNCHANGED <<rowVars, pc, succeeded, overlapped>>

\* ... and each writes failed, whatever the status is by now.
ResetWrite(c) ==
    /\ client[c] \in {"healing", "cancelling"}
    /\ status' = "failed"
    /\ client' = [client EXCEPT ![c] = "idle"]
    /\ UNCHANGED <<run, order, past, pc, succeeded, overlapped>>

-----------------------------------------------------------------------------
(* The reaper and the clock                                                *)

Orphans == {t \in Running : "orphan" \in past[t]}

Reap ==
    /\ FailRuns(Orphans)
    /\ status' = IF Orphans # {} /\ status = "bootstrapping" THEN "failed" ELSE status
    /\ UNCHANGED <<order, past, pc, client, succeeded, overlapped>>

HealLimitPasses(t) ==
    /\ run[t] = "running"
    /\ past[t] = {}
    /\ past' = [past EXCEPT ![t] = {"heal"}]
    /\ UNCHANGED <<status, run, order, pc, client, succeeded, overlapped>>

\* The hard time limit of a task is far below the limit of the reaper.
OrphanLimitPasses(t) ==
    /\ run[t] = "running"
    /\ past[t] = {"heal"}
    /\ pc[t] \notin Active
    /\ past' = [past EXCEPT ![t] = Limits]
    /\ UNCHANGED <<status, run, order, pc, client, succeeded, overlapped>>

Init ==
    /\ status = "unregistered"
    /\ run = [t \in Requests |-> "none"]
    /\ order = <<>>
    /\ past = [t \in Requests |-> {}]
    /\ pc = [t \in Requests |-> "idle"]
    /\ client = [c \in Clients |-> "idle"]
    /\ succeeded = {}
    /\ overlapped = FALSE

Request(r) == ReadNode(r) \/ QueueBootstrap(r) \/ SendTask(r) \/ RequestFails(r)

BootstrapNode(t) ==
    \/ TaskBegin(t) \/ NoCredentials(t) \/ NoMasters(t) \/ EarlyException(t)
    \/ CreateRun(t) \/ RunnerEnds(t) \/ FinalWrite(t) \/ AutoAccept(t)
    \/ Raise(t) \/ HandlerWrite(t) \/ CleanUp(t)

Next ==
    \/ \E t \in Requests :
          \/ Request(t) \/ BootstrapNode(t) \/ WorkerKilled(t)
          \/ HealLimitPasses(t) \/ OrphanLimitPasses(t)
    \/ \E c \in Clients : StatusRead(c) \/ CancelRead(c) \/ ResetWrite(c)
    \/ Reap

Spec == Init /\ [][Next]_vars

\* Beat runs the reaper, time passes, a task that began goes on until it
\* ends or is killed, and somebody looks at the status of the node.
FairSpec ==
    /\ Spec
    /\ WF_vars(Reap)
    /\ \A t \in Requests :
          /\ WF_vars(BootstrapNode(t))
          /\ WF_vars(HealLimitPasses(t)) /\ WF_vars(OrphanLimitPasses(t))
    /\ \A c \in Clients : WF_vars(StatusRead(c)) /\ WF_vars(ResetWrite(c))

-----------------------------------------------------------------------------
(* Properties                                                              *)

\* The values every variable keeps, and the runs that have a record.
TypeOK ==
    /\ status \in NodeStatus
    /\ run \in [Requests -> RunStatus]
    /\ order \in Seq(Requests)
    /\ past \in [Requests -> SUBSET Limits]
    /\ pc \in [Requests -> Step]
    /\ client \in [Clients -> {"idle", "healing", "cancelling"}]
    /\ succeeded \subseteq Requests
    /\ overlapped \in BOOLEAN

\* A node is shown as bootstrapped only if a run of it succeeded and is on
\* record, however polls, cancellations, the reaper and other tasks write
\* over its status and its runs.
CompletedIsEarned ==
    /\ status = "completed" => \E t \in Requests : run[t] = "completed"
    /\ \A t \in Requests : run[t] = "completed" => t \in succeeded

\* The finally block leaves no run record behind ("mark any still-running
\* BootstrapRun row as failed so it is not left as an orphan"), unless two
\* runs of the node were under way together.
NoOrphanIsLeft ==
    ~overlapped => \A t \in Requests : pc[t] = "done" => run[t] # "running"

\* Every run record gets an outcome, even when its worker is killed or its
\* clean-up fails on a second running record; and a node does not stay
\* bootstrapping while its status is polled ("so the UI doesn't hang"), even
\* when its task died before it had a record.
BootstrapSettles ==
    /\ \A t \in Requests : run[t] = "running" ~> run[t] # "running"
    /\ status = "bootstrapping" ~> status # "bootstrapping"

-----------------------------------------------------------------------------
(* What the code says of itself and does not keep                          *)

\* "If node is stuck in 'bootstrapping'": the poll resets a node only when
\* no task is working on it.
HealsOnlyStuckNodes ==
    [][\A c \in Clients : client[c] = "idle" /\ client'[c] = "healing" =>
          \A t \in Requests : pc[t] \notin Active]_vars
=============================================================================
