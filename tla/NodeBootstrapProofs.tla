------------------------ MODULE NodeBootstrapProofs ------------------------
(***************************************************************************)
(* Proofs about NodeBootstrap, for any number of requests, tasks and       *)
(* clients.  The argument: a task owns its run record from CreateRun to    *)
(* FinalWrite, and as long as no two tasks do, the record its finally      *)
(* block finds running is its own.                                         *)
(***************************************************************************)
EXTENDS NodeBootstrap, FiniteSetTheorems, TLAPS

\* Before the run has a record; where it may be running.
Early == {"idle", "read", "readPending", "committed", "queued", "loaded"}
RunAlive == {"armed", "ranOk", "ranBad", "killed"} \cup Unwinding

\* A run succeeded before it is recorded as completed.
EarnedInv ==
    /\ \A t \in Requests : pc[t] \in Early => run[t] = "none"
    /\ \A t \in Requests : pc[t] = "ranOk" => t \in succeeded
    /\ \A t \in Requests : pc[t] \in {"armed", "ranOk", "ranBad"} => run[t] # "completed"
    /\ CompletedIsEarned

\* Unless two runs overlapped, at most one is running, and its task has not
\* gone past its clean-up.
AloneInv ==
    ~overlapped =>
        /\ \A t, u \in Running : t = u
        /\ \A t \in Running : pc[t] \in RunAlive

BootstrapIInv == TypeOK /\ EarnedInv /\ AloneInv

-----------------------------------------------------------------------------
\* Every variable keeps its type.
LEMMA TypeStep ==
    ASSUME TypeOK, [Next]_vars
    PROVE  TypeOK'
<1> USE DEF TypeOK, rowVars, Goto, FailRuns
<1>1. ASSUME NEW t \in Requests, ReadNode(t) PROVE TypeOK'
    BY <1>1 DEF ReadNode, Step, Active, Trying, Unwinding
<1>2. ASSUME NEW t \in Requests, QueueBootstrap(t) PROVE TypeOK'
    BY <1>2 DEF QueueBootstrap, Step, Active, Trying, Unwinding, NodeStatus
<1>3. ASSUME NEW t \in Requests, SendTask(t) PROVE TypeOK'
    BY <1>3 DEF SendTask, Step, Active, Trying, Unwinding
<1>4. ASSUME NEW t \in Requests, RequestFails(t) PROVE TypeOK'
    BY <1>4 DEF RequestFails, Step, Active, Trying, Unwinding
<1>5. ASSUME NEW t \in Requests, TaskBegin(t) PROVE TypeOK'
    BY <1>5 DEF TaskBegin, Step, Active, Trying, Unwinding, NodeStatus
<1>6. ASSUME NEW t \in Requests, NoCredentials(t) PROVE TypeOK'
    BY <1>6 DEF NoCredentials, Step, Active, Trying, Unwinding, NodeStatus
<1>7. ASSUME NEW t \in Requests, NoMasters(t) PROVE TypeOK'
    BY <1>7 DEF NoMasters, Step, Active, Trying, Unwinding, NodeStatus, RunStatus
<1>8. ASSUME NEW t \in Requests, EarlyException(t) PROVE TypeOK'
    BY <1>8 DEF EarlyException, Step, Active, Trying, Unwinding
<1>9. ASSUME NEW t \in Requests, CreateRun(t) PROVE TypeOK'
    BY <1>9 DEF CreateRun, Step, Active, Trying, Unwinding, RunStatus
<1>10. ASSUME NEW t \in Requests, RunnerEnds(t) PROVE TypeOK'
    BY <1>10 DEF RunnerEnds, Step, Active, Trying, Unwinding
<1>11. ASSUME NEW t \in Requests, FinalWrite(t) PROVE TypeOK'
    BY <1>11 DEF FinalWrite, Step, Active, Trying, Unwinding, NodeStatus, RunStatus, Outcome
<1>12. ASSUME NEW t \in Requests, AutoAccept(t) PROVE TypeOK'
    BY <1>12 DEF AutoAccept, Step, Active, Trying, Unwinding
<1>13. ASSUME NEW t \in Requests, Raise(t) PROVE TypeOK'
    BY <1>13 DEF Raise, Step, Active, Trying, Unwinding
<1>14. ASSUME NEW t \in Requests, HandlerWrite(t) PROVE TypeOK'
    BY <1>14 DEF HandlerWrite, Step, Active, Trying, Unwinding, NodeStatus
<1>15. ASSUME NEW t \in Requests, CleanUp(t) PROVE TypeOK'
    BY <1>15 DEF CleanUp, Step, Active, Trying, Unwinding, RunStatus
<1>16. ASSUME NEW t \in Requests, WorkerKilled(t) PROVE TypeOK'
    BY <1>16 DEF WorkerKilled, Step, Active, Trying, Unwinding
<1>17. ASSUME NEW t \in Requests, HealLimitPasses(t) PROVE TypeOK'
    BY <1>17 DEF HealLimitPasses, Limits
<1>18. ASSUME NEW t \in Requests, OrphanLimitPasses(t) PROVE TypeOK'
    BY <1>18 DEF OrphanLimitPasses, Limits
<1>19. ASSUME NEW c \in Clients, StatusRead(c) PROVE TypeOK'
    BY <1>19 DEF StatusRead
<1>20. ASSUME NEW c \in Clients, CancelRead(c) PROVE TypeOK'
    BY <1>20 DEF CancelRead
<1>21. ASSUME NEW c \in Clients, ResetWrite(c) PROVE TypeOK'
    BY <1>21 DEF ResetWrite, NodeStatus
<1>22. CASE Reap
    BY <1>22 DEF Reap, NodeStatus, RunStatus
<1>23. CASE UNCHANGED vars
    BY <1>23 DEF vars
<1> QED BY <1>1, <1>2, <1>3, <1>4, <1>5, <1>6, <1>7, <1>8, <1>9, <1>10, <1>11, <1>12,
        <1>13, <1>14, <1>15, <1>16, <1>17, <1>18, <1>19, <1>20, <1>21, <1>22, <1>23
    DEF Next, Request, BootstrapNode

\* Only the final write of a successful run completes run and node, and
\* nothing takes the record back.
LEMMA EarnedStep ==
    ASSUME TypeOK, EarnedInv, [Next]_vars
    PROVE  EarnedInv'
<1> USE DEF TypeOK, EarnedInv, CompletedIsEarned, rowVars, Goto, FailRuns
<1>1. ASSUME NEW t \in Requests, ReadNode(t) PROVE EarnedInv'
    BY <1>1 DEF ReadNode, Early
<1>2. ASSUME NEW t \in Requests, QueueBootstrap(t) PROVE EarnedInv'
    BY <1>2 DEF QueueBootstrap, Early
<1>3. ASSUME NEW t \in Requests, SendTask(t) PROVE EarnedInv'
    BY <1>3 DEF SendTask, Early
<1>4. ASSUME NEW t \in Requests, RequestFails(t) PROVE EarnedInv'
    BY <1>4 DEF RequestFails, Early
<1>5. ASSUME NEW t \in Requests, TaskBegin(t) PROVE EarnedInv'
    BY <1>5 DEF TaskBegin, Early
<1>6. ASSUME NEW t \in Requests, NoCredentials(t) PROVE EarnedInv'
    BY <1>6 DEF NoCredentials, Early
<1>7. ASSUME NEW t \in Requests, NoMasters(t) PROVE EarnedInv'
    BY <1>7 DEF NoMasters, Early, Running
<1>8. ASSUME NEW t \in Requests, EarlyException(t) PROVE EarnedInv'
    BY <1>8 DEF EarlyException, Early
<1>9. ASSUME NEW t \in Requests, CreateRun(t) PROVE EarnedInv'
    BY <1>9 DEF CreateRun, Early
<1>10. ASSUME NEW t \in Requests, RunnerEnds(t) PROVE EarnedInv'
    BY <1>10 DEF RunnerEnds, Early
<1>11. ASSUME NEW t \in Requests, FinalWrite(t) PROVE EarnedInv'
    BY <1>11 DEF FinalWrite, Early, Outcome
<1>12. ASSUME NEW t \in Requests, AutoAccept(t) PROVE EarnedInv'
    BY <1>12 DEF AutoAccept, Early
<1>13. ASSUME NEW t \in Requests, Raise(t) PROVE EarnedInv'
    BY <1>13 DEF Raise, Early, Trying
<1>14. ASSUME NEW t \in Requests, HandlerWrite(t) PROVE EarnedInv'
    BY <1>14 DEF HandlerWrite, Early
<1>15. ASSUME NEW t \in Requests, CleanUp(t) PROVE EarnedInv'
    BY <1>15 DEF CleanUp, Early, Running, Unwinding
<1>16. ASSUME NEW t \in Requests, WorkerKilled(t) PROVE EarnedInv'
    BY <1>16 DEF WorkerKilled, Early, Active, Trying, Unwinding
<1>17. ASSUME NEW t \in Requests, HealLimitPasses(t) PROVE EarnedInv'
    BY <1>17 DEF HealLimitPasses, Early
<1>18. ASSUME NEW t \in Requests, OrphanLimitPasses(t) PROVE EarnedInv'
    BY <1>18 DEF OrphanLimitPasses, Early
<1>19. ASSUME NEW c \in Clients, StatusRead(c) PROVE EarnedInv'
    BY <1>19 DEF StatusRead, Early
<1>20. ASSUME NEW c \in Clients, CancelRead(c) PROVE EarnedInv'
    BY <1>20 DEF CancelRead, Early
<1>21. ASSUME NEW c \in Clients, ResetWrite(c) PROVE EarnedInv'
    BY <1>21 DEF ResetWrite, Early
<1>22. CASE Reap
    BY <1>22 DEF Reap, Orphans, Running, Early
<1>23. CASE UNCHANGED vars
    BY <1>23 DEF vars
<1> QED BY <1>1, <1>2, <1>3, <1>4, <1>5, <1>6, <1>7, <1>8, <1>9, <1>10, <1>11, <1>12,
        <1>13, <1>14, <1>15, <1>16, <1>17, <1>18, <1>19, <1>20, <1>21, <1>22, <1>23
    DEF Next, Request, BootstrapNode

\* A record that is running alone belongs to the task that cleans up.
LEMMA AloneStep ==
    ASSUME TypeOK, AloneInv, \A t \in Requests : pc[t] \in Early => run[t] = "none", [Next]_vars
    PROVE  AloneInv'
<1> USE DEF TypeOK, AloneInv, Early, rowVars, Goto, FailRuns
<1>1. ASSUME NEW t \in Requests, ReadNode(t) PROVE AloneInv'
    BY <1>1 DEF ReadNode, RunAlive, Running, Unwinding
<1>2. ASSUME NEW t \in Requests, QueueBootstrap(t) PROVE AloneInv'
    BY <1>2 DEF QueueBootstrap, RunAlive, Running, Unwinding
<1>3. ASSUME NEW t \in Requests, SendTask(t) PROVE AloneInv'
    BY <1>3 DEF SendTask, RunAlive, Running, Unwinding
<1>4. ASSUME NEW t \in Requests, RequestFails(t) PROVE AloneInv'
    BY <1>4 DEF RequestFails, RunAlive, Running, Unwinding
<1>5. ASSUME NEW t \in Requests, TaskBegin(t) PROVE AloneInv'
    BY <1>5 DEF TaskBegin, RunAlive, Running, Unwinding
<1>6. ASSUME NEW t \in Requests, NoCredentials(t) PROVE AloneInv'
    BY <1>6 DEF NoCredentials, RunAlive, Running, Unwinding
<1>7. ASSUME NEW t \in Requests, NoMasters(t) PROVE AloneInv'
    BY <1>7 DEF NoMasters, RunAlive, Running, Unwinding
<1>8. ASSUME NEW t \in Requests, EarlyException(t) PROVE AloneInv'
    BY <1>8 DEF EarlyException, RunAlive, Running, Unwinding
<1>9. ASSUME NEW t \in Requests, CreateRun(t) PROVE AloneInv'
    BY <1>9 DEF CreateRun, RunAlive, Running, Unwinding
<1>10. ASSUME NEW t \in Requests, RunnerEnds(t) PROVE AloneInv'
    BY <1>10 DEF RunnerEnds, RunAlive, Running, Unwinding
<1>11. ASSUME NEW t \in Requests, FinalWrite(t) PROVE AloneInv'
    BY <1>11 DEF FinalWrite, RunAlive, Running, Outcome
<1>12. ASSUME NEW t \in Requests, AutoAccept(t) PROVE AloneInv'
    BY <1>12 DEF AutoAccept, RunAlive, Running, Unwinding
<1>13. ASSUME NEW t \in Requests, Raise(t) PROVE AloneInv'
    BY <1>13 DEF Raise, RunAlive, Running, Trying, Unwinding
<1>14. ASSUME NEW t \in Requests, HandlerWrite(t) PROVE AloneInv'
    BY <1>14 DEF HandlerWrite, RunAlive, Running, Unwinding
<1>15. ASSUME NEW t \in Requests, CleanUp(t) PROVE AloneInv'
    <2> SUFFICES ASSUME ~overlapped PROVE AloneInv'
        BY <1>15 DEF CleanUp
    <2>1. ASSUME NEW u \in Running PROVE Running = {u}
        BY <2>1 DEF Running
    <2>2. Running' = {}
        <3>1. ASSUME NEW u \in Running PROVE Running' = {}
            <4>1. Cardinality(Running) = 1
                BY <2>1, <3>1, FS_Singleton
            <4> QED BY <1>15, <4>1 DEF CleanUp, Running
        <3>2. CASE Running = {}
            BY <1>15, <3>2 DEF CleanUp, Running
        <3> QED BY <3>1, <3>2
    <2> QED BY <2>2
<1>16. ASSUME NEW t \in Requests, WorkerKilled(t) PROVE AloneInv'
    BY <1>16 DEF WorkerKilled, RunAlive, Running, Active, Trying, Unwinding
<1>17. ASSUME NEW t \in Requests, HealLimitPasses(t) PROVE AloneInv'
    BY <1>17 DEF HealLimitPasses, RunAlive, Running, Unwinding
<1>18. ASSUME NEW t \in Requests, OrphanLimitPasses(t) PROVE AloneInv'
    BY <1>18 DEF OrphanLimitPasses, RunAlive, Running, Unwinding
<1>19. ASSUME NEW c \in Clients, StatusRead(c) PROVE AloneInv'
    BY <1>19 DEF StatusRead, RunAlive, Running, Unwinding
<1>20. ASSUME NEW c \in Clients, CancelRead(c) PROVE AloneInv'
    BY <1>20 DEF CancelRead, RunAlive, Running, Unwinding
<1>21. ASSUME NEW c \in Clients, ResetWrite(c) PROVE AloneInv'
    BY <1>21 DEF ResetWrite, RunAlive, Running, Unwinding
<1>22. CASE Reap
    BY <1>22 DEF Reap, RunAlive, Running, Unwinding
<1>23. CASE UNCHANGED vars
    BY <1>23 DEF vars, Running
<1> QED BY <1>1, <1>2, <1>3, <1>4, <1>5, <1>6, <1>7, <1>8, <1>9, <1>10, <1>11, <1>12,
        <1>13, <1>14, <1>15, <1>16, <1>17, <1>18, <1>19, <1>20, <1>21, <1>22, <1>23
    DEF Next, Request, BootstrapNode

-----------------------------------------------------------------------------
\* The inductive invariant holds at first ...
LEMMA BootstrapInit == Init => BootstrapIInv
<1> SUFFICES ASSUME Init PROVE BootstrapIInv
    OBVIOUS
<1> <<>> \in Seq(Requests)
    OBVIOUS
<1>1. TypeOK
    BY DEF Init, TypeOK, NodeStatus, RunStatus, Step
<1>2. EarnedInv /\ AloneInv
    BY DEF Init, EarnedInv, CompletedIsEarned, AloneInv, Running, Early
<1> QED BY <1>1, <1>2 DEF BootstrapIInv

\* ... and every step keeps it.
LEMMA BootstrapStep == BootstrapIInv /\ [Next]_vars => BootstrapIInv'
<1> SUFFICES ASSUME BootstrapIInv, [Next]_vars PROVE BootstrapIInv'
    OBVIOUS
<1>1. \A t \in Requests : pc[t] \in Early => run[t] = "none"
    BY DEF BootstrapIInv, EarnedInv
<1> QED BY <1>1, TypeStep, EarnedStep, AloneStep DEF BootstrapIInv

\* Every behaviour of the bootstrap satisfies its inductive invariant.
THEOREM BootstrapInvariant == Spec => []BootstrapIInv
BY BootstrapInit, BootstrapStep, PTL DEF Spec

\* Every variable keeps its type.
THEOREM TypeCorrect == Spec => []TypeOK
<1> BootstrapIInv => TypeOK
    BY DEF BootstrapIInv
<1> QED BY BootstrapInvariant, PTL

\* A node shown as completed had a successful run, whatever else wrote to
\* its status: polls, cancellations, the reaper, other tasks.
THEOREM CompletionIsEarned == Spec => []CompletedIsEarned
<1> BootstrapIInv => CompletedIsEarned
    BY DEF BootstrapIInv, EarnedInv
<1> QED BY BootstrapInvariant, PTL

\* While runs of a node do not overlap, a task that ended by itself, even by
\* an exception, leaves no record running.
THEOREM NoOrphans == Spec => []NoOrphanIsLeft
<1> BootstrapIInv => NoOrphanIsLeft
    BY DEF BootstrapIInv, AloneInv, NoOrphanIsLeft, Running, RunAlive, Unwinding
<1> QED BY BootstrapInvariant, PTL
=============================================================================
