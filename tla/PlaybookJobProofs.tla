------------------------- MODULE PlaybookJobProofs -------------------------
(***************************************************************************)
(* Proofs about PlaybookJob, for any jobs, targets, cancel requests and    *)
(* deliveries.  The argument: a delivery that got past the lock stays its  *)
(* only holder until its finally block gives the lock back, because nobody *)
(* else removes it.  So the playbook it started can meet another one only  *)
(* after that, or after the delivery was killed and its lock has expired.  *)
(***************************************************************************)
EXTENDS PlaybookJob, TLAPS

\* Past the lock, and not yet through the finally block.
Holds(d) ==
    \/ wpc[d] \in {"locked"} \cup Marked
    \/ wpc[d] \in {"failing", "finally"} /\ runner[d] # "none"

\* A delivery past the lock holds it, and holds it alone, unless Redis
\* failed it.
LockInv == \A d \in Deliveries \ lockless : Holds(d) => lock[Key(d)] = {d}

\* A message is sent once, and a delivery starts its playbook once.
OnceInv ==
    /\ \A j \in Jobs : api[j] \in {"none", "created"} => wpc[<<j, 1>>] = "none"
    /\ \A d \in Deliveries : runner[d] # "none" =>
          wpc[d] \in {"running", "failing", "finally", "done", "killed"}

JobIInv == TypeOK /\ OnceInv /\ LockInv /\ CompletedSucceeded

-----------------------------------------------------------------------------
\* A delivery is of one of the jobs, and its lock is one of the locks.
LEMMA DeliveryFacts ==
    /\ \A d \in Deliveries : JobOf(d) \in Jobs /\ Key(d) \in Keys
    /\ \A j \in Jobs : \A n \in 1 .. MaxDeliveries[j] :
          <<j, n>> \in Deliveries /\ JobOf(<<j, n>>) = j
    /\ \A j \in Jobs : 1 \in 1 .. MaxDeliveries[j]
    /\ \A j \in Jobs : \A n \in 1 .. MaxDeliveries[j] - 1 :
          n \in 1 .. MaxDeliveries[j] /\ n + 1 \in 1 .. MaxDeliveries[j]
BY DeliveriesAssumption DEF Deliveries, JobOf, Keys

\* Every variable keeps its type.
LEMMA TypeStep ==
    ASSUME TypeOK, [Next]_vars
    PROVE  TypeOK'
<1> USE DEF TypeOK, rowVars, apiVars, history, Goto, Finish
<1>1. ASSUME NEW j \in Jobs, CreateJob(j) PROVE TypeOK'
    BY <1>1, DeliveryFacts DEF CreateJob, JobStatus
<1>2. ASSUME NEW j \in Jobs, SendTask(j) PROVE TypeOK'
    BY <1>2, DeliveryFacts DEF SendTask, DeliveryStep, Active, Trying, Marked
<1>3. ASSUME NEW j \in Jobs, StoreTaskId(j) PROVE TypeOK'
    BY <1>3, DeliveryFacts DEF StoreTaskId
<1>4. ASSUME NEW c \in Cancels, NEW j \in Jobs, CancelStart(c, j) PROVE TypeOK'
    BY <1>4, DeliveryFacts DEF CancelStart
<1>5. ASSUME NEW c \in Cancels, CancelFinish(c) PROVE TypeOK'
    BY <1>5, DeliveryFacts DEF CancelFinish, JobStatus
<1>6. ASSUME NEW j \in Jobs, RevokeArrives(j) PROVE TypeOK'
    BY <1>6, DeliveryFacts DEF RevokeArrives, DeliveryStep, Active, Trying, Marked
<1>7. ASSUME NEW j \in Jobs, NEW n \in 1 .. MaxDeliveries[j] - 1, Redeliver(j, n)
      PROVE TypeOK'
    BY <1>7, DeliveryFacts DEF Redeliver, DeliveryStep, Active, Trying, Marked
<1>8. ASSUME NEW j \in Jobs, OrphanLimitPasses(j) PROVE TypeOK'
    BY <1>8, DeliveryFacts DEF OrphanLimitPasses, Limits
<1>9. ASSUME NEW j \in Jobs, GuardLimitPasses(j) PROVE TypeOK'
    BY <1>9, DeliveryFacts DEF GuardLimitPasses, Limits
<1>10. ASSUME NEW d \in Deliveries, TaskDiscard(d) PROVE TypeOK'
    BY <1>10, DeliveryFacts DEF TaskDiscard, DeliveryStep, Active, Trying, Marked
<1>11. ASSUME NEW d \in Deliveries, TaskBegin(d) PROVE TypeOK'
    BY <1>11, DeliveryFacts DEF TaskBegin, DeliveryStep, Active, Trying, Marked
<1>12. ASSUME NEW d \in Deliveries, AcquireLock(d) PROVE TypeOK'
    BY <1>12, DeliveryFacts DEF AcquireLock, DeliveryStep, Active, Trying, Marked
<1>13. ASSUME NEW d \in Deliveries, TargetLocked(d) PROVE TypeOK'
    BY <1>13, DeliveryFacts DEF TargetLocked, DeliveryStep, Active, Trying, Marked, JobStatus
<1>14. ASSUME NEW d \in Deliveries, LockUnavailable(d) PROVE TypeOK'
    BY <1>14, DeliveryFacts DEF LockUnavailable, DeliveryStep, Active, Trying, Marked
<1>15. ASSUME NEW d \in Deliveries, MarkRunning(d) PROVE TypeOK'
    BY <1>15, DeliveryFacts DEF MarkRunning, DeliveryStep, Active, Trying, Marked, JobStatus
<1>16. ASSUME NEW d \in Deliveries, RunRefused(d) PROVE TypeOK'
    BY <1>16, DeliveryFacts DEF RunRefused, DeliveryStep, Active, Trying, Marked, JobStatus
<1>17. ASSUME NEW d \in Deliveries, StartRunner(d) PROVE TypeOK'
    BY <1>17, DeliveryFacts DEF StartRunner, DeliveryStep, Active, Trying, Marked, RunnerState
<1>18. ASSUME NEW d \in Deliveries, RunnerEnds(d) PROVE TypeOK'
    BY <1>18, DeliveryFacts DEF RunnerEnds, DeliveryStep, Active, Trying, Marked, RunnerState
<1>19. ASSUME NEW d \in Deliveries, FinalWrite(d) PROVE TypeOK'
    BY <1>19, DeliveryFacts DEF FinalWrite, DeliveryStep, Active, Trying, Marked, JobStatus, FinalStatus
<1>20. ASSUME NEW d \in Deliveries, Raise(d) PROVE TypeOK'
    BY <1>20, DeliveryFacts DEF Raise, DeliveryStep, Active, Trying, Marked
<1>21. ASSUME NEW d \in Deliveries, HandlerWrite(d) PROVE TypeOK'
    BY <1>21, DeliveryFacts DEF HandlerWrite, DeliveryStep, Active, Trying, Marked, JobStatus
<1>22. ASSUME NEW d \in Deliveries, HandlerRaises(d) PROVE TypeOK'
    BY <1>22, DeliveryFacts DEF HandlerRaises, DeliveryStep, Active, Trying, Marked
<1>23. ASSUME NEW d \in Deliveries, ReleaseLock(d) PROVE TypeOK'
    BY <1>23, DeliveryFacts DEF ReleaseLock, DeliveryStep, Active, Trying, Marked
<1>24. ASSUME NEW d \in Deliveries, WorkerKilled(d) PROVE TypeOK'
    BY <1>24, DeliveryFacts DEF WorkerKilled, DeliveryStep, Active, Trying, Marked
<1>25. ASSUME NEW k \in Keys, LockExpires(k) PROVE TypeOK'
    BY <1>25, DeliveryFacts DEF LockExpires
<1>26. CASE Reap
    BY <1>26 DEF Reap, JobStatus
<1>27. CASE UNCHANGED vars
    BY <1>27 DEF vars
<1> QED BY <1>1, <1>2, <1>3, <1>4, <1>5, <1>6, <1>7, <1>8, <1>9, <1>10, <1>11, <1>12,
        <1>13, <1>14, <1>15, <1>16, <1>17, <1>18, <1>19, <1>20, <1>21, <1>22, <1>23,
        <1>24, <1>25, <1>26, <1>27
    DEF Next, Request, CancelRequest, RunPlaybook, Environment

\* Nothing but the request sends the message of a job, and nothing but
\* StartRunner starts a playbook.
LEMMA OnceStep ==
    ASSUME TypeOK, OnceInv, [Next]_vars
    PROVE  OnceInv'
<1> USE DEF TypeOK, OnceInv, rowVars, apiVars, history, Goto, Finish
<1>1. ASSUME NEW j \in Jobs, CreateJob(j) PROVE OnceInv'
    BY <1>1, DeliveryFacts DEF CreateJob
<1>2. ASSUME NEW j \in Jobs, SendTask(j) PROVE OnceInv'
    BY <1>2, DeliveryFacts DEF SendTask
<1>3. ASSUME NEW j \in Jobs, StoreTaskId(j) PROVE OnceInv'
    BY <1>3, DeliveryFacts DEF StoreTaskId
<1>4. ASSUME NEW c \in Cancels, NEW j \in Jobs, CancelStart(c, j) PROVE OnceInv'
    BY <1>4, DeliveryFacts DEF CancelStart
<1>5. ASSUME NEW c \in Cancels, CancelFinish(c) PROVE OnceInv'
    BY <1>5, DeliveryFacts DEF CancelFinish
<1>6. ASSUME NEW j \in Jobs, RevokeArrives(j) PROVE OnceInv'
    BY <1>6, DeliveryFacts DEF RevokeArrives, Active, Trying, Marked
<1>7. ASSUME NEW j \in Jobs, NEW n \in 1 .. MaxDeliveries[j] - 1, Redeliver(j, n)
      PROVE OnceInv'
    BY <1>7, DeliveryFacts DEF Redeliver
<1>8. ASSUME NEW j \in Jobs, OrphanLimitPasses(j) PROVE OnceInv'
    BY <1>8, DeliveryFacts DEF OrphanLimitPasses
<1>9. ASSUME NEW j \in Jobs, GuardLimitPasses(j) PROVE OnceInv'
    BY <1>9, DeliveryFacts DEF GuardLimitPasses
<1>10. ASSUME NEW d \in Deliveries, TaskDiscard(d) PROVE OnceInv'
    BY <1>10, DeliveryFacts DEF TaskDiscard
<1>11. ASSUME NEW d \in Deliveries, TaskBegin(d) PROVE OnceInv'
    BY <1>11, DeliveryFacts DEF TaskBegin
<1>12. ASSUME NEW d \in Deliveries, AcquireLock(d) PROVE OnceInv'
    BY <1>12, DeliveryFacts DEF AcquireLock
<1>13. ASSUME NEW d \in Deliveries, TargetLocked(d) PROVE OnceInv'
    BY <1>13, DeliveryFacts DEF TargetLocked
<1>14. ASSUME NEW d \in Deliveries, LockUnavailable(d) PROVE OnceInv'
    BY <1>14, DeliveryFacts DEF LockUnavailable
<1>15. ASSUME NEW d \in Deliveries, MarkRunning(d) PROVE OnceInv'
    BY <1>15, DeliveryFacts DEF MarkRunning
<1>16. ASSUME NEW d \in Deliveries, RunRefused(d) PROVE OnceInv'
    BY <1>16, DeliveryFacts DEF RunRefused
<1>17. ASSUME NEW d \in Deliveries, StartRunner(d) PROVE OnceInv'
    BY <1>17, DeliveryFacts DEF StartRunner
<1>18. ASSUME NEW d \in Deliveries, RunnerEnds(d) PROVE OnceInv'
    BY <1>18, DeliveryFacts DEF RunnerEnds
<1>19. ASSUME NEW d \in Deliveries, FinalWrite(d) PROVE OnceInv'
    BY <1>19, DeliveryFacts DEF FinalWrite
<1>20. ASSUME NEW d \in Deliveries, Raise(d) PROVE OnceInv'
    BY <1>20, DeliveryFacts DEF Raise, Trying, Marked
<1>21. ASSUME NEW d \in Deliveries, HandlerWrite(d) PROVE OnceInv'
    BY <1>21, DeliveryFacts DEF HandlerWrite
<1>22. ASSUME NEW d \in Deliveries, HandlerRaises(d) PROVE OnceInv'
    BY <1>22, DeliveryFacts DEF HandlerRaises
<1>23. ASSUME NEW d \in Deliveries, ReleaseLock(d) PROVE OnceInv'
    BY <1>23, DeliveryFacts DEF ReleaseLock
<1>24. ASSUME NEW d \in Deliveries, WorkerKilled(d) PROVE OnceInv'
    BY <1>24, DeliveryFacts DEF WorkerKilled, Active, Trying, Marked
<1>25. ASSUME NEW k \in Keys, LockExpires(k) PROVE OnceInv'
    BY <1>25, DeliveryFacts DEF LockExpires
<1>26. CASE Reap
    BY <1>26 DEF Reap
<1>27. CASE UNCHANGED vars
    BY <1>27 DEF vars
<1> QED BY <1>1, <1>2, <1>3, <1>4, <1>5, <1>6, <1>7, <1>8, <1>9, <1>10, <1>11, <1>12,
        <1>13, <1>14, <1>15, <1>16, <1>17, <1>18, <1>19, <1>20, <1>21, <1>22, <1>23,
        <1>24, <1>25, <1>26, <1>27
    DEF Next, Request, CancelRequest, RunPlaybook, Environment

\* Nobody takes a lock that is held, nor the lock of a live holder.
LEMMA LockStep ==
    ASSUME TypeOK, OnceInv, LockInv, [Next]_vars
    PROVE  LockInv'
<1> USE DEF TypeOK, OnceInv, LockInv, Holds, Marked, rowVars, apiVars, history, Goto, Finish
<1>1. ASSUME NEW j \in Jobs, CreateJob(j) PROVE LockInv'
    BY <1>1, DeliveryFacts DEF CreateJob
<1>2. ASSUME NEW j \in Jobs, SendTask(j) PROVE LockInv'
    BY <1>2, DeliveryFacts DEF SendTask
<1>3. ASSUME NEW j \in Jobs, StoreTaskId(j) PROVE LockInv'
    BY <1>3, DeliveryFacts DEF StoreTaskId
<1>4. ASSUME NEW c \in Cancels, NEW j \in Jobs, CancelStart(c, j) PROVE LockInv'
    BY <1>4, DeliveryFacts DEF CancelStart
<1>5. ASSUME NEW c \in Cancels, CancelFinish(c) PROVE LockInv'
    BY <1>5, DeliveryFacts DEF CancelFinish
<1>6. ASSUME NEW j \in Jobs, RevokeArrives(j) PROVE LockInv'
    BY <1>6, DeliveryFacts DEF RevokeArrives, Active, Trying
<1>7. ASSUME NEW j \in Jobs, NEW n \in 1 .. MaxDeliveries[j] - 1, Redeliver(j, n)
      PROVE LockInv'
    BY <1>7, DeliveryFacts DEF Redeliver
<1>8. ASSUME NEW j \in Jobs, OrphanLimitPasses(j) PROVE LockInv'
    BY <1>8, DeliveryFacts DEF OrphanLimitPasses
<1>9. ASSUME NEW j \in Jobs, GuardLimitPasses(j) PROVE LockInv'
    BY <1>9, DeliveryFacts DEF GuardLimitPasses
<1>10. ASSUME NEW d \in Deliveries, TaskDiscard(d) PROVE LockInv'
    BY <1>10, DeliveryFacts DEF TaskDiscard
<1>11. ASSUME NEW d \in Deliveries, TaskBegin(d) PROVE LockInv'
    BY <1>11, DeliveryFacts DEF TaskBegin
<1>12. ASSUME NEW d \in Deliveries, AcquireLock(d) PROVE LockInv'
    <2> SUFFICES ASSUME NEW e \in Deliveries \ lockless, Holds(e)' PROVE lock'[Key(e)] = {e}
        BY <1>12, Zenon DEF AcquireLock
    <2>1. CASE e = d
        BY <1>12, <2>1, DeliveryFacts DEF AcquireLock
    <2>2. CASE e # d
        <3>1. Holds(e)
            BY <1>12, <2>2 DEF AcquireLock
        <3>2. lock[Key(e)] = {e} /\ Key(e) # Key(d)
            BY <1>12, <3>1 DEF AcquireLock
        <3> QED BY <1>12, <3>2, DeliveryFacts DEF AcquireLock
    <2> QED BY <2>1, <2>2
<1>13. ASSUME NEW d \in Deliveries, TargetLocked(d) PROVE LockInv'
    BY <1>13, DeliveryFacts DEF TargetLocked
<1>14. ASSUME NEW d \in Deliveries, LockUnavailable(d) PROVE LockInv'
    BY <1>14, DeliveryFacts DEF LockUnavailable
<1>15. ASSUME NEW d \in Deliveries, MarkRunning(d) PROVE LockInv'
    BY <1>15, DeliveryFacts DEF MarkRunning
<1>16. ASSUME NEW d \in Deliveries, RunRefused(d) PROVE LockInv'
    BY <1>16, DeliveryFacts DEF RunRefused
<1>17. ASSUME NEW d \in Deliveries, StartRunner(d) PROVE LockInv'
    BY <1>17, DeliveryFacts DEF StartRunner
<1>18. ASSUME NEW d \in Deliveries, RunnerEnds(d) PROVE LockInv'
    BY <1>18, DeliveryFacts DEF RunnerEnds
<1>19. ASSUME NEW d \in Deliveries, FinalWrite(d) PROVE LockInv'
    BY <1>19, DeliveryFacts DEF FinalWrite
<1>20. ASSUME NEW d \in Deliveries, Raise(d) PROVE LockInv'
    BY <1>20, DeliveryFacts DEF Raise, Active, Trying
<1>21. ASSUME NEW d \in Deliveries, HandlerWrite(d) PROVE LockInv'
    BY <1>21, DeliveryFacts DEF HandlerWrite
<1>22. ASSUME NEW d \in Deliveries, HandlerRaises(d) PROVE LockInv'
    BY <1>22, DeliveryFacts DEF HandlerRaises
<1>23. ASSUME NEW d \in Deliveries, ReleaseLock(d) PROVE LockInv'
    BY <1>23, DeliveryFacts DEF ReleaseLock
<1>24. ASSUME NEW d \in Deliveries, WorkerKilled(d) PROVE LockInv'
    BY <1>24, DeliveryFacts DEF WorkerKilled, Active, Trying
<1>25. ASSUME NEW k \in Keys, LockExpires(k) PROVE LockInv'
    BY <1>25, DeliveryFacts DEF LockExpires, Active, Trying
<1>26. CASE Reap
    BY <1>26 DEF Reap
<1>27. CASE UNCHANGED vars
    BY <1>27 DEF vars
<1> QED BY <1>1, <1>2, <1>3, <1>4, <1>5, <1>6, <1>7, <1>8, <1>9, <1>10, <1>11, <1>12,
        <1>13, <1>14, <1>15, <1>16, <1>17, <1>18, <1>19, <1>20, <1>21, <1>22, <1>23,
        <1>24, <1>25, <1>26, <1>27
    DEF Next, Request, CancelRequest, RunPlaybook, Environment

\* Only the final write of a successful run completes a job, and it holds
\* the lock that every other run of the job would need.
LEMMA CompletionStep ==
    ASSUME TypeOK, OnceInv, LockInv, CompletedSucceeded, [Next]_vars
    PROVE  CompletedSucceeded'
<1> USE DEF TypeOK, OnceInv, LockInv, Holds, Marked, CompletedSucceeded,
            rowVars, apiVars, history, Goto, Finish
<1>1. ASSUME NEW j \in Jobs, CreateJob(j) PROVE CompletedSucceeded'
    BY <1>1, DeliveryFacts DEF CreateJob
<1>2. ASSUME NEW j \in Jobs, SendTask(j) PROVE CompletedSucceeded'
    BY <1>2, DeliveryFacts DEF SendTask
<1>3. ASSUME NEW j \in Jobs, StoreTaskId(j) PROVE CompletedSucceeded'
    BY <1>3, DeliveryFacts DEF StoreTaskId
<1>4. ASSUME NEW c \in Cancels, NEW j \in Jobs, CancelStart(c, j)
      PROVE CompletedSucceeded'
    BY <1>4, DeliveryFacts DEF CancelStart
<1>5. ASSUME NEW c \in Cancels, CancelFinish(c) PROVE CompletedSucceeded'
    BY <1>5, DeliveryFacts DEF CancelFinish
<1>6. ASSUME NEW j \in Jobs, RevokeArrives(j) PROVE CompletedSucceeded'
    BY <1>6, DeliveryFacts DEF RevokeArrives, Active, Trying
<1>7. ASSUME NEW j \in Jobs, NEW n \in 1 .. MaxDeliveries[j] - 1, Redeliver(j, n)
      PROVE CompletedSucceeded'
    BY <1>7, DeliveryFacts DEF Redeliver
<1>8. ASSUME NEW j \in Jobs, OrphanLimitPasses(j) PROVE CompletedSucceeded'
    BY <1>8, DeliveryFacts DEF OrphanLimitPasses
<1>9. ASSUME NEW j \in Jobs, GuardLimitPasses(j) PROVE CompletedSucceeded'
    BY <1>9, DeliveryFacts DEF GuardLimitPasses
<1>10. ASSUME NEW d \in Deliveries, TaskDiscard(d) PROVE CompletedSucceeded'
    BY <1>10, DeliveryFacts DEF TaskDiscard
<1>11. ASSUME NEW d \in Deliveries, TaskBegin(d) PROVE CompletedSucceeded'
    BY <1>11, DeliveryFacts DEF TaskBegin
<1>12. ASSUME NEW d \in Deliveries, AcquireLock(d) PROVE CompletedSucceeded'
    BY <1>12, DeliveryFacts DEF AcquireLock
<1>13. ASSUME NEW d \in Deliveries, TargetLocked(d) PROVE CompletedSucceeded'
    BY <1>13, DeliveryFacts DEF TargetLocked
<1>14. ASSUME NEW d \in Deliveries, LockUnavailable(d) PROVE CompletedSucceeded'
    BY <1>14, DeliveryFacts DEF LockUnavailable
<1>15. ASSUME NEW d \in Deliveries, MarkRunning(d) PROVE CompletedSucceeded'
    BY <1>15, DeliveryFacts DEF MarkRunning
<1>16. ASSUME NEW d \in Deliveries, RunRefused(d) PROVE CompletedSucceeded'
    BY <1>16, DeliveryFacts DEF RunRefused
<1>17. ASSUME NEW d \in Deliveries, StartRunner(d) PROVE CompletedSucceeded'
    BY <1>17, DeliveryFacts DEF StartRunner
<1>18. ASSUME NEW d \in Deliveries, RunnerEnds(d) PROVE CompletedSucceeded'
    BY <1>18, DeliveryFacts DEF RunnerEnds
<1>19. ASSUME NEW d \in Deliveries, FinalWrite(d) PROVE CompletedSucceeded'
    <2> SUFFICES ASSUME NEW j \in Jobs, job'[j] = "completed"
                 PROVE  /\ \E e \in Deliveries : JobOf(e) = j /\ runner'[e] = "ok"
                        /\ (\A e \in Deliveries : JobOf(e) = j => e \notin lockless')
                              => \A e \in Deliveries : JobOf(e) = j => wpc'[e] \notin Marked
        BY <1>19 DEF FinalWrite
    <2>1. CASE j = JobOf(d)
        <3>1. runner[d] = "ok"
            BY <1>19, <2>1, DeliveryFacts DEF FinalWrite, FinalStatus
        <3>2. ASSUME NEW e \in Deliveries, JobOf(e) = j, e # d,
                     d \notin lockless, e \notin lockless
              PROVE  wpc[e] \notin Marked
            <4>1. lock[Key(d)] = {d}
                BY <1>19, <3>2 DEF FinalWrite
            <4>2. Key(e) = Key(d)
                BY <2>1, <3>2 DEF Key
            <4>3. wpc[e] \in Marked => lock[Key(e)] = {e}
                BY <3>2
            <4> QED BY <4>1, <4>2, <4>3, <3>2
        <3> QED BY <1>19, <2>1, <3>1, <3>2 DEF FinalWrite
    <2>2. CASE j # JobOf(d)
        BY <1>19, <2>2, DeliveryFacts DEF FinalWrite
    <2> QED BY <2>1, <2>2
<1>20. ASSUME NEW d \in Deliveries, Raise(d) PROVE CompletedSucceeded'
    BY <1>20, DeliveryFacts DEF Raise, Active, Trying
<1>21. ASSUME NEW d \in Deliveries, HandlerWrite(d) PROVE CompletedSucceeded'
    BY <1>21, DeliveryFacts DEF HandlerWrite
<1>22. ASSUME NEW d \in Deliveries, HandlerRaises(d) PROVE CompletedSucceeded'
    BY <1>22, DeliveryFacts DEF HandlerRaises
<1>23. ASSUME NEW d \in Deliveries, ReleaseLock(d) PROVE CompletedSucceeded'
    BY <1>23, DeliveryFacts DEF ReleaseLock
<1>24. ASSUME NEW d \in Deliveries, WorkerKilled(d) PROVE CompletedSucceeded'
    BY <1>24, DeliveryFacts DEF WorkerKilled
<1>25. ASSUME NEW k \in Keys, LockExpires(k) PROVE CompletedSucceeded'
    BY <1>25, DeliveryFacts DEF LockExpires
<1>26. CASE Reap
    BY <1>26 DEF Reap
<1>27. CASE UNCHANGED vars
    BY <1>27 DEF vars
<1> QED BY <1>1, <1>2, <1>3, <1>4, <1>5, <1>6, <1>7, <1>8, <1>9, <1>10, <1>11, <1>12,
        <1>13, <1>14, <1>15, <1>16, <1>17, <1>18, <1>19, <1>20, <1>21, <1>22, <1>23,
        <1>24, <1>25, <1>26, <1>27
    DEF Next, Request, CancelRequest, RunPlaybook, Environment

-----------------------------------------------------------------------------
\* The inductive invariant holds at first ...
LEMMA JobInit == Init => JobIInv
<1> SUFFICES ASSUME Init PROVE JobIInv
    OBVIOUS
<1> (CHOOSE j \in Jobs : TRUE) \in Jobs
    BY JobsAssumption
<1>1. TypeOK
    BY DEF Init, TypeOK, JobStatus, DeliveryStep, RunnerState
<1>2. OnceInv /\ LockInv /\ CompletedSucceeded
    BY DeliveryFacts DEF Init, OnceInv, LockInv, Holds, Marked, CompletedSucceeded
<1> QED BY <1>1, <1>2 DEF JobIInv

\* ... and every step keeps it.
LEMMA JobStep == JobIInv /\ [Next]_vars => JobIInv'
BY TypeStep, OnceStep, LockStep, CompletionStep DEF JobIInv

\* Every behaviour of the jobs satisfies their inductive invariant.
THEOREM JobInvariant == Spec => []JobIInv
BY JobInit, JobStep, PTL DEF Spec

\* Every variable keeps its type.
THEOREM TypeCorrect == Spec => []TypeOK
<1> JobIInv => TypeOK
    BY DEF JobIInv
<1> QED BY JobInvariant, PTL

\* Of two playbooks under way against one target, one was left behind: its
\* task is over and gave the lock back, or was killed and lost it to the
\* TTL.  So it is whatever is redelivered, cancelled, killed or reaped,
\* among the deliveries Redis did not fail.
THEOREM RunsAreExclusive == Spec => []OneRunPerKey
<1>1. JobIInv => OneRunPerKey
    <2> SUFFICES ASSUME JobIInv,
                        NEW d \in Deliveries \ lockless, NEW e \in Deliveries \ lockless,
                        runner[d] = "alive", runner[e] = "alive", Key(d) = Key(e), d # e,
                        ~LetGo(d), ~LetGo(e)
                 PROVE  FALSE
        BY DEF OneRunPerKey
    <2>1. lock[Key(d)] = {d}
        BY DEF JobIInv, OnceInv, LockInv, Holds, Marked, LetGo
    <2>2. lock[Key(e)] = {e}
        BY DEF JobIInv, OnceInv, LockInv, Holds, Marked, LetGo
    <2> QED BY <2>1, <2>2
<1> QED BY <1>1, JobInvariant, PTL

\* A completed job had a run that succeeded, and nobody is at work on it.
THEOREM CompletionIsEarned == Spec => []CompletedSucceeded
<1> JobIInv => CompletedSucceeded
    BY DEF JobIInv
<1> QED BY JobInvariant, PTL
=============================================================================
