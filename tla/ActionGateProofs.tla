-------------------------- MODULE ActionGateProofs --------------------------
(***************************************************************************)
(* Proofs about ActionGate, for any sets of actions and requests and any   *)
(* number of lost workers.  The argument: the compare-and-swap gives an    *)
(* action at most one owner, the request that claimed it or that handed    *)
(* it to a worker, and as long as it has one its row is granted.           *)
(***************************************************************************)
EXTENDS ActionGate, TLAPS

\* Request r claimed its action, or sent the command of it.
Owner(r) == act[r] \in Destructive /\ (pc[r] = "claimed" \/ task[r] # "none")

Granted(a) == row[a] \in {"approved", "executing", "executed", "failed"}

\* Where a request stands bounds what it has sent, and what came back of it.
PhaseInv ==
    \A r \in Requests :
        /\ pc[r] \in {"idle", "mail", "claim", "settle", "claimed"} => task[r] = "none"
        /\ pc[r] = "dispatched" => task[r] # "none"
        /\ pc[r] \in {"mail", "claim", "settle", "claimed", "dispatched"}
              => act[r] \in Destructive
        /\ task[r] = "none" => answer[r] = "none"
        /\ task[r] = "returned" => answer[r] # "none"

CallbackInv ==
    \A r \in Requests, n \in Tries :
        /\ task[r] = "none" => callback[r][n] = "none" /\ result[r][n] = "none"
        /\ callback[r][n] # "none" => act[r] \in Destructive
        /\ callback[r][n] \in {"queued", "checked"} => result[r][n] # "none"

\* An owned action is granted, and has one owner.
OwnerInv ==
    /\ \A r \in Requests : Owner(r) => Granted(act[r])
    /\ \A r, s \in Requests : Owner(r) /\ Owner(s) /\ act[r] = act[s] => r = s

\* A command that ran was sent by an owner, and a delivery was spent on
\* each run.
RunsInv ==
    /\ \A a \in Destructive : runs[a] > 0 => DispatchersOf(a) # {}
    /\ \A a \in Destructive : \A r \in DispatchersOf(a) :
          /\ runs[a] <= try[r]
          /\ task[r] = "started" => runs[a] < try[r]

\* A delivery was spent on the first attempt or after a loss.
TryInv ==
    \A r \in Requests :
        try[r] <= losses + (IF task[r] \in {"none", "queued"} THEN 0 ELSE 1)

\* Every "ok" in flight, and every executed row, goes back to an answer.
AnswerInv ==
    /\ \A r \in Requests : answer[r] = "ok" => act[r] \in answeredOk
    /\ \A r \in Requests, n \in Tries : result[r][n] = "ok" => act[r] \in answeredOk
    /\ \A a \in Destructive : row[a] = "executed" => a \in answeredOk

GateInv == PhaseInv /\ CallbackInv /\ OwnerInv

-----------------------------------------------------------------------------
\* The reaper leaves a status in every row.
LEMMA ReapedType ==
    ASSUME NEW s \in Status, NEW e \in ExecutedAt, NEW l \in BOOLEAN
    PROVE  Reaped(s, e, l) \in Status
BY DEF Reaped, ReapsExecuting, ReapsPending, Status

\* Every variable keeps its type; the deliveries are bounded by the losses,
\* which keeps every callback in its slot.
LEMMA TypeStep ==
    ASSUME TypeOK, TryInv, PhaseInv, [Next]_vars
    PROVE  TypeOK' /\ TryInv'
<1> USE LossesAssumption DEF TypeOK, TryInv, PhaseInv, Tries,
        rowVars, restOfRow, reqVars, taskVars, cbVars, histVars, Goto
<1>1. ASSUME NEW r \in Requests, NEW a \in Destructive, RequestDestructive(r, a) PROVE TypeOK' /\ TryInv'
    BY <1>1 DEF RequestDestructive, Actions, PC, Status
<1>2. ASSUME NEW r \in Requests, NEW a \in Destructive, ApproveStart(r, a) PROVE TypeOK' /\ TryInv'
    BY <1>2 DEF ApproveStart, Actions, PC
<1>3. ASSUME NEW r \in Requests, NEW a \in Destructive, RejectAction(r, a) PROVE TypeOK' /\ TryInv'
    BY <1>3 DEF RejectAction, Actions, PC, Status
<1>4. ASSUME NEW r \in Requests, NEW a \in Immediate, RequestImmediate(r, a) PROVE TypeOK' /\ TryInv'
    BY <1>4 DEF RequestImmediate, Actions, PC, TaskState
<1>5. ASSUME NEW r \in Requests, SendApprovalEmail(r) PROVE TypeOK' /\ TryInv'
    BY <1>5 DEF SendApprovalEmail, PC
<1>6. ASSUME NEW r \in Requests, ApproveClaim(r) PROVE TypeOK' /\ TryInv'
    BY <1>6 DEF ApproveClaim, PC, Status, ExecutedAt
<1>7. ASSUME NEW r \in Requests, ApproveLost(r) PROVE TypeOK' /\ TryInv'
    BY <1>7 DEF ApproveLost, PC
<1>8. ASSUME NEW r \in Requests, ApproveSettle(r) PROVE TypeOK' /\ TryInv'
    BY <1>8 DEF ApproveSettle, PC, Status
<1>9. ASSUME NEW r \in Requests, ApproveRefuse(r) PROVE TypeOK' /\ TryInv'
    BY <1>9 DEF ApproveRefuse, PC, Status
<1>10. ASSUME NEW r \in Requests, ApproveDispatch(r) PROVE TypeOK' /\ TryInv'
    BY <1>10 DEF ApproveDispatch, PC, TaskState
<1>11. ASSUME NEW r \in Requests, ApproveExecuting(r) PROVE TypeOK' /\ TryInv'
    BY <1>11 DEF ApproveExecuting, PC, Status
<1>12. ASSUME NEW r \in Requests, TaskStart(r) PROVE TypeOK' /\ TryInv'
    BY <1>12 DEF TaskStart, TaskState
<1>13. ASSUME NEW r \in Requests, RunSaltCmd(r) PROVE TypeOK' /\ TryInv'
    BY <1>13 DEF RunSaltCmd, TaskState, Answer
<1>14. ASSUME NEW r \in Requests, TaskRaise(r) PROVE TypeOK' /\ TryInv'
    BY <1>14 DEF TaskRaise, TaskState
<1>15. ASSUME NEW r \in Requests, TaskLink(r) PROVE TypeOK' /\ TryInv'
    <2>1. CASE act[r] \in Destructive
        <3>1. callback' = [callback EXCEPT ![r] = [callback[r] EXCEPT ![try[r]] = "queued"]]
            BY <1>15, <2>1 DEF TaskLink
        <3>2. result' = [result EXCEPT ![r] = [result[r] EXCEPT ![try[r]] = answer[r]]]
            BY <1>15, <2>1 DEF TaskLink
        <3>3. /\ [callback[r] EXCEPT ![try[r]] = "queued"] \in [Tries -> CallbackState]
              /\ [result[r] EXCEPT ![try[r]] = answer[r]] \in [Tries -> Answer]
            BY DEF CallbackState
        <3> QED BY <1>15, <3>1, <3>2, <3>3 DEF TaskLink, TaskState
    <2>2. CASE act[r] \notin Destructive
        BY <1>15, <2>2 DEF TaskLink, TaskState
    <2> QED BY <2>1, <2>2
<1>16. ASSUME NEW r \in Requests, TaskAck(r) PROVE TypeOK' /\ TryInv'
    BY <1>16 DEF TaskAck, TaskState
<1>17. ASSUME NEW r \in Requests, NEW n \in Tries, FinalizeCheck(r, n) PROVE TypeOK' /\ TryInv'
    BY <1>17 DEF FinalizeCheck, CallbackState
<1>18. ASSUME NEW r \in Requests, NEW n \in Tries, FinalizeWrite(r, n) PROVE TypeOK' /\ TryInv'
    BY <1>18 DEF FinalizeWrite, CallbackState, Status, ExecutedAt, StatusFromSaltResult
<1>19. ASSUME NEW r \in Requests, ApiCrash(r) PROVE TypeOK' /\ TryInv'
    BY <1>19 DEF ApiCrash, PC
<1>20. ASSUME NEW r \in Requests, TaskLost(r) PROVE TypeOK' /\ TryInv'
    BY <1>20 DEF TaskLost, TaskState
<1>21. ASSUME NEW r \in Requests, NEW n \in Tries, FinalizeLost(r, n) PROVE TypeOK' /\ TryInv'
    BY <1>21 DEF FinalizeLost, CallbackState
<1>22. CASE Reap
    BY <1>22, ReapedType DEF Reap
<1>23. ASSUME NEW a \in Actions, ExpiryPasses(a) PROVE TypeOK' /\ TryInv'
    BY <1>23 DEF ExpiryPasses
<1>24. ASSUME NEW a \in Actions, ExecutedAges(a) PROVE TypeOK' /\ TryInv'
    BY <1>24 DEF ExecutedAges, ExecutedAt
<1>25. ASSUME NEW a \in Actions, DeleteNode(a) PROVE TypeOK' /\ TryInv'
    BY <1>25 DEF DeleteNode
<1>26. CASE UNCHANGED vars
    BY <1>26 DEF vars
<1> QED BY <1>1, <1>2, <1>3, <1>4, <1>5, <1>6, <1>7, <1>8, <1>9,
        <1>10, <1>11, <1>12, <1>13, <1>14, <1>15, <1>16, <1>17,
        <1>18, <1>19, <1>20, <1>21, <1>22, <1>23, <1>24, <1>25, <1>26
    DEF Next, ApiStart, ApiContinue, Worker, Failure, Environment

\* No request has sent its task before it is due.
LEMMA PhaseStep ==
    ASSUME TypeOK, PhaseInv, [Next]_vars
    PROVE  PhaseInv'
<1> USE DEF TypeOK, PhaseInv, rowVars, restOfRow, reqVars, taskVars, cbVars, histVars, Goto
<1>1. ASSUME NEW r \in Requests, NEW a \in Destructive, RequestDestructive(r, a) PROVE PhaseInv'
    BY <1>1 DEF RequestDestructive
<1>2. ASSUME NEW r \in Requests, NEW a \in Destructive, ApproveStart(r, a) PROVE PhaseInv'
    BY <1>2 DEF ApproveStart
<1>3. ASSUME NEW r \in Requests, NEW a \in Destructive, RejectAction(r, a) PROVE PhaseInv'
    BY <1>3 DEF RejectAction
<1>4. ASSUME NEW r \in Requests, NEW a \in Immediate, RequestImmediate(r, a) PROVE PhaseInv'
    BY <1>4 DEF RequestImmediate
<1>5. ASSUME NEW r \in Requests, SendApprovalEmail(r) PROVE PhaseInv'
    BY <1>5 DEF SendApprovalEmail
<1>6. ASSUME NEW r \in Requests, ApproveClaim(r) PROVE PhaseInv'
    BY <1>6 DEF ApproveClaim
<1>7. ASSUME NEW r \in Requests, ApproveLost(r) PROVE PhaseInv'
    BY <1>7 DEF ApproveLost
<1>8. ASSUME NEW r \in Requests, ApproveSettle(r) PROVE PhaseInv'
    BY <1>8 DEF ApproveSettle
<1>9. ASSUME NEW r \in Requests, ApproveRefuse(r) PROVE PhaseInv'
    BY <1>9 DEF ApproveRefuse
<1>10. ASSUME NEW r \in Requests, ApproveDispatch(r) PROVE PhaseInv'
    BY <1>10 DEF ApproveDispatch
<1>11. ASSUME NEW r \in Requests, ApproveExecuting(r) PROVE PhaseInv'
    BY <1>11 DEF ApproveExecuting
<1>12. ASSUME NEW r \in Requests, TaskStart(r) PROVE PhaseInv'
    BY <1>12 DEF TaskStart
<1>13. ASSUME NEW r \in Requests, RunSaltCmd(r) PROVE PhaseInv'
    BY <1>13 DEF RunSaltCmd
<1>14. ASSUME NEW r \in Requests, TaskRaise(r) PROVE PhaseInv'
    BY <1>14 DEF TaskRaise
<1>15. ASSUME NEW r \in Requests, TaskLink(r) PROVE PhaseInv'
    BY <1>15 DEF TaskLink
<1>16. ASSUME NEW r \in Requests, TaskAck(r) PROVE PhaseInv'
    BY <1>16 DEF TaskAck
<1>17. ASSUME NEW r \in Requests, NEW n \in Tries, FinalizeCheck(r, n) PROVE PhaseInv'
    BY <1>17 DEF FinalizeCheck
<1>18. ASSUME NEW r \in Requests, NEW n \in Tries, FinalizeWrite(r, n) PROVE PhaseInv'
    BY <1>18 DEF FinalizeWrite
<1>19. ASSUME NEW r \in Requests, ApiCrash(r) PROVE PhaseInv'
    BY <1>19 DEF ApiCrash
<1>20. ASSUME NEW r \in Requests, TaskLost(r) PROVE PhaseInv'
    BY <1>20 DEF TaskLost
<1>21. ASSUME NEW r \in Requests, NEW n \in Tries, FinalizeLost(r, n) PROVE PhaseInv'
    BY <1>21 DEF FinalizeLost
<1>22. CASE Reap
    BY <1>22 DEF Reap
<1>23. ASSUME NEW a \in Actions, ExpiryPasses(a) PROVE PhaseInv'
    BY <1>23 DEF ExpiryPasses
<1>24. ASSUME NEW a \in Actions, ExecutedAges(a) PROVE PhaseInv'
    BY <1>24 DEF ExecutedAges
<1>25. ASSUME NEW a \in Actions, DeleteNode(a) PROVE PhaseInv'
    BY <1>25 DEF DeleteNode
<1>26. CASE UNCHANGED vars
    BY <1>26 DEF vars
<1> QED BY <1>1, <1>2, <1>3, <1>4, <1>5, <1>6, <1>7, <1>8, <1>9,
        <1>10, <1>11, <1>12, <1>13, <1>14, <1>15, <1>16, <1>17,
        <1>18, <1>19, <1>20, <1>21, <1>22, <1>23, <1>24, <1>25, <1>26
    DEF Next, ApiStart, ApiContinue, Worker, Failure, Environment

\* A callback comes from a task that was sent, and carries its answer.
LEMMA CallbackStep ==
    ASSUME TypeOK, PhaseInv, CallbackInv, [Next]_vars
    PROVE  CallbackInv'
<1> USE DEF TypeOK, PhaseInv, CallbackInv, rowVars, restOfRow, reqVars, taskVars, cbVars, histVars, Goto
<1>1. ASSUME NEW r \in Requests, NEW a \in Destructive, RequestDestructive(r, a) PROVE CallbackInv'
    BY <1>1 DEF RequestDestructive
<1>2. ASSUME NEW r \in Requests, NEW a \in Destructive, ApproveStart(r, a) PROVE CallbackInv'
    BY <1>2 DEF ApproveStart
<1>3. ASSUME NEW r \in Requests, NEW a \in Destructive, RejectAction(r, a) PROVE CallbackInv'
    BY <1>3 DEF RejectAction
<1>4. ASSUME NEW r \in Requests, NEW a \in Immediate, RequestImmediate(r, a) PROVE CallbackInv'
    BY <1>4 DEF RequestImmediate
<1>5. ASSUME NEW r \in Requests, SendApprovalEmail(r) PROVE CallbackInv'
    BY <1>5 DEF SendApprovalEmail
<1>6. ASSUME NEW r \in Requests, ApproveClaim(r) PROVE CallbackInv'
    BY <1>6 DEF ApproveClaim
<1>7. ASSUME NEW r \in Requests, ApproveLost(r) PROVE CallbackInv'
    BY <1>7 DEF ApproveLost
<1>8. ASSUME NEW r \in Requests, ApproveSettle(r) PROVE CallbackInv'
    BY <1>8 DEF ApproveSettle
<1>9. ASSUME NEW r \in Requests, ApproveRefuse(r) PROVE CallbackInv'
    BY <1>9 DEF ApproveRefuse
<1>10. ASSUME NEW r \in Requests, ApproveDispatch(r) PROVE CallbackInv'
    BY <1>10 DEF ApproveDispatch
<1>11. ASSUME NEW r \in Requests, ApproveExecuting(r) PROVE CallbackInv'
    BY <1>11 DEF ApproveExecuting
<1>12. ASSUME NEW r \in Requests, TaskStart(r) PROVE CallbackInv'
    BY <1>12 DEF TaskStart
<1>13. ASSUME NEW r \in Requests, RunSaltCmd(r) PROVE CallbackInv'
    BY <1>13 DEF RunSaltCmd
<1>14. ASSUME NEW r \in Requests, TaskRaise(r) PROVE CallbackInv'
    BY <1>14 DEF TaskRaise
<1>15. ASSUME NEW r \in Requests, TaskLink(r) PROVE CallbackInv'
    BY <1>15 DEF TaskLink
<1>16. ASSUME NEW r \in Requests, TaskAck(r) PROVE CallbackInv'
    BY <1>16 DEF TaskAck
<1>17. ASSUME NEW r \in Requests, NEW n \in Tries, FinalizeCheck(r, n) PROVE CallbackInv'
    BY <1>17 DEF FinalizeCheck
<1>18. ASSUME NEW r \in Requests, NEW n \in Tries, FinalizeWrite(r, n) PROVE CallbackInv'
    BY <1>18 DEF FinalizeWrite
<1>19. ASSUME NEW r \in Requests, ApiCrash(r) PROVE CallbackInv'
    BY <1>19 DEF ApiCrash
<1>20. ASSUME NEW r \in Requests, TaskLost(r) PROVE CallbackInv'
    BY <1>20 DEF TaskLost
<1>21. ASSUME NEW r \in Requests, NEW n \in Tries, FinalizeLost(r, n) PROVE CallbackInv'
    BY <1>21 DEF FinalizeLost
<1>22. CASE Reap
    BY <1>22 DEF Reap
<1>23. ASSUME NEW a \in Actions, ExpiryPasses(a) PROVE CallbackInv'
    BY <1>23 DEF ExpiryPasses
<1>24. ASSUME NEW a \in Actions, ExecutedAges(a) PROVE CallbackInv'
    BY <1>24 DEF ExecutedAges
<1>25. ASSUME NEW a \in Actions, DeleteNode(a) PROVE CallbackInv'
    BY <1>25 DEF DeleteNode
<1>26. CASE UNCHANGED vars
    BY <1>26 DEF vars
<1> QED BY <1>1, <1>2, <1>3, <1>4, <1>5, <1>6, <1>7, <1>8, <1>9,
        <1>10, <1>11, <1>12, <1>13, <1>14, <1>15, <1>16, <1>17,
        <1>18, <1>19, <1>20, <1>21, <1>22, <1>23, <1>24, <1>25, <1>26
    DEF Next, ApiStart, ApiContinue, Worker, Failure, Environment

\* The compare-and-swap: no two requests come to own one action.
LEMMA OwnerStep ==
    ASSUME TypeOK, PhaseInv, CallbackInv, OwnerInv, [Next]_vars
    PROVE  OwnerInv'
<1> USE ActionsAssumption DEF TypeOK, PhaseInv, CallbackInv, OwnerInv, Owner, Granted, Actions,
        rowVars, restOfRow, reqVars, taskVars, cbVars, histVars, Goto
<1>1. ASSUME NEW r \in Requests, NEW a \in Destructive, RequestDestructive(r, a) PROVE OwnerInv'
    BY <1>1 DEF RequestDestructive
<1>2. ASSUME NEW r \in Requests, NEW a \in Destructive, ApproveStart(r, a) PROVE OwnerInv'
    BY <1>2 DEF ApproveStart
<1>3. ASSUME NEW r \in Requests, NEW a \in Destructive, RejectAction(r, a) PROVE OwnerInv'
    BY <1>3 DEF RejectAction
<1>4. ASSUME NEW r \in Requests, NEW a \in Immediate, RequestImmediate(r, a) PROVE OwnerInv'
    BY <1>4 DEF RequestImmediate
<1>5. ASSUME NEW r \in Requests, SendApprovalEmail(r) PROVE OwnerInv'
    BY <1>5 DEF SendApprovalEmail
<1>6. ASSUME NEW r \in Requests, ApproveClaim(r) PROVE OwnerInv'
    <2>1. \A s \in Requests : Owner(s) => act[s] # act[r]
        BY <1>6 DEF ApproveClaim, Claimable
    <2>2. \A s \in Requests \ {r} : Owner(s)' = Owner(s)
        BY <1>6 DEF ApproveClaim
    <2>3. \A a \in Actions : a # act[r] => Granted(a)' = Granted(a)
        BY <1>6 DEF ApproveClaim
    <2>4. Granted(act[r])'
        BY <1>6 DEF ApproveClaim
    <2> QED BY <1>6, <2>1, <2>2, <2>3, <2>4 DEF ApproveClaim
<1>7. ASSUME NEW r \in Requests, ApproveLost(r) PROVE OwnerInv'
    BY <1>7 DEF ApproveLost
<1>8. ASSUME NEW r \in Requests, ApproveSettle(r) PROVE OwnerInv'
    BY <1>8 DEF ApproveSettle
<1>9. ASSUME NEW r \in Requests, ApproveRefuse(r) PROVE OwnerInv'
    BY <1>9 DEF ApproveRefuse
<1>10. ASSUME NEW r \in Requests, ApproveDispatch(r) PROVE OwnerInv'
    BY <1>10 DEF ApproveDispatch
<1>11. ASSUME NEW r \in Requests, ApproveExecuting(r) PROVE OwnerInv'
    BY <1>11 DEF ApproveExecuting
<1>12. ASSUME NEW r \in Requests, TaskStart(r) PROVE OwnerInv'
    BY <1>12 DEF TaskStart
<1>13. ASSUME NEW r \in Requests, RunSaltCmd(r) PROVE OwnerInv'
    BY <1>13 DEF RunSaltCmd
<1>14. ASSUME NEW r \in Requests, TaskRaise(r) PROVE OwnerInv'
    BY <1>14 DEF TaskRaise
<1>15. ASSUME NEW r \in Requests, TaskLink(r) PROVE OwnerInv'
    BY <1>15 DEF TaskLink
<1>16. ASSUME NEW r \in Requests, TaskAck(r) PROVE OwnerInv'
    BY <1>16 DEF TaskAck
<1>17. ASSUME NEW r \in Requests, NEW n \in Tries, FinalizeCheck(r, n) PROVE OwnerInv'
    BY <1>17 DEF FinalizeCheck
<1>18. ASSUME NEW r \in Requests, NEW n \in Tries, FinalizeWrite(r, n) PROVE OwnerInv'
    BY <1>18 DEF FinalizeWrite, StatusFromSaltResult
<1>19. ASSUME NEW r \in Requests, ApiCrash(r) PROVE OwnerInv'
    BY <1>19 DEF ApiCrash
<1>20. ASSUME NEW r \in Requests, TaskLost(r) PROVE OwnerInv'
    BY <1>20 DEF TaskLost
<1>21. ASSUME NEW r \in Requests, NEW n \in Tries, FinalizeLost(r, n) PROVE OwnerInv'
    BY <1>21 DEF FinalizeLost
<1>22. CASE Reap
    BY <1>22 DEF Reap, Reaped, ReapsExecuting, ReapsPending
<1>23. ASSUME NEW a \in Actions, ExpiryPasses(a) PROVE OwnerInv'
    BY <1>23 DEF ExpiryPasses
<1>24. ASSUME NEW a \in Actions, ExecutedAges(a) PROVE OwnerInv'
    BY <1>24 DEF ExecutedAges
<1>25. ASSUME NEW a \in Actions, DeleteNode(a) PROVE OwnerInv'
    BY <1>25 DEF DeleteNode
<1>26. CASE UNCHANGED vars
    BY <1>26 DEF vars
<1> QED BY <1>1, <1>2, <1>3, <1>4, <1>5, <1>6, <1>7, <1>8, <1>9,
        <1>10, <1>11, <1>12, <1>13, <1>14, <1>15, <1>16, <1>17,
        <1>18, <1>19, <1>20, <1>21, <1>22, <1>23, <1>24, <1>25, <1>26
    DEF Next, ApiStart, ApiContinue, Worker, Failure, Environment

\* Every run is paid for by a delivery to the owner of the action.
LEMMA RunsStep ==
    ASSUME TypeOK, PhaseInv, OwnerInv, RunsInv, [Next]_vars
    PROVE  RunsInv'
<1> USE ActionsAssumption, LossesAssumption DEF TypeOK, PhaseInv, OwnerInv, RunsInv, Owner,
        DispatchersOf, Granted, Actions, rowVars, restOfRow, reqVars, taskVars, cbVars, histVars, Goto
<1>1. ASSUME NEW r \in Requests, NEW a \in Destructive, RequestDestructive(r, a) PROVE RunsInv'
    BY <1>1 DEF RequestDestructive
<1>2. ASSUME NEW r \in Requests, NEW a \in Destructive, ApproveStart(r, a) PROVE RunsInv'
    BY <1>2 DEF ApproveStart
<1>3. ASSUME NEW r \in Requests, NEW a \in Destructive, RejectAction(r, a) PROVE RunsInv'
    BY <1>3 DEF RejectAction
<1>4. ASSUME NEW r \in Requests, NEW a \in Immediate, RequestImmediate(r, a) PROVE RunsInv'
    BY <1>4 DEF RequestImmediate
<1>5. ASSUME NEW r \in Requests, SendApprovalEmail(r) PROVE RunsInv'
    BY <1>5 DEF SendApprovalEmail
<1>6. ASSUME NEW r \in Requests, ApproveClaim(r) PROVE RunsInv'
    BY <1>6 DEF ApproveClaim, Claimable
<1>7. ASSUME NEW r \in Requests, ApproveLost(r) PROVE RunsInv'
    BY <1>7 DEF ApproveLost
<1>8. ASSUME NEW r \in Requests, ApproveSettle(r) PROVE RunsInv'
    BY <1>8 DEF ApproveSettle
<1>9. ASSUME NEW r \in Requests, ApproveRefuse(r) PROVE RunsInv'
    BY <1>9 DEF ApproveRefuse
<1>10. ASSUME NEW r \in Requests, ApproveDispatch(r) PROVE RunsInv'
    <2>1. DispatchersOf(act[r]) = {} /\ runs[act[r]] = 0
        <3>1. Owner(r) /\ task[r] = "none" /\ act[r] \in Destructive
            BY <1>10 DEF ApproveDispatch
        <3>2. \A s \in Requests : act[s] = act[r] /\ task[s] # "none" => s = r
            BY <3>1
        <3>3. DispatchersOf(act[r]) = {}
            BY <3>1, <3>2
        <3>4. runs[act[r]] \in Nat
            BY <3>1
        <3>5. ~(runs[act[r]] > 0)
            <4> HIDE DEF DispatchersOf
            <4> QED BY <3>1, <3>3
        <3> QED BY <3>3, <3>4, <3>5
    <2>2. \A a \in Destructive : a # act[r] => DispatchersOf(a)' = DispatchersOf(a)
        BY <1>10 DEF ApproveDispatch
    <2>3. DispatchersOf(act[r])' = {r}
        BY <1>10, <2>1 DEF ApproveDispatch
    <2>4. \A t \in Requests : t # r => task'[t] = task[t]
        BY <1>10 DEF ApproveDispatch
    <2> QED BY <1>10, <2>1, <2>2, <2>3, <2>4 DEF ApproveDispatch
<1>11. ASSUME NEW r \in Requests, ApproveExecuting(r) PROVE RunsInv'
    BY <1>11 DEF ApproveExecuting
<1>12. ASSUME NEW r \in Requests, TaskStart(r) PROVE RunsInv'
    BY <1>12 DEF TaskStart
<1>13. ASSUME NEW r \in Requests, RunSaltCmd(r) PROVE RunsInv'
    BY <1>13 DEF RunSaltCmd
<1>14. ASSUME NEW r \in Requests, TaskRaise(r) PROVE RunsInv'
    BY <1>14 DEF TaskRaise
<1>15. ASSUME NEW r \in Requests, TaskLink(r) PROVE RunsInv'
    BY <1>15 DEF TaskLink
<1>16. ASSUME NEW r \in Requests, TaskAck(r) PROVE RunsInv'
    BY <1>16 DEF TaskAck
<1>17. ASSUME NEW r \in Requests, NEW n \in Tries, FinalizeCheck(r, n) PROVE RunsInv'
    BY <1>17 DEF FinalizeCheck
<1>18. ASSUME NEW r \in Requests, NEW n \in Tries, FinalizeWrite(r, n) PROVE RunsInv'
    BY <1>18 DEF FinalizeWrite
<1>19. ASSUME NEW r \in Requests, ApiCrash(r) PROVE RunsInv'
    BY <1>19 DEF ApiCrash
<1>20. ASSUME NEW r \in Requests, TaskLost(r) PROVE RunsInv'
    BY <1>20 DEF TaskLost
<1>21. ASSUME NEW r \in Requests, NEW n \in Tries, FinalizeLost(r, n) PROVE RunsInv'
    BY <1>21 DEF FinalizeLost
<1>22. CASE Reap
    BY <1>22 DEF Reap
<1>23. ASSUME NEW a \in Actions, ExpiryPasses(a) PROVE RunsInv'
    BY <1>23 DEF ExpiryPasses
<1>24. ASSUME NEW a \in Actions, ExecutedAges(a) PROVE RunsInv'
    BY <1>24 DEF ExecutedAges
<1>25. ASSUME NEW a \in Actions, DeleteNode(a) PROVE RunsInv'
    BY <1>25 DEF DeleteNode
<1>26. CASE UNCHANGED vars
    BY <1>26 DEF vars
<1> QED BY <1>1, <1>2, <1>3, <1>4, <1>5, <1>6, <1>7, <1>8, <1>9,
        <1>10, <1>11, <1>12, <1>13, <1>14, <1>15, <1>16, <1>17,
        <1>18, <1>19, <1>20, <1>21, <1>22, <1>23, <1>24, <1>25, <1>26
    DEF Next, ApiStart, ApiContinue, Worker, Failure, Environment

\* An "ok" comes from Salt, and only an "ok" makes a row executed.
LEMMA AnswerStep ==
    ASSUME TypeOK, PhaseInv, CallbackInv, AnswerInv, [Next]_vars
    PROVE  AnswerInv'
<1> USE ActionsAssumption DEF TypeOK, PhaseInv, CallbackInv, AnswerInv, Answer, Actions,
        rowVars, restOfRow, reqVars, taskVars, cbVars, histVars, Goto
<1>1. ASSUME NEW r \in Requests, NEW a \in Destructive, RequestDestructive(r, a) PROVE AnswerInv'
    BY <1>1 DEF RequestDestructive
<1>2. ASSUME NEW r \in Requests, NEW a \in Destructive, ApproveStart(r, a) PROVE AnswerInv'
    BY <1>2 DEF ApproveStart
<1>3. ASSUME NEW r \in Requests, NEW a \in Destructive, RejectAction(r, a) PROVE AnswerInv'
    BY <1>3 DEF RejectAction
<1>4. ASSUME NEW r \in Requests, NEW a \in Immediate, RequestImmediate(r, a) PROVE AnswerInv'
    BY <1>4 DEF RequestImmediate
<1>5. ASSUME NEW r \in Requests, SendApprovalEmail(r) PROVE AnswerInv'
    BY <1>5 DEF SendApprovalEmail
<1>6. ASSUME NEW r \in Requests, ApproveClaim(r) PROVE AnswerInv'
    BY <1>6 DEF ApproveClaim
<1>7. ASSUME NEW r \in Requests, ApproveLost(r) PROVE AnswerInv'
    BY <1>7 DEF ApproveLost
<1>8. ASSUME NEW r \in Requests, ApproveSettle(r) PROVE AnswerInv'
    BY <1>8 DEF ApproveSettle
<1>9. ASSUME NEW r \in Requests, ApproveRefuse(r) PROVE AnswerInv'
    BY <1>9 DEF ApproveRefuse
<1>10. ASSUME NEW r \in Requests, ApproveDispatch(r) PROVE AnswerInv'
    BY <1>10 DEF ApproveDispatch
<1>11. ASSUME NEW r \in Requests, ApproveExecuting(r) PROVE AnswerInv'
    BY <1>11 DEF ApproveExecuting
<1>12. ASSUME NEW r \in Requests, TaskStart(r) PROVE AnswerInv'
    BY <1>12 DEF TaskStart
<1>13. ASSUME NEW r \in Requests, RunSaltCmd(r) PROVE AnswerInv'
    BY <1>13 DEF RunSaltCmd
<1>14. ASSUME NEW r \in Requests, TaskRaise(r) PROVE AnswerInv'
    BY <1>14 DEF TaskRaise
<1>15. ASSUME NEW r \in Requests, TaskLink(r) PROVE AnswerInv'
    <2>1. \A t \in Requests, n \in Tries :
              result'[t][n] \in {result[t][n], answer[t]}
        <3>1. CASE act[r] \in Destructive
            <4>1. result' = [result EXCEPT ![r] = [result[r] EXCEPT ![try[r]] = answer[r]]]
                BY <1>15, <3>1 DEF TaskLink
            <4> QED BY <4>1
        <3>2. CASE act[r] \notin Destructive
            BY <1>15, <3>2 DEF TaskLink
        <3> QED BY <3>1, <3>2
    <2> QED BY <1>15, <2>1 DEF TaskLink
<1>16. ASSUME NEW r \in Requests, TaskAck(r) PROVE AnswerInv'
    BY <1>16 DEF TaskAck
<1>17. ASSUME NEW r \in Requests, NEW n \in Tries, FinalizeCheck(r, n) PROVE AnswerInv'
    BY <1>17 DEF FinalizeCheck
<1>18. ASSUME NEW r \in Requests, NEW n \in Tries, FinalizeWrite(r, n) PROVE AnswerInv'
    BY <1>18 DEF FinalizeWrite, StatusFromSaltResult
<1>19. ASSUME NEW r \in Requests, ApiCrash(r) PROVE AnswerInv'
    BY <1>19 DEF ApiCrash
<1>20. ASSUME NEW r \in Requests, TaskLost(r) PROVE AnswerInv'
    BY <1>20 DEF TaskLost
<1>21. ASSUME NEW r \in Requests, NEW n \in Tries, FinalizeLost(r, n) PROVE AnswerInv'
    BY <1>21 DEF FinalizeLost
<1>22. CASE Reap
    BY <1>22 DEF Reap, Reaped, ReapsExecuting, ReapsPending
<1>23. ASSUME NEW a \in Actions, ExpiryPasses(a) PROVE AnswerInv'
    BY <1>23 DEF ExpiryPasses
<1>24. ASSUME NEW a \in Actions, ExecutedAges(a) PROVE AnswerInv'
    BY <1>24 DEF ExecutedAges
<1>25. ASSUME NEW a \in Actions, DeleteNode(a) PROVE AnswerInv'
    BY <1>25 DEF DeleteNode
<1>26. CASE UNCHANGED vars
    BY <1>26 DEF vars
<1> QED BY <1>1, <1>2, <1>3, <1>4, <1>5, <1>6, <1>7, <1>8, <1>9,
        <1>10, <1>11, <1>12, <1>13, <1>14, <1>15, <1>16, <1>17,
        <1>18, <1>19, <1>20, <1>21, <1>22, <1>23, <1>24, <1>25, <1>26
    DEF Next, ApiStart, ApiContinue, Worker, Failure, Environment

-----------------------------------------------------------------------------
GateIInv ==
    TypeOK /\ PhaseInv /\ CallbackInv /\ OwnerInv /\ TryInv /\ RunsInv /\ AnswerInv

\* The inductive invariant holds at first ...
LEMMA GateInit == Init => GateIInv
<1> SUFFICES ASSUME Init PROVE GateIInv
    OBVIOUS
<1> (CHOOSE a \in Actions : TRUE) \in Actions
    BY ActionsAssumption
<1>1. TypeOK
    BY LossesAssumption DEF Init, TypeOK, Status, ExecutedAt, PC, TaskState, CallbackState, Answer
<1>2. PhaseInv /\ CallbackInv /\ OwnerInv
    BY DEF Init, PhaseInv, CallbackInv, OwnerInv, Owner
<1>3. TryInv /\ RunsInv /\ AnswerInv
    BY LossesAssumption DEF Init, TryInv, RunsInv, DispatchersOf, AnswerInv, Actions
<1> QED BY <1>1, <1>2, <1>3 DEF GateIInv

\* ... and every step of the gate keeps it.
LEMMA GateStep == GateIInv /\ [Next]_vars => GateIInv'
BY TypeStep, PhaseStep, CallbackStep, OwnerStep, RunsStep, AnswerStep DEF GateIInv

\* Every behaviour of the gate satisfies its inductive invariant.
THEOREM GateInvariant == Spec => []GateIInv
BY GateInit, GateStep, PTL DEF Spec

\* Every variable of the gate keeps its type: in particular a callback is
\* only ever linked to a delivery that took place.
THEOREM TypeCorrect == Spec => []TypeOK
<1> GateIInv => TypeOK
    BY DEF GateIInv
<1> QED BY GateInvariant, PTL

\* At most one approval of a link sends its command: two senders would both
\* own the action.
THEOREM DispatchesOnce == Spec => []DispatchedOnce
<1> GateIInv => DispatchedOnce
    BY DEF GateIInv, OwnerInv, Owner, DispatchedOnce, DispatchersOf
<1> QED BY GateInvariant, PTL

\* Only approved commands reach a node: what ran was sent by an owner.
THEOREM RunsOnlyApproved == Spec => []OnlyApprovedRuns
<1> GateIInv => OnlyApprovedRuns
    BY DEF GateIInv, OwnerInv, Owner, Granted, RunsInv, OnlyApprovedRuns, DispatchersOf
<1> QED BY GateInvariant, PTL

\* A command runs at most once more than workers were lost.
THEOREM RerunsAreRedeliveries == Spec => []RerunsOnlyAfterLoss
<1>1. GateIInv => RerunsOnlyAfterLoss
    <2> SUFFICES ASSUME GateIInv, NEW a \in Destructive PROVE runs[a] <= 1 + losses
        BY DEF RerunsOnlyAfterLoss
    <2> runs[a] \in Nat /\ losses \in Nat
        BY LossesAssumption DEF GateIInv, TypeOK, Actions
    <2>1. CASE runs[a] = 0
        BY <2>1
    <2>2. CASE runs[a] > 0
        <3>1. PICK r \in DispatchersOf(a) : TRUE
            BY <2>2 DEF GateIInv, RunsInv
        <3>2. r \in Requests /\ try[r] \in Nat
            BY <3>1, LossesAssumption DEF GateIInv, TypeOK, DispatchersOf
        <3>3. runs[a] <= try[r]
            BY <3>1 DEF GateIInv, RunsInv
        <3>4. try[r] <= losses + 1
            BY <3>2 DEF GateIInv, TryInv
        <3> QED BY <3>2, <3>3, <3>4
    <2> QED BY <2>1, <2>2
<1> QED BY <1>1, GateInvariant, PTL

\* A row says executed only for an answer of Salt.
THEOREM ExecutedIsAnswered == Spec => []ExecutedWasAnswered
<1> GateIInv => ExecutedWasAnswered
    BY DEF GateIInv, AnswerInv, ExecutedWasAnswered
<1> QED BY GateInvariant, PTL

\* No owner, so no command: a step leaves a denied row alone.
LEMMA DenialStep ==
    ASSUME GateIInv, NEW d \in Destructive, row[d] \in {"rejected", "expired"}, [Next]_vars
    PROVE  row'[d] = row[d] /\ runs'[d] = runs[d]
<1> USE ActionsAssumption DEF GateIInv, TypeOK, PhaseInv, CallbackInv, OwnerInv, Owner, Granted,
        Actions, rowVars, restOfRow, reqVars, taskVars, cbVars, histVars, Goto
<1>1. ASSUME NEW r \in Requests, NEW a \in Destructive, RequestDestructive(r, a) PROVE row'[d] = row[d] /\ runs'[d] = runs[d]
    BY <1>1 DEF RequestDestructive
<1>2. ASSUME NEW r \in Requests, NEW a \in Destructive, ApproveStart(r, a) PROVE row'[d] = row[d] /\ runs'[d] = runs[d]
    BY <1>2 DEF ApproveStart
<1>3. ASSUME NEW r \in Requests, NEW a \in Destructive, RejectAction(r, a) PROVE row'[d] = row[d] /\ runs'[d] = runs[d]
    BY <1>3 DEF RejectAction
<1>4. ASSUME NEW r \in Requests, NEW a \in Immediate, RequestImmediate(r, a) PROVE row'[d] = row[d] /\ runs'[d] = runs[d]
    BY <1>4 DEF RequestImmediate
<1>5. ASSUME NEW r \in Requests, SendApprovalEmail(r) PROVE row'[d] = row[d] /\ runs'[d] = runs[d]
    BY <1>5 DEF SendApprovalEmail
<1>6. ASSUME NEW r \in Requests, ApproveClaim(r) PROVE row'[d] = row[d] /\ runs'[d] = runs[d]
    BY <1>6 DEF ApproveClaim, Claimable
<1>7. ASSUME NEW r \in Requests, ApproveLost(r) PROVE row'[d] = row[d] /\ runs'[d] = runs[d]
    BY <1>7 DEF ApproveLost
<1>8. ASSUME NEW r \in Requests, ApproveSettle(r) PROVE row'[d] = row[d] /\ runs'[d] = runs[d]
    BY <1>8 DEF ApproveSettle
<1>9. ASSUME NEW r \in Requests, ApproveRefuse(r) PROVE row'[d] = row[d] /\ runs'[d] = runs[d]
    BY <1>9 DEF ApproveRefuse
<1>10. ASSUME NEW r \in Requests, ApproveDispatch(r) PROVE row'[d] = row[d] /\ runs'[d] = runs[d]
    BY <1>10 DEF ApproveDispatch
<1>11. ASSUME NEW r \in Requests, ApproveExecuting(r) PROVE row'[d] = row[d] /\ runs'[d] = runs[d]
    BY <1>11 DEF ApproveExecuting
<1>12. ASSUME NEW r \in Requests, TaskStart(r) PROVE row'[d] = row[d] /\ runs'[d] = runs[d]
    BY <1>12 DEF TaskStart
<1>13. ASSUME NEW r \in Requests, RunSaltCmd(r) PROVE row'[d] = row[d] /\ runs'[d] = runs[d]
    <2>1. act[r] # d
        <3> SUFFICES ASSUME act[r] = d PROVE FALSE
            OBVIOUS
        <3>1. Owner(r)
            BY <1>13 DEF RunSaltCmd
        <3>2. Granted(d)
            BY <3>1
        <3> QED BY <3>2
    <2> QED BY <1>13, <2>1 DEF RunSaltCmd
<1>14. ASSUME NEW r \in Requests, TaskRaise(r) PROVE row'[d] = row[d] /\ runs'[d] = runs[d]
    BY <1>14 DEF TaskRaise
<1>15. ASSUME NEW r \in Requests, TaskLink(r) PROVE row'[d] = row[d] /\ runs'[d] = runs[d]
    BY <1>15 DEF TaskLink
<1>16. ASSUME NEW r \in Requests, TaskAck(r) PROVE row'[d] = row[d] /\ runs'[d] = runs[d]
    BY <1>16 DEF TaskAck
<1>17. ASSUME NEW r \in Requests, NEW n \in Tries, FinalizeCheck(r, n) PROVE row'[d] = row[d] /\ runs'[d] = runs[d]
    BY <1>17 DEF FinalizeCheck
<1>18. ASSUME NEW r \in Requests, NEW n \in Tries, FinalizeWrite(r, n) PROVE row'[d] = row[d] /\ runs'[d] = runs[d]
    BY <1>18 DEF FinalizeWrite
<1>19. ASSUME NEW r \in Requests, ApiCrash(r) PROVE row'[d] = row[d] /\ runs'[d] = runs[d]
    BY <1>19 DEF ApiCrash
<1>20. ASSUME NEW r \in Requests, TaskLost(r) PROVE row'[d] = row[d] /\ runs'[d] = runs[d]
    BY <1>20 DEF TaskLost
<1>21. ASSUME NEW r \in Requests, NEW n \in Tries, FinalizeLost(r, n) PROVE row'[d] = row[d] /\ runs'[d] = runs[d]
    BY <1>21 DEF FinalizeLost
<1>22. CASE Reap
    BY <1>22 DEF Reap, Reaped, ReapsExecuting, ReapsPending
<1>23. ASSUME NEW a \in Actions, ExpiryPasses(a) PROVE row'[d] = row[d] /\ runs'[d] = runs[d]
    BY <1>23 DEF ExpiryPasses
<1>24. ASSUME NEW a \in Actions, ExecutedAges(a) PROVE row'[d] = row[d] /\ runs'[d] = runs[d]
    BY <1>24 DEF ExecutedAges
<1>25. ASSUME NEW a \in Actions, DeleteNode(a) PROVE row'[d] = row[d] /\ runs'[d] = runs[d]
    BY <1>25 DEF DeleteNode
<1>26. CASE UNCHANGED vars
    BY <1>26 DEF vars
<1> QED BY <1>1, <1>2, <1>3, <1>4, <1>5, <1>6, <1>7, <1>8, <1>9,
        <1>10, <1>11, <1>12, <1>13, <1>14, <1>15, <1>16, <1>17,
        <1>18, <1>19, <1>20, <1>21, <1>22, <1>23, <1>24, <1>25, <1>26
    DEF Next, ApiStart, ApiContinue, Worker, Failure, Environment

\* A rejected or expired row stays so, and its command no longer runs.
THEOREM DenialsAreFinal == Spec => DenialIsFinal
<1>1. GateIInv /\ [Next]_vars =>
          [\A a \in Destructive : row[a] \in {"rejected", "expired"} =>
              row'[a] = row[a] /\ runs'[a] = runs[a]]_vars
    BY DenialStep
<1> QED BY <1>1, GateInvariant, PTL DEF Spec, DenialIsFinal

-----------------------------------------------------------------------------
(* The gate implements ApprovalContract.                                   *)

Decided(a) == DecisionOf(a)' = DecisionOf(a)
Sent(a) == DispatchersOf(a)' = DispatchersOf(a)

\* A step that changes neither the decisions nor the senders is a stutter.
LEMMA Stutters ==
    ASSUME \A a \in Destructive : Decided(a) /\ Sent(a)
    PROVE  UNCHANGED Contract!vars
BY DEF Decided, Sent, Contract!vars

\* A step that expires or rejects rows nobody owns is a denial.
LEMMA Denies ==
    ASSUME NEW D \in SUBSET Destructive,
           \A a \in D : DispatchersOf(a) = {} /\ DecisionOf(a)' = "denied",
           \A a \in Destructive \ D : Decided(a),
           \A a \in Destructive : Sent(a)
    PROVE  Contract!Next
<1>1. Contract!Deny(D)
    BY DEF Decided, Sent, Contract!Deny
<1> QED BY <1>1 DEF Contract!Next

\* The steps that leave the rows and the tasks as they are.
LEMMA QuietStep ==
    ASSUME TypeOK, UNCHANGED row,
           \A r \in Requests : (task[r] # "none") = (task'[r] # "none"),
           \A r \in Requests : task[r] # "none" => act'[r] = act[r]
    PROVE  UNCHANGED Contract!vars
<1>1. \A a \in Destructive : Decided(a) /\ Sent(a)
    BY DEF Decided, Sent, DecisionOf, DispatchersOf
<1> QED BY <1>1, Stutters

\* A step of the gate of node actions is a step of the contract or none.
LEMMA ContractStep == GateIInv /\ [Next]_vars => [Contract!Next]_Contract!vars
<1> SUFFICES ASSUME GateIInv, [Next]_vars
             PROVE  Contract!Next \/ UNCHANGED Contract!vars
    OBVIOUS
<1> USE DEF GateIInv, rowVars, restOfRow, reqVars, taskVars, cbVars, histVars, Goto
<1>1. ASSUME NEW r \in Requests, NEW a \in Destructive, RequestDestructive(r, a)
      PROVE  UNCHANGED Contract!vars
    <2>1. task[r] = "none"
        BY <1>1 DEF PhaseInv, RequestDestructive
    <2>2. \A b \in Destructive : Decided(b) /\ Sent(b)
        BY <1>1, <2>1 DEF RequestDestructive, Decided, Sent, DecisionOf, DispatchersOf, TypeOK,
            Actions
    <2> QED BY <2>2, Stutters
<1>2. ASSUME NEW r \in Requests, NEW a \in Destructive, ApproveStart(r, a)
      PROVE  UNCHANGED Contract!vars
    BY <1>2, QuietStep DEF ApproveStart, PhaseInv, TypeOK
<1>3. ASSUME NEW r \in Requests, NEW a \in Destructive, RejectAction(r, a)
      PROVE  Contract!Next
    <2> DEFINE D == {b \in {a} : row[b] = "pending"}
    <2>1. task[r] = "none"
        BY <1>3 DEF PhaseInv, RejectAction
    <2>2. \A b \in D : DispatchersOf(b) = {} /\ DecisionOf(b)' = "denied"
        BY <1>3 DEF RejectAction, OwnerInv, Owner, Granted, DispatchersOf, DecisionOf, TypeOK,
            Actions
    <2>3. \A b \in Destructive \ D : Decided(b)
        BY <1>3 DEF RejectAction, Decided, DecisionOf, TypeOK, Actions
    <2>4. \A b \in Destructive : Sent(b)
        BY <1>3, <2>1 DEF RejectAction, Sent, DispatchersOf, TypeOK
    <2>5. D \in SUBSET Destructive
        OBVIOUS
    <2> HIDE DEF D
    <2> QED BY <2>2, <2>3, <2>4, <2>5, Denies
<1>4. ASSUME NEW r \in Requests, NEW a \in Immediate, RequestImmediate(r, a)
      PROVE  UNCHANGED Contract!vars
    <2>1. task[r] = "none"
        BY <1>4 DEF PhaseInv, RequestImmediate
    <2>2. \A b \in Destructive : Decided(b) /\ Sent(b)
        BY <1>4, <2>1, ActionsAssumption
        DEF RequestImmediate, Decided, Sent, DecisionOf, DispatchersOf, TypeOK
    <2> QED BY <2>2, Stutters
<1>5. ASSUME NEW r \in Requests, ApproveClaim(r) PROVE Contract!Next
    <2>1. PICK a \in Destructive : a = act[r] /\ row[a] = "pending"
        BY <1>5 DEF PhaseInv, ApproveClaim, Claimable
    <2>2. DecisionOf(a) = "open" /\ DecisionOf(a)' = "granted"
        BY <1>5, <2>1 DEF ApproveClaim, DecisionOf, TypeOK, Actions
    <2>3. \A b \in Destructive \ {a} : Decided(b)
        BY <1>5, <2>1 DEF ApproveClaim, Decided, DecisionOf, TypeOK, Actions
    <2>4. \A b \in Destructive : Sent(b)
        BY <1>5 DEF ApproveClaim, Sent, DispatchersOf
    <2>5. Contract!Grant(a)
        BY <2>2, <2>3, <2>4 DEF Contract!Grant, Decided, Sent
    <2> QED BY <2>5 DEF Contract!Next
<1>6. ASSUME NEW r \in Requests, ApproveSettle(r) PROVE Contract!Next
    <2> DEFINE D == {b \in {act[r]} : row[b] = "pending" /\ late[r]}
    <2>1. act[r] \in Destructive
        BY <1>6 DEF PhaseInv, ApproveSettle
    <2>2. \A b \in D : DispatchersOf(b) = {} /\ DecisionOf(b)' = "denied"
        BY <1>6, <2>1 DEF ApproveSettle, OwnerInv, Owner, Granted, DispatchersOf, DecisionOf,
            TypeOK, Actions
    <2>3. \A b \in Destructive \ D : Decided(b)
        BY <1>6 DEF ApproveSettle, Decided, DecisionOf, TypeOK, Actions
    <2>4. \A b \in Destructive : Sent(b)
        BY <1>6 DEF ApproveSettle, Sent, DispatchersOf
    <2>5. D \in SUBSET Destructive
        BY <2>1
    <2> HIDE DEF D
    <2> QED BY <2>2, <2>3, <2>4, <2>5, Denies
<1>7. ASSUME NEW r \in Requests, ApproveDispatch(r) PROVE Contract!Next
    <2>1. PICK a \in Destructive : a = act[r] /\ Owner(r) /\ task[r] = "none"
        BY <1>7 DEF PhaseInv, ApproveDispatch, Owner
    <2>2. DecisionOf(a) = "granted"
        BY <2>1 DEF OwnerInv, Granted, DecisionOf
    <2>3. \A s \in Requests : act[s] = a /\ task[s] # "none" => s = r
        BY <2>1 DEF OwnerInv, Owner
    <2>4. DispatchersOf(a) = {}
        BY <2>1, <2>3 DEF DispatchersOf
    <2>5. DispatchersOf(a)' = {r}
        BY <1>7, <2>1, <2>3 DEF ApproveDispatch, DispatchersOf, TypeOK
    <2>6. \A b \in Destructive \ {a} : Sent(b)
        BY <1>7, <2>1 DEF ApproveDispatch, Sent, DispatchersOf, TypeOK
    <2>7. \A b \in Destructive : Decided(b)
        BY <1>7 DEF ApproveDispatch, Decided, DecisionOf
    <2>8. Contract!Execute(a, r)
        BY <2>2, <2>4, <2>5, <2>6, <2>7 DEF Contract!Execute, Decided, Sent
    <2> QED BY <2>8 DEF Contract!Next
<1>8. ASSUME NEW r \in Requests, ApproveRefuse(r) \/ ApproveExecuting(r)
      PROVE  UNCHANGED Contract!vars
    <2>1. Owner(r)
        BY <1>8 DEF PhaseInv, ApproveRefuse, ApproveExecuting, Owner
    <2>2. Granted(act[r])
        BY <2>1 DEF OwnerInv
    <2>3. \A b \in Destructive : Decided(b) /\ Sent(b)
        BY <1>8, <2>2 DEF ApproveRefuse, ApproveExecuting, Granted, Decided, Sent, DecisionOf,
            DispatchersOf, TypeOK, Actions
    <2> QED BY <2>3, Stutters
<1>9. ASSUME NEW r \in Requests, NEW n \in Tries, FinalizeWrite(r, n)
      PROVE  UNCHANGED Contract!vars
    <2>1. Owner(r)
        BY <1>9 DEF CallbackInv, FinalizeWrite, Owner
    <2>2. Granted(act[r])
        BY <2>1 DEF OwnerInv
    <2>3. \A b \in Destructive : Decided(b) /\ Sent(b)
        BY <1>9, <2>2 DEF FinalizeWrite, StatusFromSaltResult, Granted, Decided, Sent,
            DecisionOf, DispatchersOf, TypeOK, Actions
    <2> QED BY <2>3, Stutters
<1>10. CASE Reap
    <2> DEFINE D == {a \in Destructive : ReapsPending(row[a], lapsed[a])}
    <2>1. \A b \in D : DispatchersOf(b) = {} /\ DecisionOf(b)' = "denied"
        BY <1>10 DEF Reap, Reaped, ReapsExecuting, ReapsPending, OwnerInv, Owner, Granted,
            DispatchersOf, DecisionOf, Actions
    <2>2. \A b \in Destructive \ D : Decided(b)
        BY <1>10 DEF Reap, Reaped, ReapsExecuting, ReapsPending, Decided, DecisionOf, Actions
    <2>3. \A b \in Destructive : Sent(b)
        BY <1>10 DEF Reap, Sent, DispatchersOf
    <2> QED BY <2>1, <2>2, <2>3, Denies
<1>11. ASSUME NEW r \in Requests,
              SendApprovalEmail(r) \/ ApproveLost(r) \/ ApiCrash(r)
       PROVE  UNCHANGED Contract!vars
    BY <1>11, QuietStep DEF SendApprovalEmail, ApproveLost, ApiCrash
<1>12. ASSUME NEW r \in Requests,
              \/ TaskStart(r) \/ RunSaltCmd(r) \/ TaskRaise(r) \/ TaskLink(r) \/ TaskAck(r)
              \/ TaskLost(r)
       PROVE  UNCHANGED Contract!vars
    BY <1>12, QuietStep
    DEF TaskStart, RunSaltCmd, TaskRaise, TaskLink, TaskAck, TaskLost, TypeOK
<1>13. ASSUME NEW r \in Requests, NEW n \in Tries, FinalizeCheck(r, n) \/ FinalizeLost(r, n)
       PROVE  UNCHANGED Contract!vars
    BY <1>13, QuietStep DEF FinalizeCheck, FinalizeLost
<1>14. ASSUME NEW a \in Actions, Environment(a) PROVE UNCHANGED Contract!vars
    BY <1>14, QuietStep DEF Environment, ExpiryPasses, ExecutedAges, DeleteNode
<1>15. CASE UNCHANGED vars
    BY <1>15, QuietStep DEF vars
<1> QED BY <1>1, <1>2, <1>3, <1>4, <1>5, <1>6, <1>7, <1>8, <1>9, <1>10, <1>11, <1>12,
        <1>13, <1>14, <1>15 DEF Next, ApiStart, ApiContinue, Worker, Failure

\* The gate does nothing the contract forbids: one grant, one execution of
\* it, and denials only of what was not executed.
THEOREM GateImplementsContract == Spec => ImplementsContract
<1>1. Init => Contract!Init
    BY DEF Init, Contract!Init, DecisionOf, DispatchersOf, Actions
<1> QED BY <1>1, ContractStep, GateInvariant, PTL DEF Spec, ImplementsContract, Contract!Spec
=============================================================================
