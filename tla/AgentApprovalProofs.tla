------------------------ MODULE AgentApprovalProofs ------------------------
(***************************************************************************)
(* Proofs about AgentApproval, for any sets of people, proposals and       *)
(* requests, any threshold, and requests that overlap or not.  The         *)
(* argument: signatures are only ever added, so what a request saw of them *)
(* on its stale copy of the row is still true when it decides.             *)
(***************************************************************************)
EXTENDS AgentApproval, TLAPS

\* Somebody other than the requester approved and, where it is required,
\* somebody else, an administrator, co-signed.
Signed(a) ==
    \E u \in approvers[a] \ {requestedBy[a]} :
        CoSignRequired(a) => \E v \in coSigners[a] \cap Admins : v # u

\* The columns of the row name an approver and, where required, a co-signer.
Named(a) == approvedBy[a] # NoOne /\ (CoSignRequired(a) => coSignedBy[a] # NoOne)

\* An action that is not proposed yet has no history and no request.
AbsentInv ==
    /\ \A a \in Actions : row[a] = "absent" => executedBy[a] = {} /\ approvedBy[a] = NoOne
    /\ \A r \in Requests :
          IF pc[r] = "idle" THEN seen[r].status = "absent" ELSE row[act[r]] # "absent"

\* What the columns of a row say of its signatures.
RowInv ==
    \A a \in Actions :
        /\ approvedBy[a] # NoOne => approvedBy[a] \in approvers[a] \ {requestedBy[a]}
        /\ coSignedBy[a] # NoOne => coSignedBy[a] \in Admins
        /\ row[a] = "awaiting_cosign" => approvedBy[a] # NoOne
        /\ row[a] \in {"executing", "executed"} => Named(a)

\* What a request saw, and what it may do, go back to signatures.
RequestInv ==
    \A r \in Requests :
        /\ seen[r].status = "awaiting_cosign" =>
              /\ seen[r].approvedBy \in approvers[act[r]] \ {requestedBy[act[r]]}
              /\ approvedBy[act[r]] # NoOne
        /\ pc[r] \in {"approved", "executing", "ran"} => Signed(act[r]) /\ Named(act[r])

RunInv == \A a \in Actions : executedBy[a] # {} => Signed(a)

\* A request that reports success called a tool that succeeded.
OutcomeInv ==
    /\ \A r \in Requests : pc[r] = "ran" /\ ok[r] => act[r] \in succeeded
    /\ ExecutedSucceeded

IInv == TypeOK /\ AbsentInv /\ RowInv /\ RequestInv /\ RunInv /\ OutcomeInv

\* While requests on one action do not overlap: the request under way acts on
\* the row as it is, but for what the reaper does to any row.
FreshInv ==
    \A r \in Requests :
        /\ pc[r] \in {"approve", "reject"} =>
              /\ \/ row[act[r]] = seen[r].status
                 \/ seen[r].status = "pending" /\ row[act[r]] = "expired"
                 \/ seen[r].status = "executing" /\ row[act[r]] = "failed"
              /\ seen[r].approvedBy = approvedBy[act[r]]
        /\ pc[r] = "approved" => row[act[r]] = "approved"
        /\ pc[r] \in {"executing", "ran"} => row[act[r]] \in {"executing", "failed"}
        /\ pc[r] \in {"approved", "executing"} => executedBy[act[r]] = {}

AloneInv ==
    \A r, s \in Requests :
        pc[r] \in InFlight /\ pc[s] \in InFlight /\ act[r] = act[s] => r = s

\* What a row says of the calls of its tool, and of its signatures.
DecidedInv ==
    \A a \in Actions :
        /\ row[a] = "expired" => lapsed[a]
        /\ row[a] \in {"absent", "pending"} => coSignedBy[a] = NoOne
        /\ coSignedBy[a] # NoOne => coSignedBy[a] # approvedBy[a]
        /\ executedBy[a] # {} => row[a] \in {"executing", "executed", "failed"}
        /\ \A r, s \in executedBy[a] : r = s

SerialInv == serial => AloneInv /\ FreshInv /\ DecidedInv

-----------------------------------------------------------------------------
\* The reaper keeps every row a status, and touches pending and executing
\* rows only.
LEMMA ReapedStatus ==
    ASSUME NEW s \in Status, NEW e \in ExecutedAt, NEW l \in BOOLEAN
    PROVE  Reaped(s, e, l) \in Status /\ Reaped(s, e, l) \in {s, "failed", "expired"}
           /\ (s = "absent" => Reaped(s, e, l) = "absent")
BY DEF Reaped, ReapsExecuting, ReapsPending, Status

\* Every variable keeps its type.
LEMMA TypeStep ==
    ASSUME TypeOK, [Next]_vars
    PROVE  TypeOK'
<1> USE DEF TypeOK, rowVars, restOfRow, signVars, histVars, Goto
<1>1. ASSUME NEW a \in Actions, NEW u \in Users, NEW n \in TargetCounts, CreateProposal(a, u, n)
      PROVE TypeOK'
    BY <1>1 DEF CreateProposal, Status
<1>2. ASSUME NEW r \in Requests, NEW a \in Actions, NEW u \in Users, NEW step \in {"approve", "reject"}, GetAgentAction(r, a, u, step)
      PROVE TypeOK'
    BY <1>2 DEF GetAgentAction, PC
<1>3. ASSUME NEW r \in Requests, ApproveExpired(r) PROVE TypeOK'
    BY <1>3 DEF ApproveExpired, PC, Status
<1>4. ASSUME NEW r \in Requests, FirstApproval(r) PROVE TypeOK'
    <2>1. row' \in [Actions -> Status]
        BY <1>4 DEF FirstApproval, Status
    <2>2. pc' \in [Requests -> PC]
        BY <1>4 DEF FirstApproval, PC
    <2>3. approvedBy' \in [Actions -> Users \cup {NoOne}]
        BY <1>4 DEF FirstApproval
    <2>4. approvers' \in [Actions -> SUBSET Users]
        BY <1>4 DEF FirstApproval
    <2> QED BY <1>4, <2>1, <2>2, <2>3, <2>4 DEF FirstApproval
<1>5. ASSUME NEW r \in Requests, CoSign(r) PROVE TypeOK'
    BY <1>5 DEF CoSign, PC, Status, MayCoSign
<1>6. ASSUME NEW r \in Requests, ApproveRefused(r) PROVE TypeOK'
    BY <1>6 DEF ApproveRefused, PC
<1>7. ASSUME NEW r \in Requests, RejectProposal(r) PROVE TypeOK'
    BY <1>7 DEF RejectProposal, PC, Status
<1>8. ASSUME NEW r \in Requests, ExecuteStart(r) PROVE TypeOK'
    BY <1>8 DEF ExecuteStart, PC, Status
<1>9. ASSUME NEW r \in Requests, DispatchApproved(r) PROVE TypeOK'
    BY <1>9 DEF DispatchApproved, PC
<1>10. ASSUME NEW r \in Requests, ExecuteFinish(r) PROVE TypeOK'
    BY <1>10 DEF ExecuteFinish, PC, Status, ExecutedAt
<1>11. ASSUME NEW r \in Requests, Crash(r) PROVE TypeOK'
    BY <1>11 DEF Crash, PC
<1>12. CASE Reap
    BY <1>12, ReapedStatus DEF Reap
<1>13. ASSUME NEW a \in Actions, ExpiryPasses(a) PROVE TypeOK'
    BY <1>13 DEF ExpiryPasses
<1>14. ASSUME NEW a \in Actions, ExecutedAges(a) PROVE TypeOK'
    BY <1>14 DEF ExecutedAges, ExecutedAt
<1>15. CASE UNCHANGED vars
    BY <1>15 DEF vars
<1> QED BY <1>1, <1>2, <1>3, <1>4, <1>5, <1>6, <1>7, <1>8, <1>9, <1>10,
        <1>11, <1>12, <1>13, <1>14, <1>15
    DEF Next, Continue

\* Nothing happens to an action before it is proposed.
LEMMA AbsentStep ==
    ASSUME TypeOK, AbsentInv, [Next]_vars
    PROVE  AbsentInv'
<1> USE DEF TypeOK, AbsentInv, rowVars, restOfRow, signVars, histVars, Goto
<1>1. ASSUME NEW a \in Actions, NEW u \in Users, NEW n \in TargetCounts, CreateProposal(a, u, n)
      PROVE AbsentInv'
    BY <1>1 DEF CreateProposal
<1>2. ASSUME NEW r \in Requests, NEW a \in Actions, NEW u \in Users, NEW step \in {"approve", "reject"}, GetAgentAction(r, a, u, step)
      PROVE AbsentInv'
    BY <1>2 DEF GetAgentAction
<1>3. ASSUME NEW r \in Requests, ApproveExpired(r) PROVE AbsentInv'
    BY <1>3 DEF ApproveExpired
<1>4. ASSUME NEW r \in Requests, FirstApproval(r) PROVE AbsentInv'
    BY <1>4 DEF FirstApproval, MayApprove, Open
<1>5. ASSUME NEW r \in Requests, CoSign(r) PROVE AbsentInv'
    BY <1>5 DEF CoSign, MayCoSign, Open
<1>6. ASSUME NEW r \in Requests, ApproveRefused(r) PROVE AbsentInv'
    BY <1>6 DEF ApproveRefused
<1>7. ASSUME NEW r \in Requests, RejectProposal(r) PROVE AbsentInv'
    BY <1>7 DEF RejectProposal
<1>8. ASSUME NEW r \in Requests, ExecuteStart(r) PROVE AbsentInv'
    BY <1>8 DEF ExecuteStart
<1>9. ASSUME NEW r \in Requests, DispatchApproved(r) PROVE AbsentInv'
    BY <1>9 DEF DispatchApproved
<1>10. ASSUME NEW r \in Requests, ExecuteFinish(r) PROVE AbsentInv'
    BY <1>10 DEF ExecuteFinish
<1>11. ASSUME NEW r \in Requests, Crash(r) PROVE AbsentInv'
    BY <1>11 DEF Crash, InFlight
<1>12. CASE Reap
    <2>1. \A a \in Actions : row'[a] = Reaped(row[a], executedAt[a], lapsed[a])
        BY <1>12 DEF Reap
    <2>2. \A a \in Actions :
              row'[a] \in {row[a], "failed", "expired"} /\ (row[a] = "absent" => row'[a] = "absent")
        BY <2>1, ReapedStatus
    <2> QED BY <1>12, <2>2 DEF Reap
<1>13. ASSUME NEW a \in Actions, ExpiryPasses(a) PROVE AbsentInv'
    BY <1>13 DEF ExpiryPasses
<1>14. ASSUME NEW a \in Actions, ExecutedAges(a) PROVE AbsentInv'
    BY <1>14 DEF ExecutedAges
<1>15. CASE UNCHANGED vars
    BY <1>15 DEF vars
<1> QED BY <1>1, <1>2, <1>3, <1>4, <1>5, <1>6, <1>7, <1>8, <1>9, <1>10,
        <1>11, <1>12, <1>13, <1>14, <1>15
    DEF Next, Continue

\* A row is never executing before its signatures are in its columns.
LEMMA RowStep ==
    ASSUME TypeOK, AbsentInv, RowInv, RequestInv, [Next]_vars
    PROVE  RowInv'
<1> USE UsersAssumption DEF TypeOK, AbsentInv, RowInv, RequestInv, Named, CoSignRequired,
        rowVars, restOfRow, signVars, histVars, Goto
<1>1. ASSUME NEW a \in Actions, NEW u \in Users, NEW n \in TargetCounts, CreateProposal(a, u, n)
      PROVE RowInv'
    BY <1>1 DEF CreateProposal
<1>2. ASSUME NEW r \in Requests, NEW a \in Actions, NEW u \in Users, NEW step \in {"approve", "reject"}, GetAgentAction(r, a, u, step)
      PROVE RowInv'
    BY <1>2 DEF GetAgentAction
<1>3. ASSUME NEW r \in Requests, ApproveExpired(r) PROVE RowInv'
    BY <1>3 DEF ApproveExpired
<1>4. ASSUME NEW r \in Requests, FirstApproval(r) PROVE RowInv'
    BY <1>4 DEF FirstApproval, MayApprove, Open
<1>5. ASSUME NEW r \in Requests, CoSign(r) PROVE RowInv'
    BY <1>5 DEF CoSign, MayCoSign, Open
<1>6. ASSUME NEW r \in Requests, ApproveRefused(r) PROVE RowInv'
    BY <1>6 DEF ApproveRefused
<1>7. ASSUME NEW r \in Requests, RejectProposal(r) PROVE RowInv'
    BY <1>7 DEF RejectProposal
<1>8. ASSUME NEW r \in Requests, ExecuteStart(r) PROVE RowInv'
    BY <1>8 DEF ExecuteStart
<1>9. ASSUME NEW r \in Requests, DispatchApproved(r) PROVE RowInv'
    BY <1>9 DEF DispatchApproved
<1>10. ASSUME NEW r \in Requests, ExecuteFinish(r) PROVE RowInv'
    BY <1>10 DEF ExecuteFinish
<1>11. ASSUME NEW r \in Requests, Crash(r) PROVE RowInv'
    BY <1>11 DEF Crash
<1>12. CASE Reap
    <2>1. \A a \in Actions : row'[a] = Reaped(row[a], executedAt[a], lapsed[a])
        BY <1>12 DEF Reap
    <2>2. \A a \in Actions :
              row'[a] \in {row[a], "failed", "expired"} /\ (row[a] = "absent" => row'[a] = "absent")
        BY <2>1, ReapedStatus
    <2> QED BY <1>12, <2>2 DEF Reap
<1>13. ASSUME NEW a \in Actions, ExpiryPasses(a) PROVE RowInv'
    BY <1>13 DEF ExpiryPasses
<1>14. ASSUME NEW a \in Actions, ExecutedAges(a) PROVE RowInv'
    BY <1>14 DEF ExecutedAges
<1>15. CASE UNCHANGED vars
    BY <1>15 DEF vars
<1> QED BY <1>1, <1>2, <1>3, <1>4, <1>5, <1>6, <1>7, <1>8, <1>9, <1>10,
        <1>11, <1>12, <1>13, <1>14, <1>15
    DEF Next, Continue

\* A request that goes on to execute has the signatures for it.
LEMMA RequestStep ==
    ASSUME TypeOK, AbsentInv, RowInv, RequestInv, [Next]_vars
    PROVE  RequestInv'
<1> USE UsersAssumption DEF TypeOK, AbsentInv, RowInv, RequestInv, Named, CoSignRequired,
        rowVars, restOfRow, signVars, histVars, Goto, Signed
<1>1. ASSUME NEW a \in Actions, NEW u \in Users, NEW n \in TargetCounts, CreateProposal(a, u, n)
      PROVE RequestInv'
    BY <1>1 DEF CreateProposal
<1>2. ASSUME NEW r \in Requests, NEW a \in Actions, NEW u \in Users, NEW step \in {"approve", "reject"}, GetAgentAction(r, a, u, step)
      PROVE RequestInv'
    BY <1>2 DEF GetAgentAction
<1>3. ASSUME NEW r \in Requests, ApproveExpired(r) PROVE RequestInv'
    BY <1>3 DEF ApproveExpired
<1>4. ASSUME NEW r \in Requests, FirstApproval(r) PROVE RequestInv'
    <2>1. who[r] # requestedBy[act[r]]
        BY <1>4 DEF FirstApproval, MayApprove
    <2>2. \A s \in Requests : Signed(act[s]) => Signed(act[s])'
        BY <1>4 DEF FirstApproval
    <2>3. \A s \in Requests : Named(act[s]) => Named(act[s])'
        BY <1>4 DEF FirstApproval
    <2>4. pc'[r] = "approved" => Signed(act[r])' /\ Named(act[r])'
        <3> SUFFICES ASSUME pc'[r] = "approved" PROVE Signed(act[r])' /\ Named(act[r])'
            OBVIOUS
        <3>1. ~CoSignRequired(act[r])'
            BY <1>4 DEF FirstApproval
        <3>2. who[r] \in approvers'[act'[r]] \ {requestedBy'[act'[r]]}
            BY <1>4, <2>1 DEF FirstApproval
        <3>3. approvedBy'[act'[r]] # NoOne
            BY <1>4 DEF FirstApproval
        <3> QED BY <1>4, <3>1, <3>2, <3>3 DEF FirstApproval
    <2>5. pc'[r] \in {"approved", "done"} /\ \A s \in Requests \ {r} : pc'[s] = pc[s]
        BY <1>4 DEF FirstApproval
    <2>6. \A s \in Requests : seen[s].status = "awaiting_cosign" =>
              /\ seen[s].approvedBy \in approvers'[act[s]] \ {requestedBy[act[s]]}
              /\ approvedBy'[act[s]] # NoOne
        BY <1>4 DEF FirstApproval
    <2>7. UNCHANGED <<act, seen, requestedBy>>
        BY <1>4 DEF FirstApproval
    <2> HIDE DEF Signed, Named
    <2> QED BY <2>2, <2>3, <2>4, <2>5, <2>6, <2>7
<1>5. ASSUME NEW r \in Requests, CoSign(r) PROVE RequestInv'
    BY <1>5 DEF CoSign, MayCoSign, Open
<1>6. ASSUME NEW r \in Requests, ApproveRefused(r) PROVE RequestInv'
    BY <1>6 DEF ApproveRefused
<1>7. ASSUME NEW r \in Requests, RejectProposal(r) PROVE RequestInv'
    BY <1>7 DEF RejectProposal
<1>8. ASSUME NEW r \in Requests, ExecuteStart(r) PROVE RequestInv'
    BY <1>8 DEF ExecuteStart
<1>9. ASSUME NEW r \in Requests, DispatchApproved(r) PROVE RequestInv'
    BY <1>9 DEF DispatchApproved
<1>10. ASSUME NEW r \in Requests, ExecuteFinish(r) PROVE RequestInv'
    BY <1>10 DEF ExecuteFinish
<1>11. ASSUME NEW r \in Requests, Crash(r) PROVE RequestInv'
    BY <1>11 DEF Crash
<1>12. CASE Reap
    <2>1. \A a \in Actions : row'[a] = Reaped(row[a], executedAt[a], lapsed[a])
        BY <1>12 DEF Reap
    <2>2. \A a \in Actions :
              row'[a] \in {row[a], "failed", "expired"} /\ (row[a] = "absent" => row'[a] = "absent")
        BY <2>1, ReapedStatus
    <2> QED BY <1>12, <2>2 DEF Reap
<1>13. ASSUME NEW a \in Actions, ExpiryPasses(a) PROVE RequestInv'
    BY <1>13 DEF ExpiryPasses
<1>14. ASSUME NEW a \in Actions, ExecutedAges(a) PROVE RequestInv'
    BY <1>14 DEF ExecutedAges
<1>15. CASE UNCHANGED vars
    BY <1>15 DEF vars
<1> QED BY <1>1, <1>2, <1>3, <1>4, <1>5, <1>6, <1>7, <1>8, <1>9, <1>10,
        <1>11, <1>12, <1>13, <1>14, <1>15
    DEF Next, Continue

\* A tool runs for a signed action, and signatures are never withdrawn.
LEMMA RunStep ==
    ASSUME TypeOK, AbsentInv, RowInv, RequestInv, RunInv, [Next]_vars
    PROVE  RunInv'
<1> DEFINE Signatures == <<requestedBy, targetCount, approvers, coSigners>>
<1> USE DEF rowVars, restOfRow, signVars, histVars, Goto
<1>1. ASSUME UNCHANGED Signatures, UNCHANGED executedBy PROVE RunInv'
    BY <1>1 DEF RunInv, Signed, CoSignRequired
<1>2. ASSUME NEW r \in Requests, ExecuteStart(r) \/ ExecuteFinish(r) \/ Crash(r) PROVE RunInv'
    BY <1>1, <1>2 DEF ExecuteStart, ExecuteFinish, Crash
<1>3. ASSUME NEW r \in Requests, ApproveExpired(r) \/ ApproveRefused(r) \/ RejectProposal(r)
      PROVE RunInv'
    <2>1. CASE ApproveExpired(r)
        BY <1>1, <2>1 DEF ApproveExpired
    <2>2. CASE ApproveRefused(r)
        BY <1>1, <2>2 DEF ApproveRefused
    <2>3. CASE RejectProposal(r)
        BY <1>1, <2>3 DEF RejectProposal
    <2> QED BY <1>3, <2>1, <2>2, <2>3
<1>4. ASSUME NEW a \in Actions, ExpiryPasses(a) \/ ExecutedAges(a) PROVE RunInv'
    BY <1>1, <1>4 DEF ExpiryPasses, ExecutedAges
<1>5. CASE Reap
    BY <1>1, <1>5 DEF Reap
<1>6. CASE UNCHANGED vars
    BY <1>1, <1>6 DEF vars
<1>7. ASSUME NEW r \in Requests, NEW a \in Actions, NEW u \in Users,
             NEW step \in {"approve", "reject"}, GetAgentAction(r, a, u, step)
      PROVE RunInv'
    BY <1>1, <1>7 DEF GetAgentAction
<1>8. ASSUME NEW a \in Actions, NEW u \in Users, NEW n \in TargetCounts, CreateProposal(a, u, n)
      PROVE RunInv'
    <2>1. executedBy[a] = {} /\ UNCHANGED <<executedBy, approvers, coSigners>>
        BY <1>8 DEF CreateProposal, AbsentInv
    <2>2. \A b \in Actions \ {a} :
              requestedBy'[b] = requestedBy[b] /\ targetCount'[b] = targetCount[b]
        BY <1>8 DEF CreateProposal, TypeOK
    <2> QED BY <2>1, <2>2 DEF RunInv, Signed, CoSignRequired
<1>9. ASSUME NEW r \in Requests, FirstApproval(r) PROVE RunInv'
    <2>1. \A a \in Actions : approvers[a] \subseteq approvers'[a]
        BY <1>9 DEF FirstApproval, TypeOK
    <2>2. UNCHANGED <<requestedBy, targetCount, coSigners, executedBy>>
        BY <1>9 DEF FirstApproval
    <2> QED BY <2>1, <2>2 DEF RunInv, Signed, CoSignRequired
<1>10. ASSUME NEW r \in Requests, CoSign(r) PROVE RunInv'
    <2>1. \A a \in Actions : coSigners[a] \subseteq coSigners'[a]
        BY <1>10 DEF CoSign, TypeOK
    <2>2. UNCHANGED <<requestedBy, targetCount, approvers, executedBy>>
        BY <1>10 DEF CoSign
    <2> QED BY <2>1, <2>2 DEF RunInv, Signed, CoSignRequired
<1>11. ASSUME NEW r \in Requests, DispatchApproved(r) PROVE RunInv'
    <2>1. Signed(act[r])
        BY <1>11 DEF DispatchApproved, RequestInv
    <2>2. \A a \in Actions \ {act[r]} : executedBy'[a] = executedBy[a]
        BY <1>11 DEF DispatchApproved, TypeOK
    <2>3. UNCHANGED Signatures
        BY <1>11 DEF DispatchApproved
    <2> QED BY <2>1, <2>2, <2>3 DEF RunInv, Signed, CoSignRequired
<1> QED BY <1>2, <1>3, <1>4, <1>5, <1>6, <1>7, <1>8, <1>9, <1>10, <1>11
    DEF Next, Continue

\* A row is executed when the tool of its request succeeded.
LEMMA OutcomeStep ==
    ASSUME TypeOK, AbsentInv, OutcomeInv, [Next]_vars
    PROVE  OutcomeInv'
<1> USE DEF TypeOK, AbsentInv, OutcomeInv, ExecutedSucceeded, rowVars, restOfRow, signVars, histVars, Goto
<1>1. ASSUME NEW a \in Actions, NEW u \in Users, NEW n \in TargetCounts, CreateProposal(a, u, n)
      PROVE OutcomeInv'
    BY <1>1 DEF CreateProposal
<1>2. ASSUME NEW r \in Requests, NEW a \in Actions, NEW u \in Users, NEW step \in {"approve", "reject"}, GetAgentAction(r, a, u, step)
      PROVE OutcomeInv'
    BY <1>2 DEF GetAgentAction
<1>3. ASSUME NEW r \in Requests, ApproveExpired(r) PROVE OutcomeInv'
    BY <1>3 DEF ApproveExpired
<1>4. ASSUME NEW r \in Requests, FirstApproval(r) PROVE OutcomeInv'
    BY <1>4 DEF FirstApproval, MayApprove, Open
<1>5. ASSUME NEW r \in Requests, CoSign(r) PROVE OutcomeInv'
    BY <1>5 DEF CoSign, MayCoSign, Open
<1>6. ASSUME NEW r \in Requests, ApproveRefused(r) PROVE OutcomeInv'
    BY <1>6 DEF ApproveRefused
<1>7. ASSUME NEW r \in Requests, RejectProposal(r) PROVE OutcomeInv'
    BY <1>7 DEF RejectProposal
<1>8. ASSUME NEW r \in Requests, ExecuteStart(r) PROVE OutcomeInv'
    BY <1>8 DEF ExecuteStart
<1>9. ASSUME NEW r \in Requests, DispatchApproved(r) PROVE OutcomeInv'
    BY <1>9 DEF DispatchApproved
<1>10. ASSUME NEW r \in Requests, ExecuteFinish(r) PROVE OutcomeInv'
    BY <1>10 DEF ExecuteFinish
<1>11. ASSUME NEW r \in Requests, Crash(r) PROVE OutcomeInv'
    BY <1>11 DEF Crash
<1>12. CASE Reap
    <2>1. \A a \in Actions : row'[a] = Reaped(row[a], executedAt[a], lapsed[a])
        BY <1>12 DEF Reap
    <2>2. \A a \in Actions :
              row'[a] \in {row[a], "failed", "expired"} /\ (row[a] = "absent" => row'[a] = "absent")
        BY <2>1, ReapedStatus
    <2> QED BY <1>12, <2>2 DEF Reap
<1>13. ASSUME NEW a \in Actions, ExpiryPasses(a) PROVE OutcomeInv'
    BY <1>13 DEF ExpiryPasses
<1>14. ASSUME NEW a \in Actions, ExecutedAges(a) PROVE OutcomeInv'
    BY <1>14 DEF ExecutedAges
<1>15. CASE UNCHANGED vars
    BY <1>15 DEF vars
<1> QED BY <1>1, <1>2, <1>3, <1>4, <1>5, <1>6, <1>7, <1>8, <1>9, <1>10,
        <1>11, <1>12, <1>13, <1>14, <1>15
    DEF Next, Continue

-----------------------------------------------------------------------------
\* The inductive invariant holds at first ...
LEMMA AgentInit == Init => IInv
<1> SUFFICES ASSUME Init PROVE IInv
    OBVIOUS
<1> /\ (CHOOSE a \in Actions : TRUE) \in Actions
    /\ (CHOOSE u \in Users : TRUE) \in Users
    /\ (CHOOSE n \in TargetCounts : TRUE) \in TargetCounts
    BY NonEmpty
<1>1. TypeOK
    BY DEF Init, TypeOK, Status, ExecutedAt, PC
<1>2. AbsentInv /\ RowInv /\ RequestInv /\ RunInv /\ OutcomeInv
    BY DEF Init, AbsentInv, RowInv, RequestInv, RunInv, OutcomeInv, ExecutedSucceeded
<1> QED BY <1>1, <1>2 DEF IInv

\* ... and every step keeps it.
LEMMA AgentStep == IInv /\ [Next]_vars => IInv'
BY TypeStep, AbsentStep, RowStep, RequestStep, RunStep, OutcomeStep DEF IInv

\* Every behaviour of the approvals satisfies their inductive invariant.
THEOREM AgentInvariant == Spec => []IInv
BY AgentInit, AgentStep, PTL DEF Spec

\* Every variable keeps its type.
THEOREM TypeCorrect == Spec => []TypeOK
<1> IInv => TypeOK
    BY DEF IInv
<1> QED BY AgentInvariant, PTL

\* No interleaving of approvals on stale rows runs a tool that the required
\* people have not signed for: the races found by the runs repeat an
\* execution, they never skip a signature.
THEOREM RunsOnlySigned == Spec => []RunsAreSigned
<1> IInv => RunsAreSigned
    BY DEF IInv, RunInv, Signed, CoSignRequired, RunsAreSigned
<1> QED BY AgentInvariant, PTL

\* A row says executed only if a tool succeeded.
THEOREM ExecutedOnSuccess == Spec => []ExecutedSucceeded
<1> IInv => ExecutedSucceeded
    BY DEF IInv, OutcomeInv
<1> QED BY AgentInvariant, PTL

\* The row of an executed action always names its signers.
THEOREM SignersAreNamed == Spec => []ExecutedNamesSigners
<1> IInv => ExecutedNamesSigners
    BY DEF IInv, RowInv, Named, CoSignRequired, ExecutedNamesSigners
<1> QED BY AgentInvariant, PTL

-----------------------------------------------------------------------------
(* Requests that do not overlap                                            *)

\* A request begins when no other is under way on its action.
LEMMA AloneStep ==
    ASSUME TypeOK, serial, AloneInv, [Next]_vars
    PROVE  AloneInv'
<1> USE DEF TypeOK, AloneInv, InFlight, rowVars, restOfRow, signVars, histVars, Goto
<1>1. ASSUME NEW a \in Actions, NEW u \in Users, NEW n \in TargetCounts, CreateProposal(a, u, n)
      PROVE AloneInv'
    BY <1>1 DEF CreateProposal
<1>2. ASSUME NEW r \in Requests, NEW a \in Actions, NEW u \in Users, NEW step \in {"approve", "reject"}, GetAgentAction(r, a, u, step)
      PROVE AloneInv'
    BY <1>2 DEF GetAgentAction
<1>3. ASSUME NEW r \in Requests, ApproveExpired(r) PROVE AloneInv'
    BY <1>3 DEF ApproveExpired, Open, Terminal
<1>4. ASSUME NEW r \in Requests, FirstApproval(r) PROVE AloneInv'
    BY <1>4 DEF FirstApproval, MayApprove, Open
<1>5. ASSUME NEW r \in Requests, CoSign(r) PROVE AloneInv'
    BY <1>5 DEF CoSign, MayCoSign, Open
<1>6. ASSUME NEW r \in Requests, ApproveRefused(r) PROVE AloneInv'
    BY <1>6 DEF ApproveRefused
<1>7. ASSUME NEW r \in Requests, RejectProposal(r) PROVE AloneInv'
    BY <1>7 DEF RejectProposal
<1>8. ASSUME NEW r \in Requests, ExecuteStart(r) PROVE AloneInv'
    BY <1>8 DEF ExecuteStart
<1>9. ASSUME NEW r \in Requests, DispatchApproved(r) PROVE AloneInv'
    BY <1>9 DEF DispatchApproved
<1>10. ASSUME NEW r \in Requests, ExecuteFinish(r) PROVE AloneInv'
    BY <1>10 DEF ExecuteFinish
<1>11. ASSUME NEW r \in Requests, Crash(r) PROVE AloneInv'
    BY <1>11 DEF Crash
<1>12. CASE Reap
    BY <1>12 DEF Reap
<1>13. ASSUME NEW a \in Actions, ExpiryPasses(a) PROVE AloneInv'
    BY <1>13 DEF ExpiryPasses
<1>14. ASSUME NEW a \in Actions, ExecutedAges(a) PROVE AloneInv'
    BY <1>14 DEF ExecutedAges
<1>15. CASE UNCHANGED vars
    BY <1>15 DEF vars
<1> HIDE DEF AloneInv
<1> QED BY <1>1, <1>2, <1>3, <1>4, <1>5, <1>6, <1>7, <1>8, <1>9, <1>10,
        <1>11, <1>12, <1>13, <1>14, <1>15
    DEF Next, Continue

\* Nobody but the reaper changes the row under a request.
LEMMA FreshStep ==
    ASSUME TypeOK, AbsentInv, serial, AloneInv, FreshInv, DecidedInv, [Next]_vars
    PROVE  FreshInv'
<1> USE UsersAssumption DEF TypeOK, AbsentInv, AloneInv, FreshInv, DecidedInv, InFlight,
        rowVars, restOfRow, signVars, histVars, Goto
<1>1. ASSUME NEW a \in Actions, NEW u \in Users, NEW n \in TargetCounts, CreateProposal(a, u, n)
      PROVE FreshInv'
    BY <1>1 DEF CreateProposal
<1>2. ASSUME NEW r \in Requests, NEW a \in Actions, NEW u \in Users, NEW step \in {"approve", "reject"}, GetAgentAction(r, a, u, step)
      PROVE FreshInv'
    BY <1>2 DEF GetAgentAction
<1>3. ASSUME NEW r \in Requests, ApproveExpired(r) PROVE FreshInv'
    BY <1>3 DEF ApproveExpired, Open, Terminal
<1>4. ASSUME NEW r \in Requests, FirstApproval(r) PROVE FreshInv'
    BY <1>4 DEF FirstApproval, MayApprove, Open
<1>5. ASSUME NEW r \in Requests, CoSign(r) PROVE FreshInv'
    <2>1. pc[r] = "approve" /\ row[act[r]] = "awaiting_cosign" /\ executedBy[act[r]] = {}
        BY <1>5 DEF CoSign, MayCoSign, Open
    <2>2. \A s \in Requests \ {r} : pc[s] \in InFlight => act[s] # act[r]
        BY <2>1
    <2> QED BY <1>5, <2>1, <2>2 DEF CoSign
<1>6. ASSUME NEW r \in Requests, ApproveRefused(r) PROVE FreshInv'
    BY <1>6 DEF ApproveRefused
<1>7. ASSUME NEW r \in Requests, RejectProposal(r) PROVE FreshInv'
    BY <1>7 DEF RejectProposal
<1>8. ASSUME NEW r \in Requests, ExecuteStart(r) PROVE FreshInv'
    BY <1>8 DEF ExecuteStart
<1>9. ASSUME NEW r \in Requests, DispatchApproved(r) PROVE FreshInv'
    BY <1>9 DEF DispatchApproved
<1>10. ASSUME NEW r \in Requests, ExecuteFinish(r) PROVE FreshInv'
    BY <1>10 DEF ExecuteFinish
<1>11. ASSUME NEW r \in Requests, Crash(r) PROVE FreshInv'
    BY <1>11 DEF Crash
<1>12. CASE Reap
    <2>1. \A a \in Actions : row'[a] = Reaped(row[a], executedAt[a], lapsed[a])
        BY <1>12 DEF Reap
    <2>2. \A a \in Actions :
              \/ row'[a] = row[a]
              \/ row[a] = "executing" /\ row'[a] = "failed"
              \/ row[a] = "pending" /\ row'[a] = "expired" /\ lapsed[a]
        BY <2>1 DEF Reaped, ReapsExecuting, ReapsPending
    <2> QED BY <1>12, <2>2 DEF Reap
<1>13. ASSUME NEW a \in Actions, ExpiryPasses(a) PROVE FreshInv'
    BY <1>13 DEF ExpiryPasses
<1>14. ASSUME NEW a \in Actions, ExecutedAges(a) PROVE FreshInv'
    BY <1>14 DEF ExecutedAges
<1>15. CASE UNCHANGED vars
    BY <1>15 DEF vars
<1> HIDE DEF TypeOK, AloneInv, FreshInv, DecidedInv
<1> QED BY <1>1, <1>2, <1>3, <1>4, <1>5, <1>6, <1>7, <1>8, <1>9, <1>10,
        <1>11, <1>12, <1>13, <1>14, <1>15
    DEF Next, Continue

\* A decided row is not decided again, and its tool is called once.
LEMMA DecidedStep ==
    ASSUME TypeOK, AbsentInv, serial, AloneInv, FreshInv, DecidedInv, [Next]_vars
    PROVE  DecidedInv'
<1> USE UsersAssumption DEF TypeOK, AbsentInv, AloneInv, FreshInv, DecidedInv, InFlight,
        rowVars, restOfRow, signVars, histVars, Goto
<1>1. ASSUME NEW a \in Actions, NEW u \in Users, NEW n \in TargetCounts, CreateProposal(a, u, n)
      PROVE DecidedInv'
    BY <1>1 DEF CreateProposal
<1>2. ASSUME NEW r \in Requests, NEW a \in Actions, NEW u \in Users, NEW step \in {"approve", "reject"}, GetAgentAction(r, a, u, step)
      PROVE DecidedInv'
    BY <1>2 DEF GetAgentAction
<1>3. ASSUME NEW r \in Requests, ApproveExpired(r) PROVE DecidedInv'
    BY <1>3 DEF ApproveExpired, Open, Terminal
<1>4. ASSUME NEW r \in Requests, FirstApproval(r) PROVE DecidedInv'
    BY <1>4 DEF FirstApproval, MayApprove, Open
<1>5. ASSUME NEW r \in Requests, CoSign(r) PROVE DecidedInv'
    <2>1. /\ row[act[r]] = "awaiting_cosign" /\ executedBy[act[r]] = {}
          /\ who[r] # approvedBy[act[r]]
        BY <1>5 DEF CoSign, MayCoSign, Open
    <2> QED BY <1>5, <2>1 DEF CoSign
<1>6. ASSUME NEW r \in Requests, ApproveRefused(r) PROVE DecidedInv'
    BY <1>6 DEF ApproveRefused
<1>7. ASSUME NEW r \in Requests, RejectProposal(r) PROVE DecidedInv'
    BY <1>7 DEF RejectProposal
<1>8. ASSUME NEW r \in Requests, ExecuteStart(r) PROVE DecidedInv'
    BY <1>8 DEF ExecuteStart
<1>9. ASSUME NEW r \in Requests, DispatchApproved(r) PROVE DecidedInv'
    BY <1>9 DEF DispatchApproved
<1>10. ASSUME NEW r \in Requests, ExecuteFinish(r) PROVE DecidedInv'
    BY <1>10 DEF ExecuteFinish
<1>11. ASSUME NEW r \in Requests, Crash(r) PROVE DecidedInv'
    BY <1>11 DEF Crash
<1>12. CASE Reap
    <2>1. \A a \in Actions : row'[a] = Reaped(row[a], executedAt[a], lapsed[a])
        BY <1>12 DEF Reap
    <2>2. \A a \in Actions :
              \/ row'[a] = row[a]
              \/ row[a] = "executing" /\ row'[a] = "failed"
              \/ row[a] = "pending" /\ row'[a] = "expired" /\ lapsed[a]
        BY <2>1 DEF Reaped, ReapsExecuting, ReapsPending
    <2>3. UNCHANGED <<lapsed, coSignedBy, approvedBy, executedBy>>
        BY <1>12 DEF Reap
    <2> QED BY <2>2, <2>3
<1>13. ASSUME NEW a \in Actions, ExpiryPasses(a) PROVE DecidedInv'
    BY <1>13 DEF ExpiryPasses
<1>14. ASSUME NEW a \in Actions, ExecutedAges(a) PROVE DecidedInv'
    BY <1>14 DEF ExecutedAges
<1>15. CASE UNCHANGED vars
    BY <1>15 DEF vars
<1> HIDE DEF TypeOK, AloneInv, FreshInv, DecidedInv
<1> QED BY <1>1, <1>2, <1>3, <1>4, <1>5, <1>6, <1>7, <1>8, <1>9, <1>10,
        <1>11, <1>12, <1>13, <1>14, <1>15
    DEF Next, Continue

\* Whether requests overlap is a fact of the behaviour.
LEMMA SerialForever == [Next]_vars => serial' = serial
BY DEF Next, Continue, vars, histVars, signVars, CreateProposal, GetAgentAction, ApproveExpired,
    FirstApproval, CoSign, ApproveRefused, RejectProposal, ExecuteStart, DispatchApproved,
    ExecuteFinish, Crash, Reap, ExpiryPasses, ExecutedAges

\* What is claimed of requests that do not overlap holds at first ...
LEMMA SerialInit == Init => SerialInv
BY DEF Init, SerialInv, AloneInv, FreshInv, DecidedInv, InFlight

\* ... and every step keeps it.
LEMMA SerialStep == IInv /\ SerialInv /\ [Next]_vars => SerialInv'
<1> SUFFICES ASSUME IInv, SerialInv, [Next]_vars, serial' PROVE (AloneInv /\ FreshInv /\ DecidedInv)'
    BY DEF SerialInv
<1>1. serial
    BY SerialForever
<1> QED BY <1>1, AloneStep, FreshStep, DecidedStep DEF IInv, SerialInv

\* So it holds in every behaviour in which requests do not overlap.
THEOREM SerialInvariant == Spec => []SerialInv
BY AgentInvariant, SerialInit, SerialStep, PTL DEF Spec

\* A co-signature is of somebody else than the approval it seconds.
THEOREM CoSignersDiffer == Spec => []SignaturesDiffer
<1> SerialInv => SignaturesDiffer
    BY DEF SerialInv, DecidedInv, SignaturesDiffer
<1> QED BY SerialInvariant, PTL

\* The double execution needs two requests that overlap: one after the other,
\* however many there are and whatever crashes, they call the tool once.
THEOREM SerialExecutesOnce == Spec => [](serial => ExecutedOnce)
<1> SerialInv => (serial => ExecutedOnce)
    BY DEF SerialInv, DecidedInv, ExecutedOnce
<1> QED BY SerialInvariant, PTL

-----------------------------------------------------------------------------
(* The gate implements ApprovalContract while requests do not overlap.     *)

Kept(a) == DecisionOf(a)' = DecisionOf(a)

\* A step that changes neither decisions nor executions is a stutter ...
LEMMA Stutters ==
    ASSUME serial, serial', \A a \in Actions : Kept(a) /\ executedBy'[a] = executedBy[a]
    PROVE  UNCHANGED Contract!vars
BY DEF Kept, Contract!vars

\* ... one that expires or rejects actions no tool was called for, a denial.
LEMMA Denies ==
    ASSUME serial, serial', NEW D \in SUBSET Actions,
           \A a \in D : executedBy[a] = {} /\ DecisionOf(a)' = "denied",
           \A a \in Actions \ D : Kept(a),
           UNCHANGED executedBy
    PROVE  Contract!Next
<1>1. Contract!Deny(D)
    BY DEF Kept, Contract!Deny
<1> QED BY <1>1 DEF Contract!Next

\* ... and one that approves an open action, a grant.
LEMMA Grants ==
    ASSUME serial, serial', NEW a \in Actions,
           DecisionOf(a) = "open", DecisionOf(a)' = "granted",
           \A b \in Actions \ {a} : Kept(b),
           UNCHANGED executedBy
    PROVE  Contract!Next
<1>1. Contract!Grant(a)
    BY DEF Kept, Contract!Grant
<1> QED BY <1>1 DEF Contract!Next

\* If requests do not overlap, a step of the approvals is a step of the
\* contract or none.
LEMMA SerialContractStep ==
    ASSUME IInv, SerialInv, [Next]_vars, serial
    PROVE  Contract!Next \/ UNCHANGED Contract!vars
<1>0. serial' /\ TypeOK /\ AbsentInv /\ AloneInv /\ FreshInv /\ DecidedInv
    BY SerialForever DEF IInv, SerialInv
<1> USE <1>0 DEF rowVars, restOfRow, signVars, histVars, Goto
<1>1. ASSUME NEW a \in Actions, NEW u \in Users, NEW n \in TargetCounts, CreateProposal(a, u, n)
      PROVE  UNCHANGED Contract!vars
    <2>1. \A b \in Actions : Kept(b) /\ executedBy'[b] = executedBy[b]
        BY <1>1 DEF CreateProposal, Kept, DecisionOf, TypeOK
    <2> QED BY <2>1, Stutters
<1>2. ASSUME NEW r \in Requests, NEW a \in Actions, NEW u \in Users,
             NEW step \in {"approve", "reject"}, GetAgentAction(r, a, u, step)
      PROVE  UNCHANGED Contract!vars
    <2>1. \A b \in Actions : Kept(b) /\ executedBy'[b] = executedBy[b]
        BY <1>2 DEF GetAgentAction, Kept, DecisionOf
    <2> QED BY <2>1, Stutters
<1>3. ASSUME NEW r \in Requests, ApproveExpired(r) PROVE Contract!Next
    <2> DEFINE D == {a \in Actions : a = act[r]}
    <2>1. \A a \in D : executedBy[a] = {}
        BY <1>3 DEF ApproveExpired, Open, Terminal, FreshInv, DecidedInv, TypeOK
    <2>2. /\ \A a \in D : DecisionOf(a)' = "denied"
          /\ \A a \in Actions \ D : Kept(a)
        BY <1>3 DEF ApproveExpired, Kept, DecisionOf, TypeOK
    <2>3. D \in SUBSET Actions /\ UNCHANGED executedBy
        BY <1>3 DEF ApproveExpired
    <2> HIDE DEF D
    <2> QED BY <2>1, <2>2, <2>3, Denies
<1>4. ASSUME NEW r \in Requests, FirstApproval(r) PROVE Contract!Next \/ UNCHANGED Contract!vars
    <2>1. PICK a \in Actions : a = act[r] /\ row[a] = "pending"
        BY <1>4 DEF FirstApproval, MayApprove, Open, FreshInv, DecidedInv, TypeOK
    <2>2. UNCHANGED executedBy /\ \A b \in Actions \ {a} : Kept(b)
        BY <1>4, <2>1 DEF FirstApproval, Kept, DecisionOf, TypeOK
    <2>3. CASE CoSignRequired(a)
        <3>1. Kept(a)
            BY <1>4, <2>1, <2>3 DEF FirstApproval, Kept, DecisionOf, TypeOK
        <3> QED BY <3>1, <2>2, Stutters
    <2>4. CASE ~CoSignRequired(a)
        <3>1. DecisionOf(a) = "open" /\ DecisionOf(a)' = "granted"
            BY <1>4, <2>1, <2>4 DEF FirstApproval, DecisionOf, TypeOK
        <3> QED BY <3>1, <2>2, Grants
    <2> QED BY <2>3, <2>4
<1>5. ASSUME NEW r \in Requests, CoSign(r) PROVE Contract!Next
    <2>1. PICK a \in Actions : a = act[r] /\ row[a] = "awaiting_cosign"
        <3>1. act[r] \in Actions /\ pc[r] = "approve" /\ seen[r].status = "awaiting_cosign"
            BY <1>5 DEF CoSign, MayCoSign, Open, TypeOK
        <3>2. row[act[r]] = "awaiting_cosign"
            BY <3>1 DEF FreshInv
        <3> QED BY <3>1, <3>2
    <2>2. DecisionOf(a) = "open" /\ DecisionOf(a)' = "granted"
        BY <1>5, <2>1 DEF CoSign, DecisionOf, TypeOK
    <2>3. UNCHANGED executedBy /\ \A b \in Actions \ {a} : Kept(b)
        BY <1>5, <2>1 DEF CoSign, Kept, DecisionOf, TypeOK
    <2> QED BY <2>2, <2>3, Grants
<1>6. ASSUME NEW r \in Requests, RejectProposal(r)
      PROVE  Contract!Next \/ UNCHANGED Contract!vars
    <2>1. CASE seen[r].status \in {"executed", "executing", "failed", "rejected"}
        <3>1. \A b \in Actions : Kept(b) /\ executedBy'[b] = executedBy[b]
            BY <1>6, <2>1 DEF RejectProposal, Kept, DecisionOf
        <3> QED BY <3>1, Stutters
    <2>2. CASE seen[r].status \notin {"executed", "executing", "failed", "rejected"}
        <3> DEFINE D == {a \in Actions : a = act[r]}
        <3>1. \A a \in D : executedBy[a] = {}
            BY <1>6, <2>2 DEF RejectProposal, FreshInv, DecidedInv, TypeOK
        <3>2. /\ \A a \in D : DecisionOf(a)' = "denied"
              /\ \A a \in Actions \ D : Kept(a)
            BY <1>6, <2>2 DEF RejectProposal, Kept, DecisionOf, TypeOK
        <3>3. D \in SUBSET Actions /\ UNCHANGED executedBy
            BY <1>6 DEF RejectProposal
        <3> HIDE DEF D
        <3> QED BY <3>1, <3>2, <3>3, Denies
    <2> QED BY <2>1, <2>2
<1>7. ASSUME NEW r \in Requests, ExecuteStart(r) PROVE UNCHANGED Contract!vars
    <2>1. \A b \in Actions : Kept(b) /\ executedBy'[b] = executedBy[b]
        BY <1>7 DEF ExecuteStart, FreshInv, Kept, DecisionOf, TypeOK
    <2> QED BY <2>1, Stutters
<1>8. ASSUME NEW r \in Requests, DispatchApproved(r)
      PROVE  Contract!Next \/ UNCHANGED Contract!vars
    <2>1. \A b \in Actions : Kept(b)
        BY <1>8 DEF DispatchApproved, Kept, DecisionOf
    <2>2. CASE executedBy' = executedBy
        BY <2>1, <2>2, Stutters
    <2>3. CASE executedBy' = [executedBy EXCEPT ![act[r]] = @ \cup {r}]
        <3>1. act[r] \in Actions /\ executedBy[act[r]] = {} /\ DecisionOf(act[r]) = "granted"
            BY <1>8 DEF DispatchApproved, FreshInv, DecisionOf, TypeOK
        <3>2. /\ executedBy'[act[r]] = {r}
              /\ \A b \in Actions \ {act[r]} : executedBy'[b] = executedBy[b]
            BY <2>3, <3>1 DEF TypeOK
        <3>3. Contract!Execute(act[r], r)
            BY <2>1, <3>1, <3>2 DEF Kept, Contract!Execute
        <3> QED BY <3>1, <3>3 DEF Contract!Next
    <2> QED BY <1>8, <2>2, <2>3 DEF DispatchApproved
<1>9. ASSUME NEW r \in Requests, ExecuteFinish(r) PROVE UNCHANGED Contract!vars
    <2>1. \A b \in Actions : Kept(b) /\ executedBy'[b] = executedBy[b]
        BY <1>9 DEF ExecuteFinish, FreshInv, Kept, DecisionOf, TypeOK
    <2> QED BY <2>1, Stutters
<1>10. ASSUME NEW r \in Requests, ApproveRefused(r) \/ Crash(r) PROVE UNCHANGED Contract!vars
    <2>1. \A b \in Actions : Kept(b) /\ executedBy'[b] = executedBy[b]
        BY <1>10 DEF ApproveRefused, Crash, Kept, DecisionOf
    <2> QED BY <2>1, Stutters
<1>11. ASSUME NEW a \in Actions, ExpiryPasses(a) \/ ExecutedAges(a)
       PROVE  UNCHANGED Contract!vars
    <2>1. \A b \in Actions : Kept(b) /\ executedBy'[b] = executedBy[b]
        BY <1>11 DEF ExpiryPasses, ExecutedAges, Kept, DecisionOf
    <2> QED BY <2>1, Stutters
<1>12. CASE Reap
    <2> DEFINE D == {a \in Actions : ReapsPending(row[a], lapsed[a])}
    <2>1. \A a \in D : executedBy[a] = {} /\ DecisionOf(a)' = "denied"
        BY <1>12 DEF Reap, Reaped, ReapsExecuting, ReapsPending, DecidedInv, DecisionOf
    <2>2. \A a \in Actions \ D : Kept(a)
        BY <1>12 DEF Reap, Reaped, ReapsExecuting, ReapsPending, Kept, DecisionOf
    <2>3. UNCHANGED executedBy
        BY <1>12 DEF Reap
    <2> QED BY <2>1, <2>2, <2>3, Denies
<1>13. CASE UNCHANGED vars
    <2>1. \A b \in Actions : Kept(b) /\ executedBy'[b] = executedBy[b]
        BY <1>13 DEF vars, Kept, DecisionOf
    <2> QED BY <2>1, Stutters
<1> QED BY <1>1, <1>2, <1>3, <1>4, <1>5, <1>6, <1>7, <1>8, <1>9, <1>10, <1>11, <1>12, <1>13
    DEF Next, Continue

\* If they overlap, the contract is left alone.
LEMMA ContractStep == IInv /\ SerialInv /\ [Next]_vars => [Contract!Next]_Contract!vars
<1> SUFFICES ASSUME IInv, SerialInv, [Next]_vars
             PROVE  Contract!Next \/ UNCHANGED Contract!vars
    OBVIOUS
<1>1. CASE serial
    BY <1>1, SerialContractStep
<1>2. CASE ~serial
    BY <1>2, SerialForever DEF Contract!vars
<1> QED BY <1>1, <1>2

\* The approvals begin as the contract does.
LEMMA ContractInit == Init => Contract!Init
BY DEF Init, Contract!Init, DecisionOf

\* The agent's gate implements the approval contract as long as the requests
\* on an action do not overlap.
THEOREM GateImplementsContract == Spec => ImplementsContract
BY AgentInvariant, SerialInvariant, ContractInit, ContractStep, PTL
    DEF Spec, Contract!Spec, ImplementsContract
=============================================================================
