--------------------------- MODULE AgentApproval ---------------------------
(***************************************************************************)
(* Apply-with-approval of the agent: services/agent_apply_svc.py and the   *)
(* approve and reject routes of api/routes/agent.py.  An agent proposes a  *)
(* live action; an operator approves it; an administrator co-signs it when *)
(* it has more than CoSignThreshold targets; it then runs inside the       *)
(* approving request.                                                      *)
(*                                                                         *)
(* A request first loads the row (_get_agent_action), then selects it      *)
(* again FOR UPDATE in the same session.  The second SELECT waits for the  *)
(* row's lock, but the session's identity map already holds the row and    *)
(* the query does not ask for populate_existing, so the object keeps the   *)
(* columns of the first SELECT: the request decides on `seen`.  The lock   *)
(* is held until the commit of the decision, so lock, decision and commit  *)
(* are one step here.                                                      *)
(***************************************************************************)
EXTENDS Naturals, PendingAction

CONSTANTS
    Actions,           \* proposals
    Users, Admins,     \* the people who approve, and those of role admin
    NoOne,             \* NULL in a column that names a user
    Requests,          \* approve and reject requests
    TargetCounts,      \* numbers of targets a proposal may have
    CoSignThreshold    \* PendingAction.CO_SIGN_THRESHOLD

ASSUME UsersAssumption == Admins \subseteq Users /\ NoOne \notin Users
ASSUME CountsAssumption == TargetCounts \subseteq Nat /\ CoSignThreshold \in Nat
ASSUME NonEmpty == Actions # {} /\ Users # {} /\ TargetCounts # {}

VARIABLES
    row,             \* status of each action's row
    requestedBy,     \* its column requested_by
    targetCount,     \* its column target_count
    approvedBy,      \* its column approved_by
    coSignedBy,      \* its column co_signed_by
    executedAt,      \* age of its executed_at
    lapsed,          \* its expires_at is past
    pc,              \* step of each request
    act, who,        \* action and user of each request
    seen,            \* the status and approved_by the request loaded
    ok,              \* the tool of the request succeeded
    serial,          \* in this behaviour, requests on one action never overlap
    approvers,       \* history: who gave each action a first approval
    coSigners,       \* history: who co-signed it
    executedBy,      \* history: the requests that called its tool
    succeeded        \* history: the actions whose tool succeeded

rowVars == <<row, requestedBy, targetCount, approvedBy, coSignedBy, executedAt, lapsed>>
restOfRow == <<requestedBy, targetCount, approvedBy, coSignedBy, executedAt, lapsed>>
signVars == <<serial, approvers, coSigners>>
histVars == <<serial, approvers, coSigners, executedBy, succeeded>>
vars == <<rowVars, pc, act, who, seen, ok, histVars>>

PC == {"idle", "approve", "reject", "approved", "executing", "ran", "done", "crashed"}
InFlight == {"approve", "reject", "approved", "executing", "ran"}

Goto(r, l) == pc' = [pc EXCEPT ![r] = l]

\* guards.co_sign_required, stored in the row when it is created.
CoSignRequired(a) == targetCount[a] > CoSignThreshold

-----------------------------------------------------------------------------
\* create_proposal, once assert_live_action_allowed let the action through.
CreateProposal(a, u, n) ==
    /\ row[a] = "absent"
    /\ row' = [row EXCEPT ![a] = "pending"]
    /\ requestedBy' = [requestedBy EXCEPT ![a] = u]
    /\ targetCount' = [targetCount EXCEPT ![a] = n]
    /\ UNCHANGED <<approvedBy, coSignedBy, executedAt, lapsed, pc, act, who, seen, ok, histVars>>

\* _get_agent_action: the first SELECT of either route.
GetAgentAction(r, a, u, step) ==
    /\ pc[r] = "idle"
    /\ row[a] # "absent"
    /\ serial => \A s \in Requests : act[s] = a => pc[s] \notin InFlight
    /\ act' = [act EXCEPT ![r] = a]
    /\ who' = [who EXCEPT ![r] = u]
    /\ seen' = [seen EXCEPT ![r] = [status |-> row[a], approvedBy |-> approvedBy[a]]]
    /\ Goto(r, step)
    /\ UNCHANGED <<rowVars, ok, histVars>>

-----------------------------------------------------------------------------
(* approve_proposal                                                        *)

Terminal == {"executed", "executing", "rejected", "failed", "expired"}

\* The row may be decided on at all: not terminal, and not past its expiry.
Open(r) == pc[r] = "approve" /\ seen[r].status \notin Terminal

\* MUTANT of MayApprove: requesters may approve their own actions.
MayApproveOwn(r) == Open(r) /\ ~lapsed[act[r]] /\ seen[r].status = "pending"

MayApprove(r) ==
    /\ Open(r)
    /\ ~lapsed[act[r]]
    /\ seen[r].status = "pending"
    /\ who[r] # requestedBy[act[r]]

\* MUTANT of MayCoSign: the first approver may co-sign too.
MayCoSignSamePerson(r) ==
    Open(r) /\ ~lapsed[act[r]] /\ seen[r].status = "awaiting_cosign" /\ who[r] \in Admins

MayCoSign(r) ==
    /\ Open(r)
    /\ ~lapsed[act[r]]
    /\ seen[r].status = "awaiting_cosign"
    /\ who[r] \in Admins
    /\ who[r] # seen[r].approvedBy

\* The window has closed: the row expires.
ApproveExpired(r) ==
    /\ Open(r)
    /\ lapsed[act[r]]
    /\ row' = [row EXCEPT ![act[r]] = "expired"]
    /\ Goto(r, "done")
    /\ UNCHANGED <<restOfRow, act, who, seen, ok, histVars>>

\* The first approval; it is the only one unless a co-signature is required.
FirstApproval(r) ==
    LET a == act[r] IN
    /\ MayApprove(r)
    /\ approvedBy' = [approvedBy EXCEPT ![a] = who[r]]
    /\ approvers' = [approvers EXCEPT ![a] = @ \cup {who[r]}]
    /\ IF CoSignRequired(a)
       THEN row' = [row EXCEPT ![a] = "awaiting_cosign"] /\ Goto(r, "done")
       ELSE row' = [row EXCEPT ![a] = "approved"] /\ Goto(r, "approved")
    /\ UNCHANGED <<requestedBy, targetCount, coSignedBy, executedAt, lapsed,
                   act, who, seen, ok, serial, coSigners, executedBy, succeeded>>

CoSign(r) ==
    LET a == act[r] IN
    /\ MayCoSign(r)
    /\ coSignedBy' = [coSignedBy EXCEPT ![a] = who[r]]
    /\ coSigners' = [coSigners EXCEPT ![a] = @ \cup {who[r]}]
    /\ row' = [row EXCEPT ![a] = "approved"]
    /\ Goto(r, "approved")
    /\ UNCHANGED <<requestedBy, targetCount, approvedBy, executedAt, lapsed,
                   act, who, seen, ok, serial, approvers, executedBy, succeeded>>

\* Every other case raises ApprovalError and leaves the row alone.
ApproveRefused(r) ==
    /\ pc[r] = "approve"
    /\ ~(Open(r) /\ lapsed[act[r]])
    /\ ~MayApprove(r) /\ ~MayCoSign(r)
    /\ Goto(r, "done")
    /\ UNCHANGED <<rowVars, act, who, seen, ok, histVars>>

-----------------------------------------------------------------------------
\* MUTANT of RejectProposal: an executed row may be rejected.
RejectExecuted(r) ==
    /\ pc[r] = "reject"
    /\ row' = [row EXCEPT ![act[r]] = "rejected"]
    /\ Goto(r, "done")
    /\ UNCHANGED <<restOfRow, act, who, seen, ok, histVars>>

\* reject_proposal: also of an approved or expired row.  Writing the status
\* the session already holds is no change, and no UPDATE is sent.
RejectProposal(r) ==
    /\ pc[r] = "reject"
    /\ row' = IF seen[r].status \in {"executed", "executing", "failed", "rejected"}
              THEN row ELSE [row EXCEPT ![act[r]] = "rejected"]
    /\ Goto(r, "done")
    /\ UNCHANGED <<restOfRow, act, who, seen, ok, histVars>>

-----------------------------------------------------------------------------
(* _execute, in the approving request                                      *)

ExecuteStart(r) ==
    /\ pc[r] = "approved"
    /\ row' = [row EXCEPT ![act[r]] = "executing"]
    /\ Goto(r, "executing")
    /\ UNCHANGED <<restOfRow, act, who, seen, ok, histVars>>

\* Executor.dispatch_approved: the tool is refused by a guard, or its
\* handler is called and succeeds or fails.
DispatchApproved(r) ==
    /\ pc[r] = "executing"
    /\ \E called, fine \in BOOLEAN :
          /\ fine => called
          /\ ok' = [ok EXCEPT ![r] = fine]
          /\ executedBy' = IF called THEN [executedBy EXCEPT ![act[r]] = @ \cup {r}]
                           ELSE executedBy
          /\ succeeded' = IF fine THEN succeeded \cup {act[r]} ELSE succeeded
    /\ Goto(r, "ran")
    /\ UNCHANGED <<rowVars, act, who, seen, signVars>>

ExecuteFinish(r) ==
    /\ pc[r] = "ran"
    /\ row' = [row EXCEPT ![act[r]] = IF ok[r] THEN "executed" ELSE "failed"]
    /\ executedAt' = [executedAt EXCEPT ![act[r]] = "recent"]
    /\ Goto(r, "done")
    /\ UNCHANGED <<requestedBy, targetCount, approvedBy, coSignedBy, lapsed,
                   act, who, seen, ok, histVars>>

\* The API process stops, or the request fails, between two commits.
Crash(r) ==
    /\ pc[r] \in InFlight
    /\ Goto(r, "crashed")
    /\ UNCHANGED <<rowVars, act, who, seen, ok, histVars>>

-----------------------------------------------------------------------------
(* The reaper and the clock                                                *)

Reap ==
    /\ row' = [a \in Actions |-> Reaped(row[a], executedAt[a], lapsed[a])]
    /\ UNCHANGED <<restOfRow, pc, act, who, seen, ok, histVars>>

ExpiryPasses(a) ==
    /\ row[a] # "absent"
    /\ ~lapsed[a]
    /\ lapsed' = [lapsed EXCEPT ![a] = TRUE]
    /\ UNCHANGED <<row, requestedBy, targetCount, approvedBy, coSignedBy, executedAt,
                   pc, act, who, seen, ok, histVars>>

ExecutedAges(a) ==
    /\ executedAt[a] = "recent"
    /\ executedAt' = [executedAt EXCEPT ![a] = "old"]
    /\ UNCHANGED <<row, requestedBy, targetCount, approvedBy, coSignedBy, lapsed,
                   pc, act, who, seen, ok, histVars>>

\* The columns of an absent row, and the locals of an idle request, are
\* read only after they were set.
Init ==
    /\ row = [a \in Actions |-> "absent"]
    /\ requestedBy = [a \in Actions |-> CHOOSE u \in Users : TRUE]
    /\ targetCount = [a \in Actions |-> CHOOSE n \in TargetCounts : TRUE]
    /\ approvedBy = [a \in Actions |-> NoOne]
    /\ coSignedBy = [a \in Actions |-> NoOne]
    /\ executedAt = [a \in Actions |-> "null"]
    /\ lapsed = [a \in Actions |-> FALSE]
    /\ pc = [r \in Requests |-> "idle"]
    /\ act = [r \in Requests |-> CHOOSE a \in Actions : TRUE]
    /\ who = [r \in Requests |-> CHOOSE u \in Users : TRUE]
    /\ seen = [r \in Requests |-> [status |-> "absent", approvedBy |-> NoOne]]
    /\ ok = [r \in Requests |-> FALSE]
    /\ serial \in BOOLEAN
    /\ approvers = [a \in Actions |-> {}]
    /\ coSigners = [a \in Actions |-> {}]
    /\ executedBy = [a \in Actions |-> {}]
    /\ succeeded = {}

Continue(r) ==
    \/ ApproveExpired(r) \/ FirstApproval(r) \/ CoSign(r) \/ ApproveRefused(r)
    \/ RejectProposal(r)
    \/ ExecuteStart(r) \/ DispatchApproved(r) \/ ExecuteFinish(r)

Next ==
    \/ \E a \in Actions, u \in Users, n \in TargetCounts : CreateProposal(a, u, n)
    \/ \E r \in Requests, a \in Actions, u \in Users, step \in {"approve", "reject"} :
          GetAgentAction(r, a, u, step)
    \/ \E r \in Requests : Continue(r) \/ Crash(r)
    \/ \E a \in Actions : ExpiryPasses(a) \/ ExecutedAges(a)
    \/ Reap

Spec == Init /\ [][Next]_vars

-----------------------------------------------------------------------------
(* Properties                                                              *)

\* The values every variable keeps.
TypeOK ==
    /\ row \in [Actions -> Status]
    /\ requestedBy \in [Actions -> Users]
    /\ targetCount \in [Actions -> TargetCounts]
    /\ approvedBy \in [Actions -> Users \cup {NoOne}]
    /\ coSignedBy \in [Actions -> Users \cup {NoOne}]
    /\ executedAt \in [Actions -> ExecutedAt]
    /\ lapsed \in [Actions -> BOOLEAN]
    /\ pc \in [Requests -> PC]
    /\ act \in [Requests -> Actions]
    /\ who \in [Requests -> Users]
    /\ seen \in [Requests -> [status : Status, approvedBy : Users \cup {NoOne}]]
    /\ ok \in [Requests -> BOOLEAN]
    /\ serial \in BOOLEAN
    /\ approvers \in [Actions -> SUBSET Users]
    /\ coSigners \in [Actions -> SUBSET Users]
    /\ executedBy \in [Actions -> SUBSET Requests]
    /\ succeeded \subseteq Actions

\* Even when requests race on stale copies of the row, a tool runs only
\* after someone other than its requester approved it and, for an action
\* with more targets than the threshold, a second person, an
\* administrator, co-signed.
RunsAreSigned ==
    \A a \in Actions : executedBy[a] # {} =>
        \E u \in approvers[a] \ {requestedBy[a]} :
            targetCount[a] > CoSignThreshold => \E v \in coSigners[a] \cap Admins : v # u

\* The row of an executed action names who answers for it, whatever was
\* overwritten on the way: an approver who did not request it and, where it
\* is required, an administrator who co-signed.
ExecutedNamesSigners ==
    \A a \in Actions : row[a] \in {"executing", "executed"} =>
        /\ approvedBy[a] \notin {NoOne, requestedBy[a]}
        /\ targetCount[a] > CoSignThreshold => coSignedBy[a] \in Admins

\* A row says executed only if the tool succeeded.
ExecutedSucceeded == \A a \in Actions : row[a] = "executed" => a \in succeeded

\* One approved action is one call of its tool ("serialise concurrent
\* approve requests and prevent TOCTOU double-execution").
ExecutedOnce == \A a \in Actions : \A r, s \in executedBy[a] : r = s

\* The row names two different people ("co-sign must be a different human"),
\* if nobody overwrote the first approval on a stale copy of the row.
SignaturesDiffer ==
    serial => \A a \in Actions : coSignedBy[a] # NoOne => coSignedBy[a] # approvedBy[a]

\* As long as requests on one action do not overlap, the gate implements the
\* contract: one decision, one call of the tool by one request, none after a
\* rejection, whatever crashes and whatever the reaper does between.
DecisionOf(a) ==
    IF row[a] \in {"absent", "pending", "awaiting_cosign"} THEN "open"
    ELSE IF row[a] \in {"rejected", "expired"} THEN "denied"
    ELSE "granted"

Contract == INSTANCE ApprovalContract WITH
    Handlers <- Requests,
    decision <- [a \in Actions |-> IF serial THEN DecisionOf(a) ELSE "open"],
    executedBy <- [a \in Actions |-> IF serial THEN executedBy[a] ELSE {}]

ImplementsContract == Contract!Spec
=============================================================================
