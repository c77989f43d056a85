----------------------------- MODULE ActionGate -----------------------------
(***************************************************************************)
(* Node actions behind an e-mail approval: api/routes/node_actions.py,     *)
(* services/pending_action_svc.py, the Celery tasks run_salt_cmd and       *)
(* finalize_node_action of workers/salt_tasks.py, and the reaper           *)
(* reap_stuck_pending_actions of workers/maintenance.py.                   *)
(*                                                                         *)
(* Requests run concurrently, one database statement (with its commit) or  *)
(* one broker call at a time, and the API may stop between any two.        *)
(* Workers acknowledge a task after it returned (task_acks_late) and the   *)
(* broker delivers it again when a worker is lost.                         *)
(***************************************************************************)
EXTENDS Naturals, PendingAction

CONSTANTS
    Destructive,   \* actions that wait for an approval, one row each
    Immediate,     \* actions dispatched as soon as they are requested
    Protected,     \* those of them that name a protected target
    Requests,      \* HTTP requests to the API
    MaxLosses      \* bound: how many times a worker is lost

Actions == Destructive \cup Immediate

ASSUME ActionsAssumption == Actions # {} /\ Destructive \cap Immediate = {}
ASSUME LossesAssumption == MaxLosses \in Nat

\* Deliveries of one task: the first, and one more per lost worker.
Tries == 1 .. MaxLosses + 1

VARIABLES
    row,          \* status of each action's row
    executedAt,   \* age of its executed_at
    lapsed,       \* its expires_at is past
    mailed,       \* the actions whose approval link was delivered
    nodeGone,     \* the actions whose node was deleted
    pc,           \* step of each request
    act,          \* action each request is about
    late,         \* approve() read its clock after the expiry
    task,         \* run_salt_cmd sent by each request
    answer,       \* what its last delivery returned
    try,          \* deliveries of that task
    callback,     \* finalize_node_action linked by each delivery
    result,       \* the answer each callback carries
    runs,         \* history: times the command of each action reached a node
    answeredOk,   \* history: the actions Salt answered "ok" for
    losses        \* history: workers lost

rowVars == <<row, executedAt, lapsed, mailed, nodeGone>>
restOfRow == <<executedAt, lapsed, mailed, nodeGone>>
reqVars == <<pc, act, late>>
taskVars == <<task, answer, try>>
cbVars == <<callback, result>>
histVars == <<runs, answeredOk, losses>>
vars == <<rowVars, reqVars, taskVars, cbVars, histVars>>

Answer == {"none", "ok", "error"}
PC == {"idle", "mail", "claim", "settle", "claimed", "dispatched", "done", "crashed"}
TaskState == {"none", "queued", "started", "returned", "linked", "done"}
CallbackState == {"none", "queued", "checked", "done"}

Goto(r, l) == pc' = [pc EXCEPT ![r] = l]

-----------------------------------------------------------------------------
(* POST /nodes/{id}/actions                                                *)

\* create_pending_action: the row, pending, is committed.  A protected
\* target is refused by _validate_action_params, a missing node by the
\* route, before anything is written.
RequestDestructive(r, a) ==
    /\ pc[r] = "idle"
    /\ row[a] = "absent"
    /\ a \notin Protected \cup nodeGone
    /\ row' = [row EXCEPT ![a] = "pending"]
    /\ act' = [act EXCEPT ![r] = a]
    /\ Goto(r, "mail")
    /\ UNCHANGED <<restOfRow, late, taskVars, cbVars, histVars>>

\* _send_approval_email: a failure is logged and does not stop the request.
SendApprovalEmail(r) ==
    /\ pc[r] = "mail"
    /\ \/ mailed' = mailed \cup {act[r]}
       \/ UNCHANGED mailed
    /\ Goto(r, "done")
    /\ UNCHANGED <<row, executedAt, lapsed, nodeGone, act, late, taskVars, cbVars, histVars>>

\* A non-destructive action is sent to a worker at once, with no row.
RequestImmediate(r, a) ==
    /\ pc[r] = "idle"
    /\ a \notin Protected \cup nodeGone
    /\ act' = [act EXCEPT ![r] = a]
    /\ task' = [task EXCEPT ![r] = "queued"]
    /\ Goto(r, "done")
    /\ UNCHANGED <<rowVars, late, answer, try, cbVars, histVars>>

-----------------------------------------------------------------------------
(* POST /actions/{token}/approve                                           *)

\* get_by_token finds the row, and approve() reads the clock.
ApproveStart(r, a) ==
    /\ pc[r] = "idle"
    /\ a \in mailed
    /\ act' = [act EXCEPT ![r] = a]
    /\ late' = [late EXCEPT ![r] = lapsed[a]]
    /\ Goto(r, "claim")
    /\ UNCHANGED <<rowVars, taskVars, cbVars, histVars>>

\* MUTANT of Claimable: the compare-and-swap forgets the status.
ClaimableAnyStatus(r) == row[act[r]] # "absent" /\ ~late[r]

\* The condition of approve()'s compare-and-swap.
Claimable(r) == row[act[r]] = "pending" /\ ~late[r]

\* MUTANT of ApproveClaim: executed_at is left NULL.
ApproveClaimUndated(r) ==
    /\ pc[r] = "claim"
    /\ Claimable(r)
    /\ row' = [row EXCEPT ![act[r]] = "approved"]
    /\ Goto(r, "claimed")
    /\ UNCHANGED <<restOfRow, act, late, taskVars, cbVars, histVars>>

ApproveClaim(r) ==
    /\ pc[r] = "claim"
    /\ Claimable(r)
    /\ row' = [row EXCEPT ![act[r]] = "approved"]
    /\ executedAt' = [executedAt EXCEPT ![act[r]] = "recent"]
    /\ Goto(r, "claimed")
    /\ UNCHANGED <<lapsed, mailed, nodeGone, act, late, taskVars, cbVars, histVars>>

ApproveLost(r) ==
    /\ pc[r] = "claim"
    /\ ~Claimable(r)
    /\ Goto(r, "settle")
    /\ UNCHANGED <<rowVars, act, late, taskVars, cbVars, histVars>>

\* The loser settles a row that is still pending past its expiry.
ApproveSettle(r) ==
    /\ pc[r] = "settle"
    /\ row' = [row EXCEPT ![act[r]] = IF @ = "pending" /\ late[r] THEN "expired" ELSE @]
    /\ Goto(r, "done")
    /\ UNCHANGED <<restOfRow, act, late, taskVars, cbVars, histVars>>

\* approve_action checks the denylist and the node again before dispatch.
ApproveRefuse(r) ==
    /\ pc[r] = "claimed"
    /\ act[r] \in Protected \cup nodeGone
    /\ row' = [row EXCEPT ![act[r]] = "failed"]
    /\ Goto(r, "done")
    /\ UNCHANGED <<restOfRow, act, late, taskVars, cbVars, histVars>>

\* run_salt_cmd.apply_async(link=finalize_node_action): the broker has it.
ApproveDispatch(r) ==
    /\ pc[r] = "claimed"
    /\ act[r] \notin Protected \cup nodeGone
    /\ task' = [task EXCEPT ![r] = "queued"]
    /\ Goto(r, "dispatched")
    /\ UNCHANGED <<rowVars, act, late, answer, try, cbVars, histVars>>

\* Only then is the row marked executing, whatever it is by now.
ApproveExecuting(r) ==
    /\ pc[r] = "dispatched"
    /\ row' = [row EXCEPT ![act[r]] = "executing"]
    /\ Goto(r, "done")
    /\ UNCHANGED <<restOfRow, act, late, taskVars, cbVars, histVars>>

\* MUTANT of RejectAction: the update forgets the status.
RejectUnconditionally(r, a) ==
    /\ pc[r] = "idle"
    /\ a \in mailed
    /\ row' = [row EXCEPT ![a] = "rejected"]
    /\ act' = [act EXCEPT ![r] = a]
    /\ Goto(r, "done")
    /\ UNCHANGED <<restOfRow, late, taskVars, cbVars, histVars>>

\* POST /actions/{token}/reject: a compare-and-swap that leaves the expiry
\* to others; the answer is "rejected" whether it took effect or not.
RejectAction(r, a) ==
    /\ pc[r] = "idle"
    /\ a \in mailed
    /\ row' = [row EXCEPT ![a] = IF @ = "pending" THEN "rejected" ELSE @]
    /\ act' = [act EXCEPT ![r] = a]
    /\ Goto(r, "done")
    /\ UNCHANGED <<restOfRow, late, taskVars, cbVars, histVars>>

\* The API process stops, or a broker or database call raises.
ApiCrash(r) ==
    /\ pc[r] \in {"mail", "claim", "settle", "claimed", "dispatched"}
    /\ Goto(r, "crashed")
    /\ UNCHANGED <<rowVars, act, late, taskVars, cbVars, histVars>>

-----------------------------------------------------------------------------
(* Workers                                                                 *)

TaskStart(t) ==
    /\ task[t] = "queued"
    /\ task' = [task EXCEPT ![t] = "started"]
    /\ try' = [try EXCEPT ![t] = @ + 1]
    /\ UNCHANGED <<rowVars, reqVars, answer, cbVars, histVars>>

\* run_salt_cmd.  The call may reach the node and still answer "error" (the
\* HTTP request timed out), or not reach it and answer "error" (function not
\* allowed, no master, connection refused) or "ok" (no minion replied).
RunSaltCmd(t) ==
    /\ task[t] = "started"
    /\ \E reached \in {0, 1}, s \in {"ok", "error"} :
          /\ answer' = [answer EXCEPT ![t] = s]
          /\ runs' = [runs EXCEPT ![act[t]] = @ + reached]
          /\ answeredOk' = IF s = "ok" THEN answeredOk \cup {act[t]} ELSE answeredOk
    /\ task' = [task EXCEPT ![t] = "returned"]
    /\ UNCHANGED <<rowVars, reqVars, try, cbVars, losses>>

\* run_salt_cmd raises before the call (the allowlist could not be read):
\* Celery acknowledges the failed task and sends no callback.
TaskRaise(t) ==
    /\ task[t] = "started"
    /\ task' = [task EXCEPT ![t] = "done"]
    /\ UNCHANGED <<rowVars, reqVars, answer, try, cbVars, histVars>>

\* The task returned: its link is sent with what it returned.
TaskLink(t) ==
    /\ task[t] = "returned"
    /\ task' = [task EXCEPT ![t] = "linked"]
    /\ IF act[t] \in Destructive
       THEN /\ callback' = [callback EXCEPT ![t][try[t]] = "queued"]
            /\ result' = [result EXCEPT ![t][try[t]] = answer[t]]
       ELSE UNCHANGED cbVars
    /\ UNCHANGED <<rowVars, reqVars, answer, try, histVars>>

TaskAck(t) ==
    /\ task[t] = "linked"
    /\ task' = [task EXCEPT ![t] = "done"]
    /\ UNCHANGED <<rowVars, reqVars, answer, try, cbVars, histVars>>

\* The worker is lost before the acknowledgement: the task comes back.
TaskLost(t) ==
    /\ task[t] \in {"started", "returned", "linked"}
    /\ losses < MaxLosses
    /\ losses' = losses + 1
    /\ task' = [task EXCEPT ![t] = "queued"]
    /\ UNCHANGED <<rowVars, reqVars, answer, try, cbVars, runs, answeredOk>>

\* finalize_node_action reads the row and gives up unless it is executing.
FinalizeCheck(t, n) ==
    /\ callback[t][n] = "queued"
    /\ callback' = [callback EXCEPT
          ![t][n] = IF row[act[t]] = "executing" THEN "checked" ELSE "done"]
    /\ UNCHANGED <<rowVars, reqVars, taskVars, result, histVars>>

\* MUTANT of StatusFromSaltResult: a failed command counts as executed.
StatusAlwaysExecuted(s) == "executed"

\* _status_from_salt_result
StatusFromSaltResult(s) == IF s = "error" THEN "failed" ELSE "executed"

\* ... and writes the outcome it was given over whatever the row is now.
FinalizeWrite(t, n) ==
    /\ callback[t][n] = "checked"
    /\ callback' = [callback EXCEPT ![t][n] = "done"]
    /\ row' = [row EXCEPT ![act[t]] = StatusFromSaltResult(result[t][n])]
    /\ executedAt' = [executedAt EXCEPT ![act[t]] = "recent"]
    /\ UNCHANGED <<lapsed, mailed, nodeGone, reqVars, taskVars, result, histVars>>

FinalizeLost(t, n) ==
    /\ callback[t][n] = "checked"
    /\ losses < MaxLosses
    /\ losses' = losses + 1
    /\ callback' = [callback EXCEPT ![t][n] = "queued"]
    /\ UNCHANGED <<rowVars, reqVars, taskVars, result, runs, answeredOk>>

\* reap_stuck_pending_actions, every five minutes.
Reap ==
    /\ row' = [a \in Actions |-> Reaped(row[a], executedAt[a], lapsed[a])]
    /\ UNCHANGED <<restOfRow, reqVars, taskVars, cbVars, histVars>>

-----------------------------------------------------------------------------
(* The clock and the rest of the platform                                  *)

ExpiryPasses(a) ==
    /\ row[a] # "absent"
    /\ ~lapsed[a]
    /\ lapsed' = [lapsed EXCEPT ![a] = TRUE]
    /\ UNCHANGED <<row, executedAt, mailed, nodeGone, reqVars, taskVars, cbVars, histVars>>

ExecutedAges(a) ==
    /\ executedAt[a] = "recent"
    /\ executedAt' = [executedAt EXCEPT ![a] = "old"]
    /\ UNCHANGED <<row, lapsed, mailed, nodeGone, reqVars, taskVars, cbVars, histVars>>

\* DELETE /nodes/{id}: the row keeps a NULL node_id.
DeleteNode(a) ==
    /\ a \notin nodeGone
    /\ nodeGone' = nodeGone \cup {a}
    /\ UNCHANGED <<row, executedAt, lapsed, mailed, reqVars, taskVars, cbVars, histVars>>

Init ==
    /\ row = [a \in Actions |-> "absent"]
    /\ executedAt = [a \in Actions |-> "null"]
    /\ lapsed = [a \in Actions |-> FALSE]
    /\ mailed = {}
    /\ nodeGone = {}
    /\ pc = [r \in Requests |-> "idle"]
    /\ act = [r \in Requests |-> CHOOSE a \in Actions : TRUE]    \* read only once set
    /\ late = [r \in Requests |-> FALSE]
    /\ task = [r \in Requests |-> "none"]
    /\ answer = [r \in Requests |-> "none"]
    /\ try = [r \in Requests |-> 0]
    /\ callback = [r \in Requests |-> [n \in Tries |-> "none"]]
    /\ result = [r \in Requests |-> [n \in Tries |-> "none"]]
    /\ runs = [a \in Actions |-> 0]
    /\ answeredOk = {}
    /\ losses = 0

ApiStart(r) ==
    \/ \E a \in Destructive :
          RequestDestructive(r, a) \/ ApproveStart(r, a) \/ RejectAction(r, a)
    \/ \E a \in Immediate : RequestImmediate(r, a)

ApiContinue(r) ==
    \/ SendApprovalEmail(r)
    \/ ApproveClaim(r) \/ ApproveLost(r) \/ ApproveSettle(r)
    \/ ApproveRefuse(r) \/ ApproveDispatch(r) \/ ApproveExecuting(r)

Worker(t) ==
    \/ TaskStart(t) \/ RunSaltCmd(t) \/ TaskRaise(t) \/ TaskLink(t) \/ TaskAck(t)
    \/ \E n \in Tries : FinalizeCheck(t, n) \/ FinalizeWrite(t, n)

Failure(r) ==
    \/ ApiCrash(r)
    \/ TaskLost(r)
    \/ \E n \in Tries : FinalizeLost(r, n)

Environment(a) == ExpiryPasses(a) \/ ExecutedAges(a) \/ DeleteNode(a)

Next ==
    \/ \E r \in Requests : ApiStart(r) \/ ApiContinue(r) \/ Worker(r) \/ Failure(r)
    \/ \E a \in Actions : Environment(a)
    \/ Reap

Spec == Init /\ [][Next]_vars

\* Celery beat runs the reaper again and again, and time passes.  Nothing is
\* assumed of the API and the workers: a request may stop anywhere.
Fairness ==
    /\ WF_vars(Reap)
    /\ \A a \in Actions : WF_vars(ExpiryPasses(a)) /\ WF_vars(ExecutedAges(a))

FairSpec == Spec /\ Fairness

-----------------------------------------------------------------------------
(* Properties                                                              *)

\* The values every variable keeps; executed_at is set as soon as a row
\* leaves pending by an approval, which is what the reaper relies on.
TypeOK ==
    /\ row \in [Actions -> Status]
    /\ executedAt \in [Actions -> ExecutedAt]
    /\ lapsed \in [Actions -> BOOLEAN]
    /\ mailed \subseteq Destructive
    /\ nodeGone \subseteq Actions
    /\ pc \in [Requests -> PC]
    /\ act \in [Requests -> Actions]
    /\ late \in [Requests -> BOOLEAN]
    /\ task \in [Requests -> TaskState]
    /\ answer \in [Requests -> Answer]
    /\ try \in [Requests -> 0 .. MaxLosses + 1]
    /\ callback \in [Requests -> [Tries -> CallbackState]]
    /\ result \in [Requests -> [Tries -> Answer]]
    /\ runs \in [Actions -> Nat]
    /\ answeredOk \subseteq Actions
    /\ losses \in 0 .. MaxLosses

\* The requests whose approval handed action a to a worker.
DispatchersOf(a) == {r \in Requests : act[r] = a /\ task[r] # "none"}

\* However many approvals of one link arrive together, at most one of them
\* sends the command (approve(): "concurrent callers get False and must NOT
\* dispatch").
DispatchedOnce ==
    \A a \in Destructive : \A r, s \in DispatchersOf(a) : r = s

\* A command reaches the node a second time only if a worker was lost: one
\* approval is one run and the redeliveries of acks_late.
RerunsOnlyAfterLoss == \A a \in Destructive : runs[a] <= 1 + losses

\* A destructive command reaches the node only for an action whose row was
\* approved, and that can then no longer be rejected or expire.
OnlyApprovedRuns ==
    \A a \in Destructive :
        runs[a] > 0 => row[a] \in {"approved", "executing", "executed", "failed"}

\* A row says executed only if Salt answered "ok" for its command.
ExecutedWasAnswered == \A a \in Destructive : row[a] = "executed" => a \in answeredOk

\* Rejected and expired rows are final: no approval, reaper or late callback
\* changes them, and their command does not run from then on.
DenialIsFinal ==
    [][\A a \in Destructive : row[a] \in {"rejected", "expired"} =>
          row'[a] = row[a] /\ runs'[a] = runs[a]]_vars

\* The gate implements the contract: "granted" from the claim on.
DecisionOf(a) ==
    IF row[a] \in {"absent", "pending"} THEN "open"
    ELSE IF row[a] \in {"rejected", "expired"} THEN "denied"
    ELSE "granted"

Contract == INSTANCE ApprovalContract WITH
    Actions <- Destructive,
    Handlers <- Requests,
    decision <- [a \in Destructive |-> DecisionOf(a)],
    executedBy <- [a \in Destructive |-> DispatchersOf(a)]

ImplementsContract == Contract!Spec

\* A requested action is decided even if nobody answers the e-mail, or the
\* request that should settle it stops half-way; and one that is executing
\* gets an outcome even if its callback never comes.
RowsSettle ==
    \A a \in Destructive :
        /\ row[a] = "pending" ~> row[a] # "pending"
        /\ row[a] = "executing" ~> row[a] \in {"executed", "failed"}

-----------------------------------------------------------------------------
(* What the code says of itself and does not keep                          *)

\* "finalize_node_action sets executed/failed on completion": once a
\* callback was handled and its request is over, the row is not executing.
CompletionIsRecorded ==
    \A r \in Requests, n \in Tries :
        act[r] \in Destructive /\ callback[r][n] = "done" /\ pc[r] = "done"
            => row[act[r]] # "executing"
=============================================================================
