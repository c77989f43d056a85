--------------------------- MODULE PendingAction ---------------------------
(***************************************************************************)
(* The pending_actions table (models/pending_action.py), shared by the     *)
(* e-mail gate of ActionGate and the agent gate of AgentApproval: the      *)
(* statuses of a row, and what the reaper of workers/maintenance.py does   *)
(* to any row it finds.                                                    *)
(*                                                                         *)
(* Two instants of a row matter to the code, and only through one          *)
(* comparison with the clock each.  A row is "lapsed" once expires_at is   *)
(* in the past; it stays so.  Its executed_at is "null", "recent", or      *)
(* "old" once it is more than _EXECUTING_ORPHAN_MINUTES in the past.       *)
(***************************************************************************)

\* "absent" is a row that is not in the table yet.
Status == {"absent", "pending", "approved", "awaiting_cosign", "executing",
           "executed", "failed", "rejected", "expired"}

ExecutedAt == {"null", "recent", "old"}

\* reap_stuck_pending_actions, first pass: orphaned executions fail.
ReapsExecuting(status, executedAt) ==
    /\ status = "executing"
    /\ executedAt = "old"    \* NULL < cutoff is not true in SQL

\* MUTANT of ReapsPending: every row past its expiry expires.
ReapsAnyLapsed(status, lapsed) == status # "absent" /\ lapsed

\* reap_stuck_pending_actions, second pass: undecided rows expire.
ReapsPending(status, lapsed) ==
    /\ status = "pending"
    /\ lapsed

\* The status the reaper leaves in a row.
Reaped(status, executedAt, lapsed) ==
    IF ReapsExecuting(status, executedAt) THEN "failed"
    ELSE IF ReapsPending(status, lapsed) THEN "expired"
    ELSE status
=============================================================================
