-------------------------- MODULE ApprovalContract --------------------------
(***************************************************************************)
(* What an approval gate promises, whatever its steps: every action is     *)
(* decided once, and only a granted action is executed, by one handler     *)
(* and once.  A granted action that no handler has executed may still be   *)
(* withdrawn; a denied one never comes back.                               *)
(***************************************************************************)
CONSTANTS
    Actions,
    Handlers       \* whoever may hand an action over for execution

VARIABLES
    decision,      \* of each action: "open", "granted" or "denied"
    executedBy     \* the handlers that executed each action

vars == <<decision, executedBy>>

Decision == {"open", "granted", "denied"}

TypeOK ==
    /\ decision \in [Actions -> Decision]
    /\ executedBy \in [Actions -> SUBSET Handlers]

Init ==
    /\ decision = [a \in Actions |-> "open"]
    /\ executedBy = [a \in Actions |-> {}]

Grant(a) ==
    /\ decision[a] = "open"
    /\ decision' = [decision EXCEPT ![a] = "granted"]
    /\ UNCHANGED executedBy

\* Several actions may be denied at once: the reaper expires every lapsed
\* row in one statement.
Deny(D) ==
    /\ \A a \in D : executedBy[a] = {}
    /\ decision' = [a \in Actions |-> IF a \in D THEN "denied" ELSE decision[a]]
    /\ UNCHANGED executedBy

Execute(a, h) ==
    /\ decision[a] = "granted"
    /\ executedBy[a] = {}
    /\ executedBy' = [executedBy EXCEPT ![a] = {h}]
    /\ UNCHANGED decision

Next ==
    \/ \E a \in Actions : Grant(a)
    \/ \E D \in SUBSET Actions : Deny(D)
    \/ \E a \in Actions, h \in Handlers : Execute(a, h)

Spec == Init /\ [][Next]_vars
=============================================================================
