--------------------------- MODULE AlertEvaluation ---------------------------
(***************************************************************************)
(* The alerts of the fleet: run_alert_evaluation of workers/alert_tasks.py *)
(* and evaluate_alerts of services/alert_svc.py, which beat starts every   *)
(* five minutes.                                                           *)
(*                                                                         *)
(* A subject is what one rule watches: a node, or the pending keys.  An    *)
(* evaluation reads the subjects of each rule that are due, fires an event *)
(* for each that has none in the rule's window, sends it, and commits once *)
(* at the end.  Nothing keeps two evaluations apart: a slow one, which     *)
(* waits ten seconds for each webhook, is overtaken by the next, and       *)
(* neither sees the events of the other before it commits.                 *)
(*                                                                         *)
(* An event is named by the evaluation that fired it, as fired_at is the   *)
(* time the evaluation began.  The name is used again once no event in a   *)
(* window bears it.                                                        *)
(***************************************************************************)
EXTENDS Naturals, FiniteSets

CONSTANTS
    Rules,          \* the enabled rules
    Subjects,
    RuleOf,         \* the rule of each subject
    Evaluations,    \* bound: evaluations that have an event in a window or are under way
    MaxOverlaps,    \* bound: evaluations that begin while another one runs
    MaxFailures     \* bound: evaluations that fail by themselves

ASSUME RulesAssumption == RuleOf \in [Subjects -> Rules]
ASSUME EvaluationsAssumption == IsFiniteSet(Evaluations)
ASSUME AlertLimitsAssumption == MaxOverlaps \in Nat /\ MaxFailures \in Nat

VARIABLES
    due,         \* the subjects whose condition holds
    fired,       \* the committed events of each subject
    past,        \* of each rule, the evaluations that began before its window
    running,     \* the evaluations under way
    cutoff,      \* what past was when each evaluation began
    rulesLeft,   \* the rules an evaluation has not come to yet
    todo,        \* the due subjects of the rule it is at
    added,       \* the subjects of its uncommitted events
    sent,        \* history: the evaluations that sent an alert of each subject
    failed,      \* history: the evaluations that did not commit
    met,         \* history: the evaluations each one ran together with
    overlaps, failures    \* to bound them

eventVars == <<fired, sent>>
evaluationVars == <<rulesLeft, todo, added>>
histVars == <<met, overlaps>>
alertVars == <<due, eventVars, past, running, cutoff, evaluationVars, failed, histVars, failures>>

\* MUTANT of Recent: the query forgets fired_at > recent_cutoff.
RecentEver(e, s) == fired[s]

\* The events an evaluation finds in the window of a subject: the cutoff is
\* the one of its beginning.
Recent(e, s) == fired[s] \ cutoff[e][RuleOf[s]]

\* No event of e is left that somebody counts.
Reusable(e) ==
    /\ e \notin running
    /\ \A s \in Subjects :
          e \in fired[s] \cup sent[s] =>
              /\ e \in past[RuleOf[s]]
              /\ \A f \in running : e \in cutoff[f][RuleOf[s]]

\* Beat, or a redelivery, starts an evaluation.  Which free name it gets does
\* not matter.
Begin(e) ==
    /\ Reusable(e)
    /\ e = CHOOSE f \in Evaluations : Reusable(f)
    /\ running # {} => overlaps < MaxOverlaps
    /\ running' = running \cup {e}
    /\ past' = [r \in Rules |-> past[r] \ {e}]
    /\ cutoff' = [f \in Evaluations |->
                    [r \in Rules |-> (IF f = e THEN past[r] ELSE cutoff[f][r]) \ {e}]]
    /\ rulesLeft' = [rulesLeft EXCEPT ![e] = Rules]
    /\ fired' = [s \in Subjects |-> fired[s] \ {e}]
    /\ sent' = [s \in Subjects |-> sent[s] \ {e}]
    /\ failed' = failed \ {e}
    /\ met' = [f \in Evaluations |->
                 IF f = e THEN running
                 ELSE IF f \in running THEN met[f] \cup {e} ELSE met[f] \ {e}]
    /\ overlaps' = IF running = {} THEN overlaps ELSE overlaps + 1
    /\ UNCHANGED <<due, todo, added, failures>>

\* The query of a rule's check.
ReadDue(e, r) ==
    /\ e \in running
    /\ todo[e] = {}
    /\ r \in rulesLeft[e]
    /\ rulesLeft' = [rulesLeft EXCEPT ![e] = @ \ {r}]
    /\ todo' = [todo EXCEPT ![e] = {s \in due : RuleOf[s] = r}]
    /\ UNCHANGED <<due, eventVars, past, running, cutoff, added, failed, histVars, failures>>

\* One event in the window: the subject was reported.
SkipReported(e, s) ==
    /\ e \in running
    /\ s \in todo[e]
    /\ \E f \in Recent(e, s) : Recent(e, s) = {f}
    /\ todo' = [todo EXCEPT ![e] = @ \ {s}]
    /\ UNCHANGED <<due, eventVars, past, running, cutoff, rulesLeft, added, failed, histVars,
                   failures>>

\* MUTANT of Fire: the look for an event in the window is dropped.
FireAlways(e, s) ==
    /\ e \in running
    /\ s \in todo[e]
    /\ todo' = [todo EXCEPT ![e] = @ \ {s}]
    /\ added' = [added EXCEPT ![e] = @ \cup {s}]
    /\ sent' = [sent EXCEPT ![s] = @ \cup {e}]
    /\ UNCHANGED <<due, fired, past, running, cutoff, rulesLeft, failed, histVars, failures>>

\* No event: one is added, flushed, and sent to the webhooks and by mail,
\* which may all refuse it.
Fire(e, s) ==
    /\ e \in running
    /\ s \in todo[e]
    /\ Recent(e, s) = {}
    /\ todo' = [todo EXCEPT ![e] = @ \ {s}]
    /\ added' = [added EXCEPT ![e] = @ \cup {s}]
    /\ sent' = [sent EXCEPT ![s] = @ \cup {e}]
    /\ UNCHANGED <<due, fired, past, running, cutoff, rulesLeft, failed, histVars, failures>>

\* The session of e is closed.
End(e) ==
    /\ running' = running \ {e}
    /\ cutoff' = [cutoff EXCEPT ![e] = [r \in Rules |-> {}]]
    /\ rulesLeft' = [rulesLeft EXCEPT ![e] = {}]
    /\ todo' = [todo EXCEPT ![e] = {}]
    /\ added' = [added EXCEPT ![e] = {}]

Commit(e) ==
    /\ e \in running
    /\ todo[e] = {} /\ rulesLeft[e] = {}
    /\ fired' = [s \in Subjects |-> IF s \in added[e] THEN fired[s] \cup {e} ELSE fired[s]]
    /\ End(e)
    /\ UNCHANGED <<due, sent, past, failed, histVars, failures>>

\* The session is closed without a commit: all events of the evaluation are
\* gone, also those it has sent.
RollBack(e) ==
    /\ End(e)
    /\ failed' = failed \cup {e}
    /\ UNCHANGED <<due, eventVars, past, histVars>>

\* Two events in the window: scalar_one_or_none raises MultipleResultsFound.
Stumble(e, s) ==
    /\ e \in running
    /\ s \in todo[e]
    /\ \E f, g \in Recent(e, s) : f # g
    /\ RollBack(e)
    /\ UNCHANGED failures

\* A node or a rule is deleted under the evaluation, the database or the
\* worker is lost.
Fail(e) ==
    /\ e \in running
    /\ failures < MaxFailures
    /\ failures' = failures + 1
    /\ RollBack(e)

\* The beginning of an evaluation leaves the window of a rule.  No window is
\* shorter than the 1800 seconds of the soft limit of every task, so that the
\* evaluation has ended.
WindowPasses(r, e) ==
    /\ e \notin running
    /\ e \notin past[r]
    /\ \E s \in Subjects : RuleOf[s] = r /\ e \in fired[s] \cup sent[s]
    /\ past' = [past EXCEPT ![r] = @ \cup {e}]
    /\ UNCHANGED <<due, eventVars, running, cutoff, evaluationVars, failed, histVars, failures>>

\* A node reports again or falls silent, drifts, gets a finding, ...
ConditionChanges(s) ==
    /\ due' = IF s \in due THEN due \ {s} ELSE due \cup {s}
    /\ UNCHANGED <<eventVars, past, running, cutoff, evaluationVars, failed, histVars, failures>>

InitAlerts ==
    /\ due = {}
    /\ fired = [s \in Subjects |-> {}]
    /\ past = [r \in Rules |-> {}]
    /\ running = {}
    /\ cutoff = [e \in Evaluations |-> [r \in Rules |-> {}]]
    /\ rulesLeft = [e \in Evaluations |-> {}]
    /\ todo = [e \in Evaluations |-> {}]
    /\ added = [e \in Evaluations |-> {}]
    /\ sent = [s \in Subjects |-> {}]
    /\ failed = {}
    /\ met = [e \in Evaluations |-> {}]
    /\ overlaps = 0
    /\ failures = 0

Evaluate(e) ==
    \/ \E r \in Rules : ReadDue(e, r)
    \/ \E s \in Subjects : SkipReported(e, s) \/ Fire(e, s) \/ Stumble(e, s)
    \/ Commit(e)

Alerting ==
    \/ \E e \in Evaluations : Begin(e) \/ Evaluate(e) \/ Fail(e)
    \/ \E r \in Rules, e \in Evaluations : WindowPasses(r, e)
    \/ \E s \in Subjects : ConditionChanges(s)

AlertSpec == InitAlerts /\ [][Alerting]_alertVars

\* Beat starts evaluations again and again, a worker that began one goes on,
\* and time passes.
FairAlertSpec ==
    /\ AlertSpec
    /\ WF_alertVars(\E e \in Evaluations : Begin(e))
    /\ \A e \in Evaluations : WF_alertVars(Evaluate(e))
    /\ \A r \in Rules, e \in Evaluations : WF_alertVars(WindowPasses(r, e))
-----------------------------------------------------------------------------
(* Properties *)

AlertsTypeOK ==
    /\ due \subseteq Subjects
    /\ fired \in [Subjects -> SUBSET Evaluations]
    /\ past \in [Rules -> SUBSET Evaluations]
    /\ running \subseteq Evaluations
    /\ cutoff \in [Evaluations -> [Rules -> SUBSET Evaluations]]
    /\ rulesLeft \in [Evaluations -> SUBSET Rules]
    /\ todo \in [Evaluations -> SUBSET Subjects]
    /\ added \in [Evaluations -> SUBSET Subjects]
    /\ sent \in [Subjects -> SUBSET Evaluations]
    /\ failed \subseteq Evaluations
    /\ met \in [Evaluations -> SUBSET Evaluations]
    /\ overlaps \in 0..MaxOverlaps
    /\ failures \in 0..MaxFailures
    /\ \A e \in Evaluations \ running :
          rulesLeft[e] = {} /\ todo[e] = {} /\ added[e] = {}

\* "once per 30 min" (alert_svc.py:94), "once per hour" (227): within the
\* window of its rule a subject is alerted of a second time only by an
\* evaluation that ran together with the first one, or if one of the two did
\* not commit.
AlertedOnce ==
    \A s \in Subjects :
        \A e, f \in sent[s] \ past[RuleOf[s]] :
            e # f => e \in failed \/ f \in failed \/ f \in met[e]

\* A subject that stays due is on record within its window in the end,
\* although two events of one subject make every evaluation fail, those of
\* the other rules too: the events leave their windows.
DueIsReported ==
    \A s \in Subjects : s \in due ~> s \notin due \/ fired[s] \ past[RuleOf[s]] # {}
=============================================================================
