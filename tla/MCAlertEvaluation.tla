-------------------------- MODULE MCAlertEvaluation --------------------------
(***************************************************************************)
(* Instances of AlertEvaluation for TLC.                                   *)
(***************************************************************************)
EXTENDS AlertEvaluation

CONSTANTS offline, drifted, web, db

\* Two rules, each with one node it watches: trouble with one of the two must
\* not silence the other for good.
MCRuleOf == [s \in Subjects |-> IF s = web THEN offline ELSE drifted]
=============================================================================
