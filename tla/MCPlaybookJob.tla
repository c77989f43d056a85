--------------------------- MODULE MCPlaybookJob ---------------------------
(* Small instances of PlaybookJob for TLC: jobs that run one playbook on   *)
(* one node.                                                               *)
EXTENDS PlaybookJob

SameTarget == [j \in Jobs |-> "node"]
SamePlaybook == [j \in Jobs |-> "patch"]

FirstJob == CHOOSE j \in Jobs : TRUE

\* One job may be delivered three times, the others once.
OneThrice == [j \in Jobs |-> IF j = FirstJob THEN 3 ELSE 1]

\* Every job, delivered once; one job, delivered three times; one job,
\* delivered twice, and cancelled or with Redis failing.
FourWorkloads ==
    {[jobs |-> Jobs, deliveries |-> 1, cancels |-> {}, faults |-> {"kill"}],
     [jobs |-> {FirstJob}, deliveries |-> 3, cancels |-> {}, faults |-> {}],
     [jobs |-> {FirstJob}, deliveries |-> 2, cancels |-> Cancels, faults |-> {"kill", "late"}],
     [jobs |-> {FirstJob}, deliveries |-> 2, cancels |-> {}, faults |-> Faults]}
=============================================================================
