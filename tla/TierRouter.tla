----------------------------- MODULE TierRouter -----------------------------
(***************************************************************************)
(* The choice of a model's endpoint for the agent (services/tier_router.py)*)
(* and the daily budget of the paid ones (services/cost_tracker.py).       *)
(*                                                                         *)
(* Health and load are kept in the process; the spend is kept in Redis     *)
(* and, whenever Redis does not answer, in the process.  One process, one  *)
(* day.  The endpoints are the enabled ones.                               *)
(***************************************************************************)
EXTENDS Naturals, FiniteSets

CONSTANTS
    Endpoints,
    Planner, General, Cloud,   \* those that bear the tag
    Paid,                      \* those of a provider that costs something
    Default,                   \* the default one, if any
    DailyCap                   \* the budget, in calls of a model

ASSUME EndpointsAssumption ==
    /\ IsFiniteSet(Endpoints)
    /\ Planner \cup General \cup Cloud \cup Paid \cup Default \subseteq Endpoints
    /\ \A d, e \in Default : d = e
    /\ DailyCap \in Nat

VARIABLES
    load,         \* leases of each endpoint
    cooling,      \* endpoints marked unhealthy
    spend,        \* the day's spend in Redis
    spendHere,    \* the spend counted in the process
    redis         \* Redis answers

routerVars == <<load, cooling, spend, spendHere, redis>>

Healthy(S) == S \ cooling

\* The least loaded healthy one, the default one first; a tie is broken by name.
SelectAmong(S) ==
    LET least == {e \in Healthy(S) : \A o \in Healthy(S) : load[e] <= load[o]} IN
    IF least \cap Default # {} THEN least \cap Default ELSE least

\* MUTANT of CanSpend: off by one.
CanSpendCap == (IF redis THEN spend ELSE spendHere) <= DailyCap

CanSpend == (IF redis THEN spend ELSE spendHere) < DailyCap

\* select_endpoint(db, "planner"): the tags of the chain in turn, then the
\* cloud for those who may use it.
Local == IF SelectAmong(Planner) # {} THEN SelectAmong(Planner) ELSE SelectAmong(General)
Fallback(allowCloud) == IF Local = {} /\ allowCloud /\ CanSpend THEN SelectAmong(Cloud) ELSE {}

Acquire(e) == load' = [load EXCEPT ![e] = @ + 1]
Release(e) == load' = [load EXCEPT ![e] = IF @ > 0 THEN @ - 1 ELSE 0]

\* record_tokens_for_endpoint: only a paid endpoint costs something.
RecordTokens(e, n) ==
    LET cost == IF e \in Paid THEN n ELSE 0 IN
    /\ spend' = IF redis THEN spend + cost ELSE spend
    /\ spendHere' = IF redis THEN spendHere ELSE spendHere + cost
    /\ UNCHANGED <<cooling, redis>>

\* A minute after the failure.
CooldownEnds(e) ==
    /\ e \in cooling
    /\ cooling' = cooling \ {e}
    /\ UNCHANGED <<load, spend, spendHere, redis>>

RedisTurns ==
    /\ redis' = ~redis
    /\ UNCHANGED <<load, cooling, spend, spendHere>>

\* The process starts anew.
RouterRestarts ==
    /\ load' = [e \in Endpoints |-> 0]
    /\ cooling' = {}
    /\ spendHere' = 0
    /\ UNCHANGED <<spend, redis>>

InitRouter ==
    /\ load = [e \in Endpoints |-> 0]
    /\ cooling = {}
    /\ spend = 0
    /\ spendHere = 0
    /\ redis = TRUE
=============================================================================
