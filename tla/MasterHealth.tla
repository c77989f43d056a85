---------------------------- MODULE MasterHealth ----------------------------
(***************************************************************************)
(* The health of Salt masters: the probe (services/salt_master_probe.py),  *)
(* its periodic run (poll_salt_masters of workers/maintenance.py) and its  *)
(* run on request (test_salt_master of api/routes/salt_masters.py).  Both  *)
(* load the row, probe the master for up to a minute, then write the row.  *)
(*                                                                         *)
(* The world: for each master, what its name, its ports and its salt-api   *)
(* answer.  A probe sees one such condition; that it may change between    *)
(* two checks of one probe is left out.                                    *)
(***************************************************************************)
EXTENDS SaltMasters

CONSTANTS
    Pollers,       \* runs of poll_salt_masters, which may overlap
    Tests,         \* requests to test a master
    Conditions     \* bound: what masters may answer

\* Answers: of the resolver and of a port; of one call of the salt-api; and
\* what the row says of the delivery of tokens.
Answer == {"ok", "error"}
ApiAnswer == {"ok", "unauthorized", "forbidden", "denied", "outdated", "error"}
TokenDelivery == {"direct", "ingest", "ingestWithoutUrl"}

Condition == [dns : Answer, publish : Answer, ret : Answer, configured : BOOLEAN,
              auth : ApiAnswer, keys : ApiAnswer, versions : ApiAnswer, minions : ApiAnswer,
              token : TokenDelivery]

ASSUME ConditionsAssumption == Conditions \subseteq Condition /\ Conditions # {}

VARIABLES
    condition,    \* what each master answers
    mstatus,      \* column status of each master
    checked,      \* age of its last_checked_at
    poller,       \* what each poll has read
    test,         \* what each test has read
    faults        \* how often a condition changed

healthVars == <<condition, mstatus, checked, poller, test, faults>>

MasterStatus == {"unknown", "healthy", "degraded", "unreachable"}

-----------------------------------------------------------------------------
(* The probe                                                               *)

CheckDns(c) == IF c.dns = "ok" THEN "pass" ELSE "fail"
CheckTcp(answer) == IF answer = "ok" THEN "pass" ELSE "fail"

\* 401, 403 and every other error fail.
CheckSaltApiAuth(c) ==
    IF c.configured /\ c.auth \in {"ok", "denied", "outdated"} THEN "pass" ELSE "fail"

\* A refusal may also come as text in an answer 200.
CheckKeyStore(c) == IF c.keys \in {"ok", "outdated"} THEN "pass" ELSE "fail"

\* The last two runner calls only ever warn.
CheckVersion(c) == IF c.versions \in {"ok", "denied"} THEN "pass" ELSE "warn"
CheckMinionsUp(c) == IF c.minions \in {"ok", "denied", "outdated"} THEN "pass" ELSE "warn"

CheckTokenDelivery(c) == IF c.token = "ingestWithoutUrl" THEN "warn" ELSE "pass"

\* run_probe: the checks that need the salt-api are skipped without it.
Checks(c) ==
    LET authorised == CheckSaltApiAuth(c) = "pass" IN
    [dns |-> CheckDns(c), tcp_4505 |-> CheckTcp(c.publish), tcp_4506 |-> CheckTcp(c.ret),
     salt_api_auth |-> CheckSaltApiAuth(c),
     key_store |-> IF authorised THEN CheckKeyStore(c) ELSE "fail",
     version |-> IF authorised THEN CheckVersion(c) ELSE "warn",
     minions_up |-> IF authorised THEN CheckMinionsUp(c) ELSE "warn",
     token_delivery |-> CheckTokenDelivery(c)]

Aggregate(checks) ==
    IF checks.salt_api_auth = "fail" THEN "unreachable"
    ELSE IF \A k \in DOMAIN checks : checks[k] = "pass" THEN "healthy"
    ELSE "degraded"

Probe(m) == Aggregate(Checks(condition[m]))

-----------------------------------------------------------------------------
(* poll_salt_masters                                                       *)

\* MUTANT of BacksOff: the age of the last check is not looked at.
BacksOffForever(m) == mstatus[m] = "unreachable" /\ checked[m] # "null"

\* An unreachable master is polled again only five minutes later.
BacksOff(m) == mstatus[m] = "unreachable" /\ checked[m] = "recent"

NoPoll == [step |-> "idle", left |-> {}, was |-> [m \in Masters |-> "unknown"],
           result |-> [m \in Masters |-> "none"]]

PollStart(p) ==
    LET due == {m \in enabled : ~BacksOff(m)} IN
    /\ p \in workload.actors
    /\ poller[p].step = "idle"
    /\ due # {}
    /\ poller' = [poller EXCEPT ![p] =
                    [step |-> "probe", left |-> due, was |-> mstatus, result |-> NoPoll.result]]
    /\ UNCHANGED <<condition, mstatus, checked, test, faults>>

\* The probes run concurrently.
PollProbe(p, m) ==
    /\ poller[p].step = "probe"
    /\ m \in poller[p].left
    /\ poller' = [poller EXCEPT ![p] =
                    [step |-> "probe", left |-> @.left \ {m}, was |-> @.was,
                     result |-> [@.result EXCEPT ![m] = Probe(m)]]]
    /\ UNCHANGED <<condition, mstatus, checked, test, faults>>

Polled(p) == {m \in Masters : poller[p].result[m] # "none"}

\* What is written for a polled master: the status only if it differs from
\* the one loaded, the time always.
Written(p, m) == IF poller[p].result[m] = poller[p].was[m] THEN mstatus[m] ELSE poller[p].result[m]

\* One commit for all; when one of them was deleted, nothing is written.
PollCommit(p) ==
    /\ poller[p].step = "probe"
    /\ poller[p].left = {}
    /\ IF Polled(p) \subseteq registered
       THEN /\ mstatus' = [m \in Masters |-> IF m \in Polled(p) THEN Written(p, m) ELSE mstatus[m]]
            /\ checked' = [m \in Masters |-> IF m \in Polled(p) THEN "recent" ELSE checked[m]]
       ELSE UNCHANGED <<mstatus, checked>>
    /\ poller' = [poller EXCEPT ![p] = NoPoll]
    /\ UNCHANGED <<condition, test, faults>>

-----------------------------------------------------------------------------
(* test_salt_master                                                        *)

TestLoad(t, m) ==
    /\ t \in workload.actors
    /\ test[t].step = "idle"
    /\ m \in registered
    /\ test' = [test EXCEPT ![t] = [step |-> "probe", of |-> m, was |-> mstatus[m], result |-> "none"]]
    /\ UNCHANGED <<condition, mstatus, checked, poller, faults>>

\* A probe that takes too long counts as unreachable.
TestProbe(t) ==
    /\ test[t].step = "probe"
    /\ \E r \in {Probe(test[t].of), "unreachable"} :
          test' = [test EXCEPT ![t] = [step |-> "commit", of |-> @.of, was |-> @.was, result |-> r]]
    /\ UNCHANGED <<condition, mstatus, checked, poller, faults>>

TestCommit(t) ==
    LET m == test[t].of IN
    /\ test[t].step = "commit"
    /\ IF m \in registered
       THEN /\ mstatus' = [mstatus EXCEPT ![m] = IF test[t].result = test[t].was THEN @ ELSE test[t].result]
            /\ checked' = [checked EXCEPT ![m] = "recent"]
       ELSE UNCHANGED <<mstatus, checked>>
    /\ test' = [test EXCEPT ![t].step = "done"]
    /\ UNCHANGED <<condition, poller, faults>>

-----------------------------------------------------------------------------
\* Five minutes pass after a check.
CheckAges(m) ==
    /\ checked[m] = "recent"
    /\ checked' = [checked EXCEPT ![m] = "old"]
    /\ UNCHANGED <<condition, mstatus, poller, test, faults>>

ConditionChanges(m) ==
    /\ faults < workload.faults
    /\ faults' = faults + 1
    /\ \E c \in Conditions : condition' = [condition EXCEPT ![m] = c]
    /\ UNCHANGED <<mstatus, checked, poller, test>>

InitHealth ==
    /\ condition = [m \in Masters |-> workload.condition]
    /\ mstatus = [m \in Masters |-> "unknown"]
    /\ checked = [m \in Masters |-> "null"]
    /\ poller = [p \in Pollers |-> NoPoll]
    /\ test = [t \in Tests |-> [step |-> "idle", of |-> NoMaster, was |-> "unknown", result |-> "none"]]
    /\ faults = 0

Poll(p) == PollStart(p) \/ (\E m \in Masters : PollProbe(p, m)) \/ PollCommit(p)

Test(t) == (\E m \in Masters : TestLoad(t, m)) \/ TestProbe(t) \/ TestCommit(t)

Health ==
    \/ \E p \in Pollers : Poll(p)
    \/ \E t \in Tests : Test(t)
    \/ \E m \in Masters : CheckAges(m) \/ ConditionChanges(m)

\* Beat runs the poll every 30 seconds; the probes are bounded by timeouts.
HealthFairness ==
    /\ \A p \in Pollers : WF_healthVars(Poll(p))
    /\ \A m \in Masters : WF_checked(CheckAges(m))
=============================================================================
