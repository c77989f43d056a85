-------------------------- MODULE MonitoringProofs --------------------------
(***************************************************************************)
(* Theorems about what watches the fleet: the drift of a node              *)
(* (DriftEngine, DriftCompute) and the alerts (AlertEvaluation).           *)
(*                                                                         *)
(* Drift, for any number of requests, retries and lost workers, and for    *)
(* any grains and baselines: while no key has expired under a running      *)
(* task, the task in the locked section is the one that set the key, so    *)
(* that nobody writes between its reading of the score and its commit; the *)
(* facts it reads are not older than those of the newest record; and as    *)
(* long as no computation is missed, somebody who will see the latest fact *)
(* is under way.                                                           *)
(*                                                                         *)
(* Alerts, for any rules, subjects and evaluations and any number of       *)
(* overlaps and failures: that an alert repeats only for a reason on       *)
(* record follows from what an evaluation can see.  Whoever alerted of the *)
(* subject before it is still running, did not commit, or has left an      *)
(* event (Sent); an event it does not find was out of the window when it   *)
(* began, and still is (Cutoff); and whoever is still running has met it   *)
(* (Met).                                                                  *)
(***************************************************************************)
EXTENDS DriftCompute, AlertEvaluation, FiniteSetTheorems, SequenceTheorems, TLAPS

-----------------------------------------------------------------------------
(* The engine                                                              *)

\* The score is at most 100.
LEMMA ScoreRange ==
    ASSUME NEW g, NEW d, IsDesiredState(d)
    PROVE  Score(g, d) \in 0 .. 100
<1>1. /\ IsFiniteSet(Missing(g, d)) /\ IsFiniteSet(Extra(g, d))
      /\ IsFiniteSet(Major(g, d)) /\ IsFiniteSet(Mismatched(g, d) \ Major(g, d))
    BY FS_Subset DEF IsDesiredState, Missing, Extra, Major, Mismatched
<1>2. IsFiniteSet(ServiceDrift(g, d))
    BY FS_Subset, FS_Union DEF IsDesiredState, ServiceDrift
<1>3. /\ Cardinality(Missing(g, d)) \in Nat /\ Cardinality(Extra(g, d)) \in Nat
      /\ Cardinality(Major(g, d)) \in Nat
      /\ Cardinality(Mismatched(g, d) \ Major(g, d)) \in Nat
      /\ Cardinality(ServiceDrift(g, d)) \in Nat
    BY <1>1, <1>2, FS_CardinalityType
<1>4. Penalty(g, d) \in Nat
    BY <1>3 DEF Penalty
<1> QED BY <1>4 DEF Score

\* It is 0 just when nothing is reported.
LEMMA ScoreZero ==
    ASSUME NEW g, NEW d, IsDesiredState(d)
    PROVE  Score(g, d) = 0 <=>
               /\ Missing(g, d) = {} /\ Extra(g, d) = {}
               /\ Mismatched(g, d) = {} /\ ServiceDrift(g, d) = {}
<1> DEFINE minor == Mismatched(g, d) \ Major(g, d)
<1>1. /\ IsFiniteSet(Missing(g, d)) /\ IsFiniteSet(Extra(g, d))
      /\ IsFiniteSet(Major(g, d)) /\ IsFiniteSet(minor)
    BY FS_Subset DEF IsDesiredState, Missing, Extra, Major, Mismatched
<1>2. IsFiniteSet(ServiceDrift(g, d))
    BY FS_Subset, FS_Union DEF IsDesiredState, ServiceDrift
<1>3. /\ Cardinality(Missing(g, d)) \in Nat /\ Cardinality(Extra(g, d)) \in Nat
      /\ Cardinality(Major(g, d)) \in Nat /\ Cardinality(minor) \in Nat
      /\ Cardinality(ServiceDrift(g, d)) \in Nat
    BY <1>1, <1>2, FS_CardinalityType
<1>4. /\ Cardinality(Missing(g, d)) = 0 <=> Missing(g, d) = {}
      /\ Cardinality(Extra(g, d)) = 0 <=> Extra(g, d) = {}
      /\ Cardinality(Major(g, d)) = 0 <=> Major(g, d) = {}
      /\ Cardinality(minor) = 0 <=> minor = {}
      /\ Cardinality(ServiceDrift(g, d)) = 0 <=> ServiceDrift(g, d) = {}
    BY <1>1, <1>2, FS_EmptySet
<1>5. Major(g, d) \subseteq Mismatched(g, d)
    BY DEF Major
<1>6. Mismatched(g, d) = {} <=> Major(g, d) = {} /\ minor = {}
    BY <1>5
<1>7. /\ Penalty(g, d) \in Nat
      /\ Penalty(g, d) = 0 <=>
          /\ Cardinality(Missing(g, d)) = 0 /\ Cardinality(Extra(g, d)) = 0
          /\ Cardinality(Major(g, d)) = 0 /\ Cardinality(minor) = 0
          /\ Cardinality(ServiceDrift(g, d)) = 0
    <2> DEFINE a == Cardinality(Missing(g, d))
               b == Cardinality(Extra(g, d))
               c == Cardinality(Major(g, d))
               m == Cardinality(minor)
               s == Cardinality(ServiceDrift(g, d))
    <2>1. Penalty(g, d) = 20 * a + 10 * b + 15 * c + 5 * m + 15 * s
        BY DEF Penalty
    <2>2. a \in Nat /\ b \in Nat /\ c \in Nat /\ m \in Nat /\ s \in Nat
        BY <1>3
    <2> HIDE DEF a, b, c, m, s
    <2>3. Penalty(g, d) \in Nat
        BY <2>1, <2>2
    <2>4. Penalty(g, d) = 0 <=> a = 0 /\ b = 0 /\ c = 0 /\ m = 0 /\ s = 0
        BY <2>1, <2>2
    <2> QED BY <2>3, <2>4 DEF a, b, c, m, s
<1>8. Score(g, d) = 0 <=> Penalty(g, d) = 0
    BY <1>7 DEF Score
<1> QED BY <1>4, <1>6, <1>7, <1>8

\* A version that is not less is at least the other; and the converse if it
\* is not the shorter one.
LEMMA VersionOrder ==
    ASSUME NEW v, NEW w, IsVersion(v), IsVersion(w), v # <<>>
    PROVE  /\ ~VersionLess(v, w) => AtLeast(v, w)
           /\ AtLeast(v, w) /\ Len(v) >= Len(w) => ~VersionLess(v, w)
<1>1. /\ Len(v) \in 1 .. 3 /\ Len(w) \in 0 .. 3
      /\ \A i \in 1 .. Len(v) : v[i] \in Nat
      /\ \A i \in 1 .. Len(w) : w[i] \in Nat
    <2>1. v \in Seq(Nat) /\ w \in Seq(Nat) /\ Len(v) <= 3 /\ Len(w) <= 3
        BY DEF IsVersion
    <2>2. Len(v) \in Nat /\ Len(v) # 0 /\ Len(w) \in Nat
        BY <2>1, EmptySeq, LenProperties
    <2>3. /\ \A i \in 1 .. Len(v) : v[i] \in Nat
          /\ \A i \in 1 .. Len(w) : w[i] \in Nat
        BY <2>1
    <2>4. \A n \in Nat : n <= 3 => n \in 0 .. 3 /\ (n # 0 => n \in 1 .. 3)
        OBVIOUS
    <2>5. Len(v) \in 1 .. 3 /\ Len(w) \in 0 .. 3
        <3>1. Len(v) <= 3 /\ Len(w) <= 3
            BY <2>1
        <3> QED BY <2>2, <2>4, <3>1
    <2> QED BY <2>3, <2>5
<1> DEFINE less(i) == /\ i <= Len(w) /\ Len(v) >= i - 1
                      /\ \A j \in 1 .. i - 1 : v[j] = w[j]
                      /\ Len(v) >= i => v[i] < w[i]
<1>2. VersionLess(v, w) <=> less(1) \/ less(2) \/ less(3)
    <2>1. VersionLess(v, w) <=> \E i \in 1 .. Len(w) : less(i)
        BY <1>1 DEF VersionLess
    <2>2. \A i \in 1 .. Len(w) : i \in {1, 2, 3}
        BY <1>1
    <2>3. \A i \in {1, 2, 3} : less(i) => i \in 1 .. Len(w)
        BY <1>1
    <2> QED BY <2>1, <2>2, <2>3
<1>3. less(1) <=> 1 <= Len(w) /\ (Len(v) >= 1 => v[1] < w[1])
    BY <1>1
<1>4. less(2) <=> 2 <= Len(w) /\ Len(v) >= 1 /\ v[1] = w[1] /\ (Len(v) >= 2 => v[2] < w[2])
    BY <1>1
<1>5. less(3) <=> /\ 3 <= Len(w) /\ Len(v) >= 2 /\ v[1] = w[1] /\ v[2] = w[2]
                  /\ Len(v) >= 3 => v[3] < w[3]
    BY <1>1
<1> HIDE DEF less
<1> QED BY <1>1, <1>2, <1>3, <1>4, <1>5 DEF AtLeast

\* A score of 0 means that the node conforms; a node that conforms scores 0
\* unless it reports a version with fewer parts than the one required.
LEMMA ZeroConforms ==
    ASSUME NEW g, NEW d, IsGrains(g), IsDesiredState(d)
    PROVE  /\ Score(g, d) = 0 => Conforms(g, d)
           /\ /\ Conforms(g, d)
              /\ \A p \in d.required :
                    p.name \in DOMAIN g.pkgs => Len(g.pkgs[p.name]) >= Len(p.version)
              => Score(g, d) = 0
<1>1. \A p \in d.required : p.name \in DOMAIN g.pkgs =>
          /\ ~VersionLess(g.pkgs[p.name], p.version) => AtLeast(g.pkgs[p.name], p.version)
          /\ AtLeast(g.pkgs[p.name], p.version) /\ Len(g.pkgs[p.name]) >= Len(p.version)
                => ~VersionLess(g.pkgs[p.name], p.version)
    BY VersionOrder DEF IsGrains, IsDesiredState
<1>2. Missing(g, d) = {} <=> \A p \in d.required : p.name \in DOMAIN g.pkgs
    BY DEF Missing
<1>3. Mismatched(g, d) = {} <=>
          \A p \in d.required : p.name \in DOMAIN g.pkgs =>
              ~VersionLess(g.pkgs[p.name], p.version)
    BY DEF Mismatched
<1>4. Extra(g, d) = {} <=> \A n \in d.forbidden : n \notin DOMAIN g.pkgs
    BY DEF Extra
<1>5. ServiceDrift(g, d) = {} <=> d.running \subseteq g.services /\ d.stopped \cap g.services = {}
    BY DEF ServiceDrift
<1> QED BY <1>1, <1>2, <1>3, <1>4, <1>5, ScoreZero DEF Conforms

-----------------------------------------------------------------------------
(* The inductive invariant of DriftCompute                                 *)

\* Stamps are distinct and there is a latest fact as soon as there is one.
StampInv ==
    /\ \A r \in Requests : collected[r] <= Cardinality(Stamped)
    /\ \A r, q \in Stamped : collected[r] = collected[q] => r = q
    /\ \A r \in Requests :
          /\ request[r] \in {"idle", "asked"} => r \notin Stamped
          /\ request[r] \in {"stamped", "committed", "done", "unsent"} => r \in Stamped
    /\ Stored # {} => \E r \in Stored : \A q \in Stored : collected[q] <= collected[r]

\* Whoever is in the locked section set the key.
LockInv == ~lapsed => \A t \in Requests : pc[t] \in Section => lock = {t}

\* What the tasks have read, and what the records say.
DataInv ==
    /\ \A t \in Requests : pc[t] = "read" => \E r \in Stored : seen[t] = {r}
    /\ \A t \in Requests : pc[t] = "computed" => \E d \in Record : result[t] = {d}
    /\ \A d, e \in newest : d = e
    /\ \A d \in newest : d.fact \in Stored /\ d.score = Score(report[d.fact], d.against)
    /\ \A t \in Requests : \A d \in result[t] :
          d.fact \in Stored /\ d.score = Score(report[d.fact], d.against)

\* The score a task has loaded is still the node's when it commits.
ScoreInv ==
    ~lapsed => /\ \A d \in newest : nodeScore = d.score
               /\ \A t \in Requests : pc[t] = "computed" => loaded[t] = nodeScore

\* What a task has read is not older than the newest record.
OrderInv ==
    ~lapsed => \A t \in Requests, e \in newest :
        /\ pc[t] = "read" => \A r \in seen[t] : collected[e.fact] <= collected[r]
        /\ pc[t] = "computed" => \A d \in result[t] : collected[e.fact] <= collected[d.fact]

\* A request or a task that leads to a computation on the latest fact, if
\* it does not count as missed.
WillSeeLatest(t) ==
    \/ request[t] = "committed"
    \/ pc[t] \in {"queued", "locked", "raised"}
    \/ pc[t] = "read" /\ seen[t] = {Latest}
    \/ pc[t] = "computed" /\ \A d \in result[t] : d.fact = Latest

MissedInv ==
    ~missed /\ ~lapsed /\ Stored # {} =>
        (\E d \in newest : d.fact = Latest) \/ \E t \in Requests : WillSeeLatest(t)

DriftIInv ==
    TypeOK /\ StampInv /\ LockInv /\ DataInv /\ ScoreInv /\ OrderInv /\ MissedInv

-----------------------------------------------------------------------------
\* Latest is the last of the facts that are committed.
LEMMA LatestFact ==
    ASSUME StampInv, Stored # {}
    PROVE  Latest \in Stored /\ \A q \in Stored : collected[q] <= collected[Latest]
BY DEF StampInv, Latest

\* It changes only when a fact is committed.
LEMMA SameLatest ==
    ASSUME TypeOK, StampInv, StampInv', Stored' = Stored, Stored # {},
           \A r \in Stored : collected'[r] = collected[r]
    PROVE  Latest' = Latest
<1>1. Latest \in Stored /\ \A q \in Stored : collected[q] <= collected[Latest]
    BY LatestFact
<1>2. Latest' \in Stored /\ \A q \in Stored : collected[q] <= collected[Latest']
    <2>1. \E r \in Stored : \A q \in Stored : collected'[q] <= collected'[r]
        BY <1>1
    <2>2. Latest' \in Stored /\ \A q \in Stored : collected'[q] <= collected'[Latest']
        BY <2>1 DEF Latest
    <2> QED BY <2>2
<1>3. collected[Latest] = collected[Latest'] /\ Stored \subseteq Stamped
    BY <1>1, <1>2 DEF TypeOK, StampInv, Stored
<1> QED BY <1>1, <1>2, <1>3 DEF StampInv

\* Every variable keeps its type.
LEMMA TypeStep ==
    ASSUME TypeOK, StampInv, [Next]_vars
    PROVE  TypeOK'
<1> USE DEF TypeOK, requestVars, baselineVars, rowVars, taskVars, localVars, Goto
<1>1. ASSUME NEW t \in Requests, Stamp(t) PROVE TypeOK'
    <2>1. Cardinality(Stamped) \in Nat
        BY RequestsAssumption, FS_Subset, FS_CardinalityType DEF Stamped
    <2> QED BY <1>1, <2>1 DEF Stamp, RequestStep
<1>2. ASSUME NEW t \in Requests, CommitFact(t) PROVE TypeOK'
    BY <1>2 DEF CommitFact, RequestStep
<1>3. ASSUME NEW t \in Requests, SendTask(t) PROVE TypeOK'
    BY <1>3 DEF SendTask, TaskStep, Section, RequestStep
<1>4. ASSUME NEW t \in Requests, IngestFails(t) PROVE TypeOK'
    BY <1>4 DEF IngestFails, RequestStep
<1>5. ASSUME NEW t \in Requests, Trigger(t) PROVE TypeOK'
    BY <1>5 DEF Trigger, TaskStep, Section, RequestStep
<1>6. ASSUME NEW t \in Requests, AcquireLock(t) PROVE TypeOK'
    BY <1>6 DEF AcquireLock, TaskStep, Section
<1>7. ASSUME NEW t \in Requests, SkipDuplicate(t) PROVE TypeOK'
    BY <1>7 DEF SkipDuplicate, TaskStep, Section
<1>8. ASSUME NEW t \in Requests, LockFails(t) PROVE TypeOK'
    <2>1. /\ pc' \in [Requests -> TaskStep] /\ tries' \in [Requests -> 0 .. MaxRetries]
          /\ missed' \in BOOLEAN
        <3>1. CASE tries[t] < MaxRetries
            BY <1>8, <3>1, LimitsAssumption DEF LockFails, Retry, TaskStep, Section
        <3>2. CASE ~(tries[t] < MaxRetries)
            BY <1>8, <3>2 DEF LockFails, Retry, TaskStep, Section
        <3> QED BY <3>1, <3>2
    <2>2. /\ lock' \subseteq Requests /\ UNCHANGED <<requestVars, baselineVars, rowVars, losses, lapsed>>
        BY <1>8 DEF LockFails
    <2>3. /\ seen' \in [Requests -> SUBSET Requests] /\ loaded' \in [Requests -> 0 .. 100]
          /\ result' \in [Requests -> SUBSET Record]
        BY <1>8 DEF LockFails, Forget
    <2> QED BY <2>1, <2>2, <2>3
<1>9. ASSUME NEW t \in Requests, ReadFact(t) PROVE TypeOK'
    <2>1. Stored # {} => Latest \in Requests
        BY LatestFact DEF Stored
    <2> QED BY <1>9, <2>1 DEF ReadFact, TaskStep, Section
<1>10. ASSUME NEW t \in Requests, ReadBaseline(t) PROVE TypeOK'
    <2>1. \A r \in Requests, d \in DesiredStates : Score(report[r], d) \in 0 .. 100
        BY ScoreRange, DataAssumption
    <2>2. \A r \in seen[t], d \in desired :
              [fact |-> r, against |-> d, score |-> Score(report[r], d)] \in Record
        BY <2>1 DEF Record
    <2>3. result' \in [Requests -> SUBSET Record]
        <3>1. CASE desired = {}
            BY <1>10, <3>1 DEF ReadBaseline
        <3>2. CASE desired # {}
            <4>1. PICK r \in seen[t], d \in desired :
                      result' = [result EXCEPT ![t] =
                          {[fact |-> r, against |-> d, score |-> Score(report[r], d)]}]
                BY <1>10, <3>2 DEF ReadBaseline
            <4> QED BY <2>2, <4>1
        <3> QED BY <3>1, <3>2
    <2>4. /\ pc' \in [Requests -> TaskStep] /\ loaded' \in [Requests -> 0 .. 100]
          /\ missed' \in BOOLEAN
        <3>1. CASE desired = {}
            BY <1>10, <3>1 DEF ReadBaseline, TaskStep, Section
        <3>2. CASE desired # {}
            <4>1. /\ pc' = [pc EXCEPT ![t] = "computed"] /\ missed' = missed
                  /\ loaded' = [loaded EXCEPT ![t] = nodeScore]
                BY <1>10, <3>2 DEF ReadBaseline
            <4> QED BY <4>1 DEF TaskStep, Section
        <3> QED BY <3>1, <3>2
    <2> QED BY <1>10, <2>3, <2>4 DEF ReadBaseline
<1>11. ASSUME NEW t \in Requests, CommitScore(t) PROVE TypeOK'
    BY <1>11 DEF CommitScore, TaskStep, Section, Record
<1>12. ASSUME NEW t \in Requests, Raise(t) PROVE TypeOK'
    BY <1>12 DEF Raise, TaskStep, Section
<1>13. ASSUME NEW t \in Requests, Release(t) PROVE TypeOK'
    <2>1. /\ pc' \in [Requests -> TaskStep] /\ tries' \in [Requests -> 0 .. MaxRetries]
          /\ missed' \in BOOLEAN
        <3>1. CASE tries[t] < MaxRetries
            BY <1>13, <3>1, LimitsAssumption DEF Release, Retry, TaskStep, Section
        <3>2. CASE ~(tries[t] < MaxRetries)
            BY <1>13, <3>2 DEF Release, Retry, TaskStep, Section
        <3> QED BY <3>1, <3>2
    <2>2. /\ lock' \subseteq Requests /\ UNCHANGED <<requestVars, baselineVars, rowVars, losses, lapsed>>
        BY <1>13 DEF Release
    <2>3. /\ seen' \in [Requests -> SUBSET Requests] /\ loaded' \in [Requests -> 0 .. 100]
          /\ result' \in [Requests -> SUBSET Record]
        BY <1>13 DEF Release, Forget
    <2> QED BY <2>1, <2>2, <2>3
<1>14. ASSUME NEW t \in Requests, ReleaseFails(t) PROVE TypeOK'
    <2>1. /\ pc' \in [Requests -> TaskStep] /\ tries' \in [Requests -> 0 .. MaxRetries]
          /\ missed' \in BOOLEAN
        <3>1. CASE tries[t] < MaxRetries
            BY <1>14, <3>1, LimitsAssumption DEF ReleaseFails, Retry, TaskStep, Section
        <3>2. CASE ~(tries[t] < MaxRetries)
            BY <1>14, <3>2 DEF ReleaseFails, Retry, TaskStep, Section
        <3> QED BY <3>1, <3>2
    <2>2. /\ lock' \subseteq Requests /\ UNCHANGED <<requestVars, baselineVars, rowVars, losses, lapsed>>
        BY <1>14 DEF ReleaseFails
    <2>3. /\ seen' \in [Requests -> SUBSET Requests] /\ loaded' \in [Requests -> 0 .. 100]
          /\ result' \in [Requests -> SUBSET Record]
        BY <1>14 DEF ReleaseFails, Forget
    <2> QED BY <2>1, <2>2, <2>3
<1>15. ASSUME NEW t \in Requests, WorkerLost(t) PROVE TypeOK'
    BY <1>15, LimitsAssumption DEF WorkerLost, TaskStep, Section, Forget
<1>16. ASSUME NEW d \in DesiredStates, WriteBaseline(d) PROVE TypeOK'
    BY <1>16, LimitsAssumption DEF WriteBaseline
<1>17. CASE LockExpires
    BY <1>17 DEF LockExpires, TaskStep, Section
<1>18. CASE UNCHANGED vars
    BY <1>18 DEF vars
<1> QED BY <1>1, <1>2, <1>3, <1>4, <1>5, <1>6, <1>7, <1>8, <1>9, <1>10, <1>11, <1>12,
        <1>13, <1>14, <1>15, <1>16, <1>17, <1>18
    DEF Next, Ingest, Compute

\* A stamp is above all that were given before it.
LEMMA StampStep ==
    ASSUME TypeOK, StampInv, [Next]_vars
    PROVE  StampInv'
<1> USE DEF TypeOK, StampInv, requestVars, baselineVars, rowVars, taskVars, localVars, Goto
<1>1. ASSUME NEW t \in Requests, Stamp(t) PROVE StampInv'
    <2>1. IsFiniteSet(Stamped) /\ Cardinality(Stamped) \in Nat
        BY RequestsAssumption, FS_Subset, FS_CardinalityType DEF Stamped
    <2>2. t \notin Stamped
        BY <1>1 DEF Stamp
    <2>3. Stamped' = Stamped \cup {t} /\ collected'[t] = Cardinality(Stamped) + 1
        <3>1. collected' = [collected EXCEPT ![t] = Cardinality(Stamped) + 1]
            BY <1>1 DEF Stamp
        <3>2. collected'[t] = Cardinality(Stamped) + 1 /\ collected'[t] # 0
            BY <2>1, <3>1
        <3>3. \A r \in Requests : collected'[r] # 0 <=> collected[r] # 0 \/ r = t
            BY <3>1, <3>2
        <3> QED BY <3>2, <3>3 DEF Stamped
    <2>4. Cardinality(Stamped') = Cardinality(Stamped) + 1
        BY <2>1, <2>2, <2>3, FS_AddElement
    <2>5. /\ Stored' = Stored /\ Stored \subseteq Stamped /\ t \notin Stored
          /\ \A r \in Requests \ {t} : collected'[r] = collected[r]
        BY <1>1, <2>2 DEF Stamp, Stored
    <2>6. \A r \in Requests : collected'[r] <= Cardinality(Stamped')
        BY <2>1, <2>3, <2>4, <2>5
    <2>7. \A r, q \in Stamped' : collected'[r] = collected'[q] => r = q
        <3>1. \A r \in Stamped : collected'[r] = collected[r] /\ collected[r] \in Nat
                                 /\ collected[r] <= Cardinality(Stamped)
            BY <2>2, <2>5 DEF Stamped
        <3> QED BY <2>1, <2>3, <3>1
    <2>8. Stored' # {} => \E r \in Stored' : \A q \in Stored' : collected'[q] <= collected'[r]
        <3>1. \A r \in Stored : collected'[r] = collected[r]
            BY <2>5 DEF Stored
        <3> QED BY <2>5, <3>1
    <2>9. \A r \in Requests :
             /\ request'[r] \in {"idle", "asked"} => r \notin Stamped'
             /\ request'[r] \in {"stamped", "committed", "done", "unsent"} => r \in Stamped'
        BY <1>1, <2>3 DEF Stamp
    <2> QED BY <2>6, <2>7, <2>8, <2>9
<1>2. ASSUME NEW t \in Requests, CommitFact(t) PROVE StampInv'
    <2>1. Stored' = Stored \cup {t} /\ Stamped' = Stamped /\ collected' = collected
        BY <1>2 DEF CommitFact, Stored, Stamped
    <2>2. \E r \in Stored' : \A q \in Stored' : collected'[q] <= collected'[r]
        <3>1. CASE Stored = {}
            BY <2>1, <3>1
        <3>2. ASSUME NEW r \in Stored, \A q \in Stored : collected[q] <= collected[r]
              PROVE  \E u \in Stored' : \A q \in Stored' : collected'[q] <= collected'[u]
            <4>1. \A q \in Stored \cup {t} : q \in Requests /\ collected[q] \in Nat
                BY DEF Stored
            <4>2. CASE collected[t] <= collected[r]
                BY <2>1, <3>2, <4>1, <4>2
            <4>3. CASE collected[r] < collected[t]
                <5> \A q \in Stored : collected[q] <= collected[t]
                    BY <3>2, <4>1, <4>3
                <5> QED BY <2>1, <4>1
            <4> QED BY <4>1, <4>2, <4>3
        <3> QED BY <3>1, <3>2
    <2> QED BY <1>2, <2>1, <2>2 DEF CommitFact
<1>3. ASSUME NEW t \in Requests, SendTask(t) PROVE StampInv'
    BY <1>3 DEF SendTask, Stored, Stamped
<1>4. ASSUME NEW t \in Requests, IngestFails(t) PROVE StampInv'
    BY <1>4 DEF IngestFails, Stored, Stamped
<1>5. ASSUME NEW t \in Requests, Trigger(t) PROVE StampInv'
    BY <1>5 DEF Trigger, Stored, Stamped
<1>6. ASSUME NEW t \in Requests, AcquireLock(t) PROVE StampInv'
    BY <1>6 DEF AcquireLock, Stored, Stamped
<1>7. ASSUME NEW t \in Requests, SkipDuplicate(t) PROVE StampInv'
    BY <1>7 DEF SkipDuplicate, Stored, Stamped
<1>8. ASSUME NEW t \in Requests, LockFails(t) PROVE StampInv'
    BY <1>8 DEF LockFails, Stored, Stamped, Retry, Forget
<1>9. ASSUME NEW t \in Requests, ReadFact(t) PROVE StampInv'
    BY <1>9 DEF ReadFact, Stored, Stamped
<1>10. ASSUME NEW t \in Requests, ReadBaseline(t) PROVE StampInv'
    BY <1>10 DEF ReadBaseline, Stored, Stamped
<1>11. ASSUME NEW t \in Requests, CommitScore(t) PROVE StampInv'
    BY <1>11 DEF CommitScore, Stored, Stamped
<1>12. ASSUME NEW t \in Requests, Raise(t) PROVE StampInv'
    BY <1>12 DEF Raise, Stored, Stamped
<1>13. ASSUME NEW t \in Requests, Release(t) PROVE StampInv'
    BY <1>13 DEF Release, Stored, Stamped, Retry, Forget
<1>14. ASSUME NEW t \in Requests, ReleaseFails(t) PROVE StampInv'
    BY <1>14 DEF ReleaseFails, Stored, Stamped, Retry, Forget
<1>15. ASSUME NEW t \in Requests, WorkerLost(t) PROVE StampInv'
    BY <1>15 DEF WorkerLost, Stored, Stamped
<1>16. ASSUME NEW d \in DesiredStates, WriteBaseline(d) PROVE StampInv'
    BY <1>16 DEF WriteBaseline, Stored, Stamped
<1>17. CASE LockExpires
    BY <1>17 DEF LockExpires, Stored, Stamped
<1>18. CASE UNCHANGED vars
    BY <1>18 DEF vars, Stored, Stamped
<1> QED BY <1>1, <1>2, <1>3, <1>4, <1>5, <1>6, <1>7, <1>8, <1>9, <1>10, <1>11, <1>12,
        <1>13, <1>14, <1>15, <1>16, <1>17, <1>18
    DEF Next, Ingest, Compute

\* The key is set only when nobody is in the section, and deleted by the
\* task that is.
LEMMA LockStep ==
    ASSUME TypeOK, LockInv, [Next]_vars
    PROVE  LockInv'
<1> USE DEF TypeOK, LockInv, requestVars, baselineVars, rowVars, taskVars, localVars, Goto
<1>1. ASSUME NEW t \in Requests, Stamp(t) PROVE LockInv'
    BY <1>1 DEF Stamp, Section
<1>2. ASSUME NEW t \in Requests, CommitFact(t) PROVE LockInv'
    BY <1>2 DEF CommitFact, Section
<1>3. ASSUME NEW t \in Requests, SendTask(t) PROVE LockInv'
    BY <1>3 DEF SendTask, Section
<1>4. ASSUME NEW t \in Requests, IngestFails(t) PROVE LockInv'
    BY <1>4 DEF IngestFails, Section
<1>5. ASSUME NEW t \in Requests, Trigger(t) PROVE LockInv'
    BY <1>5 DEF Trigger, Section
<1>6. ASSUME NEW t \in Requests, AcquireLock(t) PROVE LockInv'
    BY <1>6 DEF AcquireLock, Section
<1>7. ASSUME NEW t \in Requests, SkipDuplicate(t) PROVE LockInv'
    BY <1>7 DEF SkipDuplicate, Section
<1>8. ASSUME NEW t \in Requests, LockFails(t) PROVE LockInv'
    BY <1>8 DEF LockFails, Section, Retry
<1>9. ASSUME NEW t \in Requests, ReadFact(t) PROVE LockInv'
    BY <1>9 DEF ReadFact, Section
<1>10. ASSUME NEW t \in Requests, ReadBaseline(t) PROVE LockInv'
    BY <1>10 DEF ReadBaseline, Section
<1>11. ASSUME NEW t \in Requests, CommitScore(t) PROVE LockInv'
    BY <1>11 DEF CommitScore, Section
<1>12. ASSUME NEW t \in Requests, Raise(t) PROVE LockInv'
    BY <1>12 DEF Raise, Section
<1>13. ASSUME NEW t \in Requests, Release(t) PROVE LockInv'
    BY <1>13 DEF Release, Section, Retry
<1>14. ASSUME NEW t \in Requests, ReleaseFails(t) PROVE LockInv'
    BY <1>14 DEF ReleaseFails, Section, Retry
<1>15. ASSUME NEW t \in Requests, WorkerLost(t) PROVE LockInv'
    BY <1>15 DEF WorkerLost, Section
<1>16. ASSUME NEW d \in DesiredStates, WriteBaseline(d) PROVE LockInv'
    BY <1>16 DEF WriteBaseline, Section
<1>17. CASE LockExpires
    BY <1>17 DEF LockExpires, Section
<1>18. CASE UNCHANGED vars
    BY <1>18 DEF vars
<1> QED BY <1>1, <1>2, <1>3, <1>4, <1>5, <1>6, <1>7, <1>8, <1>9, <1>10, <1>11, <1>12,
        <1>13, <1>14, <1>15, <1>16, <1>17, <1>18
    DEF Next, Ingest, Compute

\* Records are made of committed facts, which stay.
LEMMA DataStep ==
    ASSUME TypeOK, StampInv, DataInv, [Next]_vars
    PROVE  DataInv'
<1> USE DEF TypeOK, DataInv, requestVars, baselineVars, rowVars, taskVars, localVars, Goto
<1>1. ASSUME NEW t \in Requests, Stamp(t) PROVE DataInv'
    BY <1>1 DEF Stamp, Stored
<1>2. ASSUME NEW t \in Requests, CommitFact(t) PROVE DataInv'
    BY <1>2 DEF CommitFact, Stored
<1>3. ASSUME NEW t \in Requests, SendTask(t) PROVE DataInv'
    BY <1>3 DEF SendTask, Stored
<1>4. ASSUME NEW t \in Requests, IngestFails(t) PROVE DataInv'
    BY <1>4 DEF IngestFails, Stored
<1>5. ASSUME NEW t \in Requests, Trigger(t) PROVE DataInv'
    BY <1>5 DEF Trigger, Stored
<1>6. ASSUME NEW t \in Requests, AcquireLock(t) PROVE DataInv'
    BY <1>6 DEF AcquireLock, Stored
<1>7. ASSUME NEW t \in Requests, SkipDuplicate(t) PROVE DataInv'
    BY <1>7 DEF SkipDuplicate, Stored
<1>8. ASSUME NEW t \in Requests, LockFails(t) PROVE DataInv'
    BY <1>8 DEF LockFails, Stored, Retry, Forget
<1>9. ASSUME NEW t \in Requests, ReadFact(t) PROVE DataInv'
    BY <1>9, LatestFact DEF ReadFact, Stored
<1>10. ASSUME NEW t \in Requests, ReadBaseline(t) PROVE DataInv'
    <2>1. Stored' = Stored
        BY <1>10 DEF ReadBaseline, Stored
    <2>2. CASE desired = {}
        BY <1>10, <2>1, <2>2 DEF ReadBaseline
    <2>3. CASE desired # {}
        <3>1. PICK r \in seen[t], d \in desired :
                  result' = [result EXCEPT ![t] =
                      {[fact |-> r, against |-> d, score |-> Score(report[r], d)]}]
            BY <1>10, <2>3 DEF ReadBaseline
        <3>2. r \in Stored
            BY <1>10 DEF ReadBaseline
        <3>3. result'[t] = {[fact |-> r, against |-> d, score |-> Score(report[r], d)]}
            BY <3>1
        <3>4. \E e \in Record : result'[t] = {e}
            <4>1. Score(report[r], d) \in 0 .. 100
                BY ScoreRange, DataAssumption
            <4> QED BY <3>3, <4>1 DEF Record
        <3>5. \A u \in Requests \ {t} : result'[u] = result[u] /\ pc'[u] = pc[u]
            BY <1>10, <3>1 DEF ReadBaseline
        <3>6. pc'[t] = "computed" /\ seen' = seen /\ newest' = newest /\ report' = report
            BY <1>10, <2>3 DEF ReadBaseline
        <3>7. \A u \in Requests : \A e \in result'[u] :
                  e.fact \in Stored' /\ e.score = Score(report'[e.fact], e.against)
            BY <2>1, <3>2, <3>3, <3>5, <3>6
        <3> QED BY <2>1, <3>4, <3>5, <3>6, <3>7
    <2> QED BY <2>2, <2>3
<1>11. ASSUME NEW t \in Requests, CommitScore(t) PROVE DataInv'
    BY <1>11 DEF CommitScore, Stored
<1>12. ASSUME NEW t \in Requests, Raise(t) PROVE DataInv'
    BY <1>12 DEF Raise, Stored
<1>13. ASSUME NEW t \in Requests, Release(t) PROVE DataInv'
    BY <1>13 DEF Release, Stored, Retry, Forget
<1>14. ASSUME NEW t \in Requests, ReleaseFails(t) PROVE DataInv'
    BY <1>14 DEF ReleaseFails, Stored, Retry, Forget
<1>15. ASSUME NEW t \in Requests, WorkerLost(t) PROVE DataInv'
    BY <1>15 DEF WorkerLost, Stored, Forget
<1>16. ASSUME NEW d \in DesiredStates, WriteBaseline(d) PROVE DataInv'
    BY <1>16 DEF WriteBaseline, Stored
<1>17. CASE LockExpires
    BY <1>17 DEF LockExpires, Stored
<1>18. CASE UNCHANGED vars
    BY <1>18 DEF vars, Stored
<1> QED BY <1>1, <1>2, <1>3, <1>4, <1>5, <1>6, <1>7, <1>8, <1>9, <1>10, <1>11, <1>12,
        <1>13, <1>14, <1>15, <1>16, <1>17, <1>18
    DEF Next, Ingest, Compute

\* Nobody else writes the score between a task's reading and its commit.
LEMMA ScoreStep ==
    ASSUME TypeOK, LockInv, DataInv, ScoreInv, [Next]_vars
    PROVE  ScoreInv'
<1> USE DEF TypeOK, ScoreInv, requestVars, baselineVars, rowVars, taskVars, localVars, Goto
<1>1. ASSUME NEW t \in Requests, Stamp(t) PROVE ScoreInv'
    BY <1>1 DEF Stamp
<1>2. ASSUME NEW t \in Requests, CommitFact(t) PROVE ScoreInv'
    BY <1>2 DEF CommitFact
<1>3. ASSUME NEW t \in Requests, SendTask(t) PROVE ScoreInv'
    BY <1>3 DEF SendTask
<1>4. ASSUME NEW t \in Requests, IngestFails(t) PROVE ScoreInv'
    BY <1>4 DEF IngestFails
<1>5. ASSUME NEW t \in Requests, Trigger(t) PROVE ScoreInv'
    BY <1>5 DEF Trigger
<1>6. ASSUME NEW t \in Requests, AcquireLock(t) PROVE ScoreInv'
    BY <1>6 DEF AcquireLock
<1>7. ASSUME NEW t \in Requests, SkipDuplicate(t) PROVE ScoreInv'
    BY <1>7 DEF SkipDuplicate
<1>8. ASSUME NEW t \in Requests, LockFails(t) PROVE ScoreInv'
    BY <1>8 DEF LockFails, Retry, Forget
<1>9. ASSUME NEW t \in Requests, ReadFact(t) PROVE ScoreInv'
    BY <1>9 DEF ReadFact
<1>10. ASSUME NEW t \in Requests, ReadBaseline(t) PROVE ScoreInv'
    BY <1>10 DEF ReadBaseline
<1>11. ASSUME NEW t \in Requests, CommitScore(t) PROVE ScoreInv'
    <2> SUFFICES ASSUME ~lapsed PROVE ScoreInv'
        BY <1>11 DEF CommitScore
    <2>1. PICK d \in Record : result[t] = {d}
        BY <1>11 DEF CommitScore, DataInv
    <2>2. loaded[t] = nodeScore
        BY <1>11 DEF CommitScore
    <2>3. newest' = {d} /\ nodeScore' = d.score
        BY <1>11, <2>1, <2>2 DEF CommitScore
    <2>4. \A u \in Requests : pc'[u] # "computed"
        BY <1>11 DEF CommitScore, LockInv, Section
    <2> QED BY <2>3, <2>4
<1>12. ASSUME NEW t \in Requests, Raise(t) PROVE ScoreInv'
    BY <1>12 DEF Raise
<1>13. ASSUME NEW t \in Requests, Release(t) PROVE ScoreInv'
    BY <1>13 DEF Release, Retry, Forget
<1>14. ASSUME NEW t \in Requests, ReleaseFails(t) PROVE ScoreInv'
    BY <1>14 DEF ReleaseFails, Retry, Forget
<1>15. ASSUME NEW t \in Requests, WorkerLost(t) PROVE ScoreInv'
    BY <1>15 DEF WorkerLost, Forget
<1>16. ASSUME NEW d \in DesiredStates, WriteBaseline(d) PROVE ScoreInv'
    BY <1>16 DEF WriteBaseline
<1>17. CASE LockExpires
    <2>1. CASE \E t \in Requests : pc[t] \in Section
        BY <1>17, <2>1 DEF LockExpires
    <2>2. CASE \A t \in Requests : pc[t] \notin Section
        BY <1>17, <2>2 DEF LockExpires, Section
    <2> QED BY <2>1, <2>2
<1>18. CASE UNCHANGED vars
    BY <1>18 DEF vars
<1> QED BY <1>1, <1>2, <1>3, <1>4, <1>5, <1>6, <1>7, <1>8, <1>9, <1>10, <1>11, <1>12,
        <1>13, <1>14, <1>15, <1>16, <1>17, <1>18
    DEF Next, Ingest, Compute

\* A task reads under the lock what is the latest by then.
LEMMA OrderStep ==
    ASSUME TypeOK, StampInv, LockInv, DataInv, OrderInv, [Next]_vars
    PROVE  OrderInv'
<1> USE DEF TypeOK, OrderInv, requestVars, baselineVars, rowVars, taskVars, localVars, Goto
<1>1. ASSUME NEW t \in Requests, Stamp(t) PROVE OrderInv'
    <2>1. \A r \in Stored : r # t
        BY <1>1 DEF Stamp, Stored
    <2>2. \A r \in Stored : collected'[r] = collected[r]
        BY <1>1, <2>1 DEF Stamp, Stored
    <2>3. \A u \in Requests : pc[u] = "read" => seen[u] \subseteq Stored
        BY DEF DataInv
    <2> QED BY <1>1, <2>2, <2>3 DEF Stamp, DataInv
<1>2. ASSUME NEW t \in Requests, CommitFact(t) PROVE OrderInv'
    BY <1>2 DEF CommitFact
<1>3. ASSUME NEW t \in Requests, SendTask(t) PROVE OrderInv'
    BY <1>3 DEF SendTask
<1>4. ASSUME NEW t \in Requests, IngestFails(t) PROVE OrderInv'
    BY <1>4 DEF IngestFails
<1>5. ASSUME NEW t \in Requests, Trigger(t) PROVE OrderInv'
    BY <1>5 DEF Trigger
<1>6. ASSUME NEW t \in Requests, AcquireLock(t) PROVE OrderInv'
    BY <1>6 DEF AcquireLock
<1>7. ASSUME NEW t \in Requests, SkipDuplicate(t) PROVE OrderInv'
    BY <1>7 DEF SkipDuplicate
<1>8. ASSUME NEW t \in Requests, LockFails(t) PROVE OrderInv'
    BY <1>8 DEF LockFails, Retry, Forget
<1>9. ASSUME NEW t \in Requests, ReadFact(t) PROVE OrderInv'
    <2>1. Stored # {} => \A e \in newest : collected[e.fact] <= collected[Latest]
        BY LatestFact DEF DataInv
    <2> QED BY <1>9, <2>1 DEF ReadFact
<1>10. ASSUME NEW t \in Requests, ReadBaseline(t) PROVE OrderInv'
    <2>1. CASE desired = {}
        BY <1>10, <2>1 DEF ReadBaseline
    <2>2. CASE desired # {}
        <3>1. PICK r \in seen[t], d \in desired :
                  result' = [result EXCEPT ![t] =
                      {[fact |-> r, against |-> d, score |-> Score(report[r], d)]}]
            BY <1>10, <2>2 DEF ReadBaseline
        <3>2. \A e \in result'[t] : e.fact = r
            BY <3>1
        <3>3. \A u \in Requests \ {t} : result'[u] = result[u]
            BY <3>1
        <3> QED BY <1>10, <3>2, <3>3 DEF ReadBaseline
    <2> QED BY <2>1, <2>2
<1>11. ASSUME NEW t \in Requests, CommitScore(t) PROVE OrderInv'
    <2> SUFFICES ASSUME ~lapsed PROVE OrderInv'
        BY <1>11 DEF CommitScore
    <2>1. \A u \in Requests : pc'[u] \notin {"read", "computed"}
        BY <1>11 DEF CommitScore, LockInv, Section
    <2> QED BY <2>1
<1>12. ASSUME NEW t \in Requests, Raise(t) PROVE OrderInv'
    BY <1>12 DEF Raise
<1>13. ASSUME NEW t \in Requests, Release(t) PROVE OrderInv'
    BY <1>13 DEF Release, Retry, Forget
<1>14. ASSUME NEW t \in Requests, ReleaseFails(t) PROVE OrderInv'
    BY <1>14 DEF ReleaseFails, Retry, Forget
<1>15. ASSUME NEW t \in Requests, WorkerLost(t) PROVE OrderInv'
    BY <1>15 DEF WorkerLost, Forget
<1>16. ASSUME NEW d \in DesiredStates, WriteBaseline(d) PROVE OrderInv'
    BY <1>16 DEF WriteBaseline
<1>17. CASE LockExpires
    BY <1>17 DEF LockExpires
<1>18. CASE UNCHANGED vars
    BY <1>18 DEF vars
<1> QED BY <1>1, <1>2, <1>3, <1>4, <1>5, <1>6, <1>7, <1>8, <1>9, <1>10, <1>11, <1>12,
        <1>13, <1>14, <1>15, <1>16, <1>17, <1>18
    DEF Next, Ingest, Compute

\* Who will see the latest fact hands it on or is counted as missed.
LEMMA MissedStep ==
    ASSUME TypeOK, StampInv, StampInv', LockInv, DataInv, OrderInv, MissedInv, [Next]_vars
    PROVE  MissedInv'
<1> USE DEF TypeOK, MissedInv, requestVars, baselineVars, rowVars, taskVars, localVars, Goto
<1>1. ASSUME NEW t \in Requests, Stamp(t) PROVE MissedInv'
    <2>1. Stored' = Stored /\ \A r \in Stored : collected'[r] = collected[r]
        BY <1>1 DEF Stamp, Stored
    <2>2. Stored # {} => Latest' = Latest
        BY <2>1, SameLatest
    <2> QED BY <1>1, <2>1, <2>2 DEF Stamp, WillSeeLatest
<1>2. ASSUME NEW t \in Requests, CommitFact(t) PROVE MissedInv'
    <2>1. request'[t] = "committed"
        BY <1>2 DEF CommitFact
    <2> QED BY <2>1 DEF WillSeeLatest
<1>3. ASSUME NEW t \in Requests, SendTask(t) PROVE MissedInv'
    <2>1. Stored' = Stored /\ collected' = collected
        BY <1>3 DEF SendTask, Stored
    <2>2. Stored # {} => Latest' = Latest
        BY <2>1, SameLatest
    <2> QED BY <1>3, <2>1, <2>2 DEF SendTask, WillSeeLatest
<1>4. ASSUME NEW t \in Requests, IngestFails(t) PROVE MissedInv'
    <2>1. Stored' = Stored /\ collected' = collected
        BY <1>4 DEF IngestFails, Stored
    <2>2. Stored # {} => Latest' = Latest
        BY <2>1, SameLatest
    <2> QED BY <1>4, <2>1, <2>2 DEF IngestFails, WillSeeLatest
<1>5. ASSUME NEW t \in Requests, Trigger(t) PROVE MissedInv'
    <2>1. Stored' = Stored /\ collected' = collected
        BY <1>5 DEF Trigger, Stored
    <2>2. Stored # {} => Latest' = Latest
        BY <2>1, SameLatest
    <2> QED BY <1>5, <2>1, <2>2 DEF Trigger, WillSeeLatest
<1>6. ASSUME NEW t \in Requests, AcquireLock(t) PROVE MissedInv'
    <2>1. Stored' = Stored /\ collected' = collected
        BY <1>6 DEF AcquireLock, Stored
    <2>2. Stored # {} => Latest' = Latest
        BY <2>1, SameLatest
    <2> QED BY <1>6, <2>1, <2>2 DEF AcquireLock, WillSeeLatest
<1>7. ASSUME NEW t \in Requests, SkipDuplicate(t) PROVE MissedInv'
    BY <1>7 DEF SkipDuplicate
<1>8. ASSUME NEW t \in Requests, LockFails(t) PROVE MissedInv'
    <2>1. Stored' = Stored /\ collected' = collected
        BY <1>8 DEF LockFails, Stored
    <2>2. Stored # {} => Latest' = Latest
        BY <2>1, SameLatest
    <2> QED BY <1>8, <2>1, <2>2 DEF LockFails, WillSeeLatest, Retry, Forget
<1>9. ASSUME NEW t \in Requests, ReadFact(t) PROVE MissedInv'
    <2>1. Stored' = Stored /\ collected' = collected
        BY <1>9 DEF ReadFact, Stored
    <2>2. Stored # {} => Latest' = Latest
        BY <2>1, SameLatest
    <2> QED BY <1>9, <2>1, <2>2 DEF ReadFact, WillSeeLatest
<1>10. ASSUME NEW t \in Requests, ReadBaseline(t) PROVE MissedInv'
    <2>1. Stored' = Stored /\ collected' = collected
        BY <1>10 DEF ReadBaseline, Stored
    <2>2. Stored # {} => Latest' = Latest
        BY <2>1, SameLatest
    <2> QED BY <1>10, <2>1, <2>2 DEF ReadBaseline, WillSeeLatest
<1>11. ASSUME NEW t \in Requests, CommitScore(t) PROVE MissedInv'
    <2> SUFFICES ASSUME ~missed', ~lapsed, Stored # {} PROVE MissedInv'
        BY <1>11 DEF CommitScore, Stored
    <2>1. Stored' = Stored /\ collected' = collected
        BY <1>11 DEF CommitScore, Stored
    <2>2. Latest' = Latest
        BY <2>1, SameLatest
    <2>3. PICK d \in Record : result[t] = {d}
        BY <1>11 DEF CommitScore, DataInv
    <2>4. newest' = {d} /\ (missed => d.fact = Latest)
        BY <1>11, <2>3 DEF CommitScore
    <2>5. CASE d.fact = Latest
        BY <2>2, <2>4, <2>5
    <2>6. CASE \E e \in newest : e.fact = Latest
        <3>1. PICK e \in newest : e.fact = Latest
            BY <2>6
        <3>2. collected[Latest] <= collected[d.fact] /\ d.fact \in Stored
            BY <1>11, <2>3, <3>1 DEF CommitScore, OrderInv, DataInv
        <3>3. Latest \in Stored /\ \A q \in Stored : collected[q] <= collected[Latest]
            BY LatestFact
        <3>4. collected[d.fact] = collected[Latest] /\ Stored \subseteq Stamped
            BY <3>2, <3>3 DEF StampInv, Stored
        <3>5. d.fact = Latest
            BY <3>2, <3>3, <3>4 DEF StampInv
        <3> QED BY <2>2, <2>4, <3>5
    <2>7. ASSUME NEW u \in Requests, WillSeeLatest(u), d.fact # Latest
          PROVE  \E w \in Requests : WillSeeLatest(w)'
        <3>1. u # t \/ request[t] = "committed"
            BY <1>11, <2>3, <2>7 DEF CommitScore, WillSeeLatest
        <3>2. CASE request[u] = "committed"
            BY <1>11, <3>2 DEF CommitScore, WillSeeLatest
        <3>3. CASE u # t
            BY <1>11, <2>2, <2>7, <3>3 DEF CommitScore, WillSeeLatest
        <3> QED BY <3>1, <3>2, <3>3
    <2> QED BY <2>4, <2>5, <2>6, <2>7
<1>12. ASSUME NEW t \in Requests, Raise(t) PROVE MissedInv'
    <2>1. Stored' = Stored /\ collected' = collected
        BY <1>12 DEF Raise, Stored
    <2>2. Stored # {} => Latest' = Latest
        BY <2>1, SameLatest
    <2> QED BY <1>12, <2>1, <2>2 DEF Raise, WillSeeLatest
<1>13. ASSUME NEW t \in Requests, Release(t) PROVE MissedInv'
    <2>1. Stored' = Stored /\ collected' = collected
        BY <1>13 DEF Release, Stored
    <2>2. Stored # {} => Latest' = Latest
        BY <2>1, SameLatest
    <2> QED BY <1>13, <2>1, <2>2 DEF Release, WillSeeLatest, Retry, Forget
<1>14. ASSUME NEW t \in Requests, ReleaseFails(t) PROVE MissedInv'
    <2>1. Stored' = Stored /\ collected' = collected
        BY <1>14 DEF ReleaseFails, Stored
    <2>2. Stored # {} => Latest' = Latest
        BY <2>1, SameLatest
    <2> QED BY <1>14, <2>1, <2>2 DEF ReleaseFails, WillSeeLatest, Retry, Forget
<1>15. ASSUME NEW t \in Requests, WorkerLost(t) PROVE MissedInv'
    <2>1. Stored' = Stored /\ collected' = collected
        BY <1>15 DEF WorkerLost, Stored
    <2>2. Stored # {} => Latest' = Latest
        BY <2>1, SameLatest
    <2> QED BY <1>15, <2>1, <2>2 DEF WorkerLost, WillSeeLatest, Forget
<1>16. ASSUME NEW d \in DesiredStates, WriteBaseline(d) PROVE MissedInv'
    <2>1. Stored' = Stored /\ collected' = collected
        BY <1>16 DEF WriteBaseline, Stored
    <2>2. Stored # {} => Latest' = Latest
        BY <2>1, SameLatest
    <2> QED BY <1>16, <2>1, <2>2 DEF WriteBaseline, WillSeeLatest
<1>17. CASE LockExpires
    <2>1. Stored' = Stored /\ collected' = collected
        BY <1>17 DEF LockExpires, Stored
    <2>2. Stored # {} => Latest' = Latest
        BY <2>1, SameLatest
    <2> QED BY <1>17, <2>1, <2>2 DEF LockExpires, WillSeeLatest
<1>18. CASE UNCHANGED vars
    BY <1>18 DEF vars, Stored, Latest, WillSeeLatest
<1> QED BY <1>1, <1>2, <1>3, <1>4, <1>5, <1>6, <1>7, <1>8, <1>9, <1>10, <1>11, <1>12,
        <1>13, <1>14, <1>15, <1>16, <1>17, <1>18
    DEF Next, Ingest, Compute

-----------------------------------------------------------------------------
\* The inductive invariant holds at first ...
LEMMA DriftInit == Init => DriftIInv
<1> SUFFICES ASSUME Init PROVE DriftIInv
    OBVIOUS
<1>1. TypeOK
    <2>1. 0 \in 0 .. MaxRetries /\ 0 \in 0 .. MaxEdits /\ 0 \in 0 .. MaxLosses
        BY LimitsAssumption
    <2>2. collected \in [Requests -> Nat] /\ tries \in [Requests -> 0 .. MaxRetries]
        BY <2>1 DEF Init
    <2>3. /\ request \in [Requests -> RequestStep] /\ pc \in [Requests -> TaskStep]
          /\ seen \in [Requests -> SUBSET Requests] /\ loaded \in [Requests -> 0 .. 100]
          /\ result \in [Requests -> SUBSET Record]
        BY DEF Init, RequestStep, TaskStep
    <2>4. /\ report \in [Requests -> Grains] /\ desired \subseteq DesiredStates
          /\ edits \in 0 .. MaxEdits /\ nodeScore \in 0 .. 100 /\ newest \subseteq Record
          /\ lock \subseteq Requests /\ losses \in 0 .. MaxLosses
        BY <2>1 DEF Init
    <2>5. missed \in BOOLEAN /\ lapsed \in BOOLEAN
        BY DEF Init
    <2> QED BY <2>2, <2>3, <2>4, <2>5 DEF TypeOK
<1>2. StampInv
    <2>1. Stamped = {} /\ Stored = {}
        BY DEF Init, Stamped, Stored
    <2>2. Cardinality({}) = 0
        BY FS_EmptySet
    <2> QED BY <2>1, <2>2 DEF Init, StampInv
<1>3. LockInv /\ DataInv /\ ScoreInv /\ OrderInv
    BY DEF Init, LockInv, DataInv, ScoreInv, OrderInv, Section
<1>4. MissedInv
    BY DEF Init, MissedInv, Stored
<1> QED BY <1>1, <1>2, <1>3, <1>4 DEF DriftIInv

\* ... and every step keeps it.
LEMMA DriftStep == DriftIInv /\ [Next]_vars => DriftIInv'
<1> SUFFICES ASSUME DriftIInv, [Next]_vars PROVE DriftIInv'
    OBVIOUS
<1> USE DEF DriftIInv
<1>1. TypeOK' /\ StampInv'
    BY TypeStep, StampStep
<1> QED BY <1>1, LockStep, DataStep, ScoreStep, OrderStep, MissedStep

\* Every behaviour of the drift computation satisfies its inductive invariant.
THEOREM DriftInvariant == Spec => []DriftIInv
BY DriftInit, DriftStep, PTL DEF Spec

\* Every variable keeps its type, and a score is at most 100.
THEOREM TypeCorrect == Spec => []TypeOK
<1> DriftIInv => TypeOK
    BY DEF DriftIInv
<1> QED BY DriftInvariant, PTL

\* The node's score is the one of its newest drift record, for any number of
\* computations, retries and lost workers, while no key expires under a
\* running task.
THEOREM ScoreFollowsRecords == Spec => []ScoreIsNewest
<1> DriftIInv => ScoreIsNewest
    BY DEF DriftIInv, ScoreInv, ScoreIsNewest
<1> QED BY DriftInvariant, PTL

\* A score of 0 is given to nodes that conform only, and to all of them that
\* do not abridge a version, for any grains and any baseline.
THEOREM ZeroIsConforming == Spec => []ZeroMeansConforming
<1>1. ASSUME DriftIInv PROVE ZeroMeansConforming
    <2>1. \A d \in newest : /\ IsGrains(report[d.fact]) /\ IsDesiredState(d.against)
                            /\ d.score = Score(report[d.fact], d.against)
        BY <1>1, DataAssumption DEF DriftIInv, TypeOK, DataInv, Stored, Record
    <2> QED BY <2>1, ZeroConforms DEF ZeroMeansConforming
<1> QED BY <1>1, DriftInvariant, PTL

\* When nothing is under way, the score is the one of the latest fact unless
\* a computation was missed.
THEOREM CurrentWhenQuiet == Spec => []QuietScoreIsCurrent
<1> DriftIInv => QuietScoreIsCurrent
    BY DEF DriftIInv, MissedInv, WillSeeLatest, QuietScoreIsCurrent, Quiet
<1> QED BY DriftInvariant, PTL

\* A computation never replaces the record of newer facts.
THEOREM NoFallback == Spec => NeverOlder
<1> DEFINE Forward == ~lapsed => \A d \in newest, e \in newest' :
                          collected[d.fact] <= collected[e.fact]
<1>1. ASSUME DriftIInv, [Next]_vars PROVE [Forward]_vars
    <2>1. CASE newest' = newest
        BY <1>1, <2>1 DEF DriftIInv, TypeOK, DataInv, Stored
    <2>2. ASSUME NEW t \in Requests, CommitScore(t) PROVE Forward
        BY <1>1, <2>2 DEF CommitScore, DriftIInv, OrderInv
    <2>3. newest' = newest \/ \E t \in Requests : CommitScore(t)
        BY <1>1 DEF Next, vars, rowVars, Ingest, Compute, Stamp, CommitFact, SendTask, IngestFails,
            Trigger, WriteBaseline, AcquireLock, SkipDuplicate, LockFails, ReadFact, ReadBaseline,
            Raise, Release, ReleaseFails, WorkerLost, LockExpires
    <2> QED BY <2>1, <2>2, <2>3
<1> QED BY <1>1, DriftInvariant, PTL DEF Spec, NeverOlder

-----------------------------------------------------------------------------
(* Alerts                                                                  *)

Sent ==
    \A s \in Subjects : \A e \in sent[s] :
        (e \in running /\ s \in added[e]) \/ e \in fired[s] \/ e \in failed

Cutoff == \A e \in Evaluations, r \in Rules : cutoff[e][r] \subseteq past[r]

Met == \A e, f \in running : e # f => f \in met[e]

AlertsInv == AlertsTypeOK /\ Sent /\ Cutoff /\ Met /\ AlertedOnce

\* The initial states satisfy the inductive invariant.
LEMMA InitAlertsInv == InitAlerts => AlertsInv
BY RulesAssumption, AlertLimitsAssumption
DEF InitAlerts, AlertsInv, AlertsTypeOK, Sent, Cutoff, Met, AlertedOnce

\* Type correctness is inductive on its own.
LEMMA AlertsTypeStep == AlertsTypeOK /\ [Alerting]_alertVars => AlertsTypeOK'
<1> SUFFICES ASSUME AlertsTypeOK, [Alerting]_alertVars PROVE AlertsTypeOK'
    OBVIOUS
<1> USE RulesAssumption, AlertLimitsAssumption DEF AlertsTypeOK
<1>1. ASSUME NEW e \in Evaluations, Begin(e) PROVE AlertsTypeOK'
    <2>1. /\ running' \subseteq Evaluations
          /\ past' \in [Rules -> SUBSET Evaluations]
          /\ cutoff' \in [Evaluations -> [Rules -> SUBSET Evaluations]]
        BY <1>1 DEF Begin
    <2>2. /\ rulesLeft' \in [Evaluations -> SUBSET Rules]
          /\ fired' \in [Subjects -> SUBSET Evaluations]
          /\ sent' \in [Subjects -> SUBSET Evaluations]
          /\ failed' \subseteq Evaluations
        BY <1>1 DEF Begin
    <2>3. met' \in [Evaluations -> SUBSET Evaluations]
        BY <1>1 DEF Begin
    <2>4. overlaps' \in 0..MaxOverlaps
        BY <1>1 DEF Begin
    <2>5. \A f \in Evaluations \ running' :
              rulesLeft'[f] = {} /\ todo'[f] = {} /\ added'[f] = {}
        BY <1>1 DEF Begin
    <2> QED
        BY <1>1, <2>1, <2>2, <2>3, <2>4, <2>5 DEF Begin
<1>2. ASSUME NEW e \in Evaluations, NEW r \in Rules, ReadDue(e, r) PROVE AlertsTypeOK'
    BY <1>2 DEF ReadDue, eventVars, histVars
<1>3. ASSUME NEW e \in Evaluations, NEW s \in Subjects, SkipReported(e, s) PROVE AlertsTypeOK'
    BY <1>3 DEF SkipReported, eventVars, histVars
<1>4. ASSUME NEW e \in Evaluations, NEW s \in Subjects, Fire(e, s) PROVE AlertsTypeOK'
    BY <1>4 DEF Fire, histVars
<1>5. ASSUME NEW e \in Evaluations, Commit(e) PROVE AlertsTypeOK'
    BY <1>5 DEF Commit, End, histVars
<1>6. ASSUME NEW e \in Evaluations, RollBack(e), failures' \in 0..MaxFailures PROVE AlertsTypeOK'
    BY <1>6 DEF RollBack, End, eventVars, histVars
<1>7. ASSUME NEW r \in Rules, NEW e \in Evaluations, WindowPasses(r, e) PROVE AlertsTypeOK'
    BY <1>7 DEF WindowPasses, eventVars, histVars, evaluationVars
<1>8. ASSUME NEW s \in Subjects, ConditionChanges(s) PROVE AlertsTypeOK'
    BY <1>8 DEF ConditionChanges, eventVars, histVars, evaluationVars
<1>9. CASE UNCHANGED alertVars
    BY <1>9 DEF alertVars, eventVars, histVars, evaluationVars
<1>10. ASSUME NEW e \in Evaluations, Fail(e) PROVE AlertsTypeOK'
    BY <1>6, <1>10 DEF Fail
<1>11. ASSUME NEW e \in Evaluations, NEW s \in Subjects, Stumble(e, s) PROVE AlertsTypeOK'
    BY <1>6, <1>11 DEF Stumble
<1> QED
    BY <1>1, <1>2, <1>3, <1>4, <1>5, <1>7, <1>8, <1>9, <1>10, <1>11 DEF Alerting, Evaluate

\* The parts of the invariant that a step which neither begins nor ends an
\* evaluation, nor sends anything, keeps.
LEMMA QuietAlertStep ==
    ASSUME AlertsInv, UNCHANGED <<eventVars, running, cutoff, added, failed, histVars>>,
           \A r \in Rules : past[r] \subseteq past'[r]
    PROVE  (Sent /\ Cutoff /\ Met /\ AlertedOnce)'
<1> USE RulesAssumption DEF AlertsInv, AlertsTypeOK, eventVars, histVars
<1>1. Sent'
    BY DEF Sent
<1>2. Cutoff'
    BY DEF Cutoff
<1>3. Met'
    BY DEF Met
<1>4. AlertedOnce'
    BY DEF AlertedOnce
<1> QED
    BY <1>1, <1>2, <1>3, <1>4

\* The name of a new evaluation is gone from every record, and those that run
\* meet it.
LEMMA BeginStep ==
    ASSUME AlertsInv, NEW e \in Evaluations, Begin(e)
    PROVE  (Sent /\ Cutoff /\ Met /\ AlertedOnce)'
<1> USE RulesAssumption DEF AlertsInv, AlertsTypeOK, Begin, Reusable
<1>1. Sent'
    BY DEF Sent
<1>2. Cutoff'
    BY DEF Cutoff
<1>3. Met'
    <2> SUFFICES ASSUME NEW f \in running', NEW g \in running', f # g
                 PROVE  g \in met'[f]
        BY DEF Met
    <2>1. running' = running \cup {e} /\ e \notin running
        OBVIOUS
    <2>2. CASE f = e
        BY <2>1, <2>2
    <2>3. CASE f # e /\ g = e
        BY <2>1, <2>3
    <2>4. CASE f # e /\ g # e
        BY <2>1, <2>4 DEF Met
    <2> QED
        BY <2>2, <2>3, <2>4
<1>4. AlertedOnce'
    BY DEF AlertedOnce
<1> QED
    BY <1>1, <1>2, <1>3, <1>4

\* An evaluation that finds no event in the window is the first to alert, but
\* for those it has met and those that did not commit.
LEMMA FireStep ==
    ASSUME AlertsInv, NEW e \in Evaluations, NEW s \in Subjects, Fire(e, s)
    PROVE  (Sent /\ Cutoff /\ Met /\ AlertedOnce)'
<1> USE RulesAssumption DEF AlertsInv, AlertsTypeOK, Fire, histVars
<1>1. Sent'
    BY DEF Sent
<1>2. Cutoff'
    BY DEF Cutoff
<1>3. Met'
    BY DEF Met
<1>4. \A f \in sent[s] \ past[RuleOf[s]] :
          f # e => f \in failed \/ (f \in running /\ f \in met[e] /\ e \in met[f])
    <2> SUFFICES ASSUME NEW f \in sent[s], f \notin past[RuleOf[s]], f # e, f \notin failed
                 PROVE  f \in running /\ f \in met[e] /\ e \in met[f]
        OBVIOUS
    <2>1. f \notin cutoff[e][RuleOf[s]]
        BY DEF Cutoff
    <2>2. f \notin fired[s]
        BY <2>1 DEF Recent
    <2>3. f \in running
        BY <2>2 DEF Sent
    <2> QED
        BY <2>3 DEF Met
<1>5. AlertedOnce'
    BY <1>4 DEF AlertedOnce
<1> QED
    BY <1>1, <1>2, <1>3, <1>5

\* The events of an evaluation that commits are on record.
LEMMA CommitStep ==
    ASSUME AlertsInv, NEW e \in Evaluations, Commit(e)
    PROVE  (Sent /\ Cutoff /\ Met /\ AlertedOnce)'
<1> USE RulesAssumption DEF AlertsInv, AlertsTypeOK, Commit, End, histVars
<1>1. Sent'
    BY DEF Sent
<1>2. Cutoff'
    BY DEF Cutoff
<1>3. Met'
    BY DEF Met
<1>4. AlertedOnce'
    BY DEF AlertedOnce
<1> QED
    BY <1>1, <1>2, <1>3, <1>4

\* An evaluation that is rolled back did not commit.
LEMMA RollBackStep ==
    ASSUME AlertsInv, NEW e \in Evaluations, RollBack(e)
    PROVE  (Sent /\ Cutoff /\ Met /\ AlertedOnce)'
<1> USE RulesAssumption DEF AlertsInv, AlertsTypeOK, RollBack, End, eventVars, histVars
<1>1. Sent'
    BY DEF Sent
<1>2. Cutoff'
    BY DEF Cutoff
<1>3. Met'
    BY DEF Met
<1>4. AlertedOnce'
    BY DEF AlertedOnce
<1> QED
    BY <1>1, <1>2, <1>3, <1>4

\* Every step preserves the inductive invariant.
LEMMA AlertingInv == AlertsInv /\ [Alerting]_alertVars => AlertsInv'
<1> SUFFICES ASSUME AlertsInv, [Alerting]_alertVars PROVE AlertsInv'
    OBVIOUS
<1> DEFINE Rest == Sent /\ Cutoff /\ Met /\ AlertedOnce
<1>1. ASSUME NEW e \in Evaluations, NEW r \in Rules, ReadDue(e, r) PROVE Rest'
    BY <1>1, QuietAlertStep DEF ReadDue
<1>2. ASSUME NEW e \in Evaluations, NEW s \in Subjects, SkipReported(e, s) PROVE Rest'
    BY <1>2, QuietAlertStep DEF SkipReported
<1>3. ASSUME NEW r \in Rules, NEW e \in Evaluations, WindowPasses(r, e) PROVE Rest'
    <2>1. \A q \in Rules : past[q] \subseteq past'[q]
        BY <1>3 DEF WindowPasses, AlertsInv, AlertsTypeOK
    <2> QED
        BY <1>3, <2>1, QuietAlertStep DEF WindowPasses, evaluationVars
<1>4. ASSUME NEW s \in Subjects, ConditionChanges(s) PROVE Rest'
    BY <1>4, QuietAlertStep DEF ConditionChanges, evaluationVars
<1>5. ASSUME UNCHANGED alertVars PROVE Rest'
    <2>1. \A q \in Rules : past[q] \subseteq past'[q]
        BY <1>5 DEF alertVars
    <2>2. UNCHANGED <<eventVars, running, cutoff, added, failed, histVars>>
        BY <1>5 DEF alertVars, evaluationVars
    <2> QED
        BY <2>1, <2>2, QuietAlertStep
<1>6. ASSUME NEW e \in Evaluations, Fail(e) PROVE Rest'
    BY <1>6, RollBackStep DEF Fail
<1>7. ASSUME NEW e \in Evaluations, NEW s \in Subjects, Stumble(e, s) PROVE Rest'
    BY <1>7, RollBackStep DEF Stumble
<1>8. ASSUME NEW e \in Evaluations, Evaluate(e) PROVE Rest'
    <2>1. ASSUME NEW s \in Subjects, Fire(e, s) PROVE Rest'
        BY <2>1, FireStep
    <2>2. CASE Commit(e)
        BY <2>2, CommitStep
    <2> QED
        BY <1>1, <1>2, <1>7, <1>8, <2>1, <2>2 DEF Evaluate
<1>9. ASSUME NEW e \in Evaluations, Begin(e) PROVE Rest'
    BY <1>9, BeginStep
<1>10. Rest'
    <2>1. ASSUME NEW e \in Evaluations, Begin(e) \/ Evaluate(e) \/ Fail(e) PROVE Rest'
        BY <1>6, <1>8, <1>9, <2>1
    <2>2. CASE Alerting
        BY <1>3, <1>4, <2>1, <2>2 DEF Alerting
    <2> QED
        BY <1>5, <2>2
<1>11. AlertsTypeOK'
    BY AlertsTypeStep DEF AlertsInv
<1> QED
    BY <1>10, <1>11 DEF AlertsInv

\* Every behaviour of the alert evaluation satisfies its inductive invariant.
LEMMA AlertsInvHolds == AlertSpec => []AlertsInv
BY InitAlertsInv, AlertingInv, PTL DEF AlertSpec

\* Type correctness of the alert evaluation.
THEOREM AlertsTypeCorrect == AlertSpec => []AlertsTypeOK
<1>1. AlertsInv => AlertsTypeOK
    BY DEF AlertsInv
<1> QED
    BY <1>1, AlertsInvHolds, PTL

\* "once per 30 min" and "once per hour" (alert_svc.py:94, 227) hold but for
\* evaluations that overlap or do not commit.
THEOREM AlertsDoNotRepeat == AlertSpec => []AlertedOnce
<1>1. AlertsInv => AlertedOnce
    BY DEF AlertsInv
<1> QED
    BY <1>1, AlertsInvHolds, PTL
=============================================================================
