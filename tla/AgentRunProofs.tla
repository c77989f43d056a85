--------------------------- MODULE AgentRunProofs ---------------------------
(***************************************************************************)
(* Theorems about AgentRun, for any runs, endpoints, tags, calls, limits,  *)
(* and any number of restarts, outages and failures.                       *)
(*                                                                         *)
(* That a waiting session has an action: a run that means to store         *)
(* awaiting_approval either has one, or its database session has failed,   *)
(* which no later step mends, so that the store fails too (Awaits).  That  *)
(* the load counts the leases: every step takes one, gives one back, or    *)
(* leaves the holders alone (LeaseTaken, LeaseGivenBack, LeasesKept).      *)
(* That the budget holds: what cloud runs in flight have had and not yet   *)
(* recorded, and what they may still have, are sets of pairs of a run and  *)
(* the number of an answer, whose sizes bound the bill (Bounded).          *)
(***************************************************************************)
EXTENDS AgentRun, FiniteSetTheorems, TLAPS

Steps == InFlight \cup {"idle", "done", "crashed", "left"}

Outcomes == {"completed", "aborted", "awaiting_approval"}

Typed ==
    /\ load \in [Endpoints -> Nat]
    /\ cooling \subseteq Endpoints
    /\ step \in [Runs -> Steps]
    /\ endpoint \in [Runs -> Endpoints \cup {AnEndpoint}]
    /\ used \in [Runs -> 0 .. MaxIterations]
    /\ terminal \in [Runs -> Outcomes]
    /\ db \in [Runs -> {"fine", "failed", "expired"}]
    /\ session \in [Runs -> Outcomes \cup {"absent", "active"}]

\* How far a run is: what it has used, and that it has an endpoint.
Progress(r) ==
    /\ step[r] \in {"idle", "opened"} => used[r] = 0
    /\ step[r] = "plan" => used[r] < MaxIterations
    /\ step[r] \in InFlight => endpoint[r] \in Endpoints

LoadCounts == \A e \in Endpoints : load[e] = Cardinality(Holders(e))

Awaits ==
    \A r \in Runs : terminal[r] = "awaiting_approval" /\ db[r] = "fine" => r \in proposed

Shape == Typed /\ \A r \in Runs : Progress(r)

IInv == Shape /\ LoadCounts /\ Awaits /\ AwaitingHasAction

-----------------------------------------------------------------------------
(* Leases                                                                  *)

\* The holders of an endpoint are finitely many.
LEMMA HoldersFinite ==
    ASSUME NEW e
    PROVE  IsFiniteSet(Holders(e)) /\ Cardinality(Holders(e)) \in Nat
<1>1. Holders(e) \in SUBSET Runs
    BY DEF Holders
<1> QED
    BY <1>1, FS_Subset, FS_CardinalityType, RunsAssumption

\* A run that enters its loop adds one to the load of its endpoint.
LEMMA LeaseTaken ==
    ASSUME LoadCounts, load \in [Endpoints -> Nat], NEW r \in Runs,
           step[r] \notin Leased, step'[r] \in Leased,
           endpoint' = endpoint, Acquire(endpoint[r]),
           \A q \in Runs \ {r} : step'[q] = step[q]
    PROVE  LoadCounts'
<1> SUFFICES ASSUME NEW e \in Endpoints PROVE load'[e] = Cardinality(Holders(e)')
    BY DEF LoadCounts
<1> DEFINE H == Holders(e)
           K == Holders(e)'
<1>1. load[e] = Cardinality(H) /\ IsFiniteSet(H) /\ Cardinality(H) \in Nat
    BY HoldersFinite DEF LoadCounts
<1>2. CASE endpoint[r] = e
    <2>1. K = H \cup {r} /\ r \notin H
        BY <1>2 DEF Holders
    <2>2. load'[e] = load[e] + 1
        BY <1>2 DEF Acquire
    <2> HIDE DEF H, K
    <2>3. Cardinality(K) = Cardinality(H) + 1
        BY <1>1, <2>1, FS_AddElement
    <2> QED
        BY <1>1, <2>2, <2>3 DEF K
<1>3. CASE endpoint[r] # e
    <2>1. K = H
        BY <1>3 DEF Holders
    <2>2. load'[e] = load[e]
        BY <1>3 DEF Acquire
    <2> QED
        BY <1>1, <2>1, <2>2
<1> QED
    BY <1>2, <1>3

\* A run that leaves its loop takes one off.
LEMMA LeaseGivenBack ==
    ASSUME LoadCounts, load \in [Endpoints -> Nat], NEW r \in Runs,
           step[r] \in Leased, step'[r] \notin Leased, Release(endpoint[r]),
           \A q \in Runs \ {r} : step'[q] = step[q] /\ endpoint'[q] = endpoint[q]
    PROVE  LoadCounts'
<1> SUFFICES ASSUME NEW e \in Endpoints PROVE load'[e] = Cardinality(Holders(e)')
    BY DEF LoadCounts
<1> DEFINE H == Holders(e)
           K == Holders(e)'
<1>1. load[e] = Cardinality(H) /\ IsFiniteSet(H) /\ Cardinality(H) \in Nat
    BY HoldersFinite DEF LoadCounts
<1>2. CASE endpoint[r] = e
    <2>1. K = H \ {r} /\ r \in H
        BY <1>2 DEF Holders
    <2>2. load'[e] = IF load[e] > 0 THEN load[e] - 1 ELSE 0
        BY <1>2 DEF Release
    <2> HIDE DEF H, K
    <2>3. Cardinality(K) = Cardinality(H) - 1 /\ IsFiniteSet(K)
        BY <1>1, <2>1, FS_RemoveElement
    <2>4. Cardinality(K) \in Nat
        BY <2>3, FS_CardinalityType
    <2> QED
        BY <1>1, <2>2, <2>3, <2>4 DEF K
<1>3. CASE endpoint[r] # e
    <2>1. K = H
        BY <1>3 DEF Holders
    <2>2. load'[e] = load[e]
        BY <1>3 DEF Release
    <2> QED
        BY <1>1, <2>1, <2>2
<1> QED
    BY <1>2, <1>3

\* Other steps leave load and holders alone.
LEMMA LeasesKept ==
    ASSUME LoadCounts, load' = load,
           \A q \in Runs : /\ step'[q] \in Leased <=> step[q] \in Leased
                           /\ step[q] \in Leased => endpoint'[q] = endpoint[q]
    PROVE  LoadCounts'
<1>1. \A e : Holders(e)' = Holders(e)
    BY DEF Holders
<1> QED
    BY <1>1 DEF LoadCounts

-----------------------------------------------------------------------------
(* Steps                                                                   *)

\* Every step keeps the shape of the state.
LEMMA ShapeStep == Shape /\ [Next]_vars => Shape'
<1> SUFFICES ASSUME Shape, [Next]_vars PROVE Shape'
    OBVIOUS
<1> USE BoundsAssumption DEF Shape, Typed, Progress, Steps, Outcomes, InFlight, Leased
<1>1. ASSUME NEW r \in Runs, NEW e \in Endpoints,
             NEW v \in {"explicit", "local", "cloud", "default"}, Start(r, e, v)
      PROVE  Shape'
    BY <1>1 DEF Start, histories, loopVars, Goto, routerVars
<1>2. ASSUME NEW r \in Runs, Lease(r) PROVE Shape'
    BY <1>2 DEF Lease, Acquire, runVars, loopVars, Goto, routerVars
<1>3. ASSUME NEW r \in Runs, PlanFinal(r) PROVE Shape'
    BY <1>3 DEF PlanFinal, Asked, Ends, Keeps, Release, Goto, routerVars
<1>4. ASSUME NEW r \in Runs, NEW c \in Calls, PlanCall(r, c) PROVE Shape'
    BY <1>4 DEF PlanCall, Asked, Ends, Keeps, Release, Goto, routerVars
<1>5. ASSUME NEW r \in Runs, PlanRaises(r) PROVE Shape'
    BY <1>5 DEF PlanRaises, Ends, Keeps, Release, Over, Goto, routerVars
<1>6. ASSUME NEW r \in Runs, DispatchRefused(r) PROVE Shape'
    BY <1>6 DEF DispatchRefused, Dispatched, Continues, Ends, Keeps, Release, Goto, routerVars
<1>7. ASSUME NEW r \in Runs, DispatchGuarded(r) PROVE Shape'
    BY <1>7 DEF DispatchGuarded, Dispatched, Continues, Ends, Keeps, Release, Audited, Goto,
                  routerVars
<1>8. ASSUME NEW r \in Runs, DispatchRuns(r) PROVE Shape'
    BY <1>8 DEF DispatchRuns, Dispatched, Continues, Ends, Keeps, Release, Audited, Goto,
                  routerVars
<1>9. ASSUME NEW r \in Runs, DispatchProposes(r) PROVE Shape'
    BY <1>9 DEF DispatchProposes, Dispatched, Ends, Keeps, Release, Goto, routerVars
<1>10. ASSUME NEW r \in Runs, Record(r) PROVE Shape'
    BY <1>10 DEF Record, Over, RecordTokens, runVars, Goto, routerVars
<1>11. ASSUME NEW r \in Runs, Save(r) PROVE Shape'
    BY <1>11 DEF Save, Over, routerVars
<1>12. ASSUME NEW r \in Runs, Leaves(r) PROVE Shape'
    BY <1>12 DEF Leaves, Release, Over, routerVars
<1>13. ASSUME Restart PROVE Shape'
    BY <1>13 DEF Restart, Over, RouterRestarts, routerVars
<1>14. ASSUME Outage PROVE Shape'
    BY <1>14 DEF Outage, RedisTurns, runVars, routerVars
<1>15. ASSUME NEW e \in Endpoints, Cools(e) PROVE Shape'
    BY <1>15 DEF Cools, CooldownEnds, runVars, routerVars
<1>16. CASE UNCHANGED vars
    BY <1>16 DEF vars, runVars, loopVars, routerVars
<1> QED
    BY <1>1, <1>2, <1>3, <1>4, <1>5, <1>6, <1>7, <1>8, <1>9, <1>10, <1>11, <1>12, <1>13,
       <1>14, <1>15, <1>16 DEF Next, Goes, Plan, Dispatch

\* No step makes a run mean to wait, or wait, for an approval without an
\* action.
LEMMA AwaitsStep ==
    Shape /\ Awaits /\ AwaitingHasAction /\ [Next]_vars => (Awaits /\ AwaitingHasAction)'
<1> SUFFICES ASSUME Shape /\ Awaits /\ AwaitingHasAction, [Next]_vars
             PROVE  (Awaits /\ AwaitingHasAction)'
    OBVIOUS
<1> USE DEF Shape, Typed, Outcomes, Awaits, AwaitingHasAction
<1>1. ASSUME NEW r \in Runs, NEW e \in Endpoints,
             NEW v \in {"explicit", "local", "cloud", "default"}, Start(r, e, v)
      PROVE  (Awaits /\ AwaitingHasAction)'
    BY <1>1 DEF Start, histories, loopVars, Goto, routerVars
<1>2. ASSUME NEW r \in Runs, Lease(r) PROVE (Awaits /\ AwaitingHasAction)'
    BY <1>2 DEF Lease, Acquire, runVars, loopVars, Goto, routerVars
<1>3. ASSUME NEW r \in Runs, PlanFinal(r) PROVE (Awaits /\ AwaitingHasAction)'
    BY <1>3 DEF PlanFinal, Asked, Ends, Keeps, Release, Goto, routerVars
<1>4. ASSUME NEW r \in Runs, NEW c \in Calls, PlanCall(r, c) PROVE (Awaits /\ AwaitingHasAction)'
    BY <1>4 DEF PlanCall, Asked, Ends, Keeps, Release, Goto, routerVars
<1>5. ASSUME NEW r \in Runs, PlanRaises(r) PROVE (Awaits /\ AwaitingHasAction)'
    BY <1>5 DEF PlanRaises, Ends, Keeps, Release, Over, Goto, routerVars
<1>6. ASSUME NEW r \in Runs, DispatchRefused(r) PROVE (Awaits /\ AwaitingHasAction)'
    BY <1>6 DEF DispatchRefused, Dispatched, Continues, Ends, Keeps, Release, Goto, routerVars
<1>7. ASSUME NEW r \in Runs, DispatchGuarded(r) PROVE (Awaits /\ AwaitingHasAction)'
    BY <1>7 DEF DispatchGuarded, Dispatched, Continues, Ends, Keeps, Release, Audited, Goto,
                  routerVars
<1>8. ASSUME NEW r \in Runs, DispatchRuns(r) PROVE (Awaits /\ AwaitingHasAction)'
    BY <1>8 DEF DispatchRuns, Dispatched, Continues, Ends, Keeps, Release, Audited, Goto,
                  routerVars
<1>9. ASSUME NEW r \in Runs, DispatchProposes(r) PROVE (Awaits /\ AwaitingHasAction)'
    BY <1>9 DEF DispatchProposes, Dispatched, Ends, Keeps, Release, Goto, routerVars
<1>10. ASSUME NEW r \in Runs, Record(r) PROVE (Awaits /\ AwaitingHasAction)'
    BY <1>10 DEF Record, Over, RecordTokens, runVars, Goto, routerVars
<1>11. ASSUME NEW r \in Runs, Save(r) PROVE (Awaits /\ AwaitingHasAction)'
    BY <1>11 DEF Save, Over, routerVars
<1>12. ASSUME NEW r \in Runs, Leaves(r) PROVE (Awaits /\ AwaitingHasAction)'
    BY <1>12 DEF Leaves, Release, Over, routerVars
<1>13. ASSUME Restart PROVE (Awaits /\ AwaitingHasAction)'
    BY <1>13 DEF Restart, Over, RouterRestarts, routerVars
<1>14. ASSUME Outage PROVE (Awaits /\ AwaitingHasAction)'
    BY <1>14 DEF Outage, RedisTurns, runVars, routerVars
<1>15. ASSUME NEW e \in Endpoints, Cools(e) PROVE (Awaits /\ AwaitingHasAction)'
    BY <1>15 DEF Cools, CooldownEnds, runVars, routerVars
<1>16. CASE UNCHANGED vars
    BY <1>16 DEF vars, runVars, loopVars, routerVars
<1> QED
    BY <1>1, <1>2, <1>3, <1>4, <1>5, <1>6, <1>7, <1>8, <1>9, <1>10, <1>11, <1>12, <1>13,
       <1>14, <1>15, <1>16 DEF Next, Goes, Plan, Dispatch

\* A run that ends in its loop gives its lease back.
LEMMA EndsGivesBack ==
    ASSUME Shape, LoadCounts, NEW r \in Runs, NEW t, step[r] \in Leased,
           Ends(r, t), endpoint' = endpoint
    PROVE  LoadCounts'
<1>1. step'[r] \notin Leased /\ \A q \in Runs \ {r} : step'[q] = step[q]
    BY DEF Ends, Goto, Shape, Typed, Leased
<1> QED
    BY <1>1, LeaseGivenBack DEF Ends, Shape, Typed

\* After a result it goes on, or ends.
LEMMA ContinuesCounts ==
    ASSUME Shape, LoadCounts, NEW r \in Runs, NEW dry, step[r] = "dispatch",
           Continues(r, dry), endpoint' = endpoint
    PROVE  LoadCounts'
<1>1. CASE used[r] = MaxIterations
    BY <1>1, EndsGivesBack DEF Continues, Leased
<1>2. CASE used[r] # MaxIterations
    <2>1. \A q \in Runs : step'[q] \in Leased <=> step[q] \in Leased
        BY <1>2 DEF Continues, Goto, Shape, Typed, Leased
    <2> QED
        BY <1>2, <2>1, LeasesKept DEF Continues
<1> QED
    BY <1>1, <1>2

\* Every step keeps the load equal to the number of leases.
LEMMA LoadStep == Shape /\ LoadCounts /\ [Next]_vars => LoadCounts'
<1> SUFFICES ASSUME Shape, LoadCounts, [Next]_vars PROVE LoadCounts'
    OBVIOUS
<1>1. ASSUME NEW r \in Runs, NEW e \in Endpoints,
             NEW v \in {"explicit", "local", "cloud", "default"}, Start(r, e, v)
      PROVE  LoadCounts'
    <2>1. step[r] \notin Leased /\ step'[r] \notin Leased
        BY <1>1 DEF Start, Goto, Leased, Shape, Typed
    <2>2. \A q \in Runs \ {r} : step'[q] = step[q] /\ endpoint'[q] = endpoint[q]
        BY <1>1 DEF Start, Goto, Shape, Typed
    <2> QED
        BY <1>1, <2>1, <2>2, LeasesKept DEF Start, routerVars
<1>2. ASSUME NEW r \in Runs, Lease(r) PROVE LoadCounts'
    <2>1. step[r] \notin Leased /\ step'[r] \in Leased
        BY <1>2 DEF Lease, Goto, Leased, Shape, Typed
    <2>2. \A q \in Runs \ {r} : step'[q] = step[q]
        BY <1>2 DEF Lease, Goto, Shape, Typed
    <2> QED
        BY <1>2, <2>1, <2>2, LeaseTaken DEF Lease, runVars, Shape, Typed
<1>3. ASSUME NEW r \in Runs, PlanFinal(r) PROVE LoadCounts'
    BY <1>3, EndsGivesBack DEF PlanFinal, Asked, Leased
<1>4. ASSUME NEW r \in Runs, NEW c \in Calls, PlanCall(r, c) PROVE LoadCounts'
    <2>1. CASE c \in seenCalls[r]
        BY <1>4, <2>1, EndsGivesBack DEF PlanCall, Asked, Leased
    <2>2. CASE c \notin seenCalls[r]
        <3>1. \A q \in Runs : step'[q] \in Leased <=> step[q] \in Leased
            BY <1>4, <2>2 DEF PlanCall, Asked, Goto, Shape, Typed, Leased
        <3> QED
            BY <1>4, <2>2, <3>1, LeasesKept DEF PlanCall, Asked
    <2> QED
        BY <2>1, <2>2
<1>5. ASSUME NEW r \in Runs, PlanRaises(r) PROVE LoadCounts'
    <2>1. CASE db[r] # "expired"
        BY <1>5, <2>1, EndsGivesBack DEF PlanRaises, Leased
    <2>2. CASE db[r] = "expired"
        <3>1. Release(endpoint[r]) /\ Over({r}, "crashed") /\ step[r] = "plan"
            BY <1>5, <2>2 DEF PlanRaises
        <3>2. /\ step[r] \in Leased /\ step'[r] \notin Leased
              /\ \A q \in Runs \ {r} : step'[q] = step[q] /\ endpoint'[q] = endpoint[q]
            BY <3>1 DEF Over, Leased
        <3> QED
            BY <3>1, <3>2, LeaseGivenBack DEF Shape, Typed
    <2> QED
        BY <2>1, <2>2
<1>6. ASSUME NEW r \in Runs, DispatchRefused(r) PROVE LoadCounts'
    BY <1>6, ContinuesCounts DEF DispatchRefused, Dispatched
<1>7. ASSUME NEW r \in Runs, DispatchGuarded(r) PROVE LoadCounts'
    BY <1>7, ContinuesCounts DEF DispatchGuarded, Dispatched
<1>8. ASSUME NEW r \in Runs, DispatchRuns(r) PROVE LoadCounts'
    BY <1>8, ContinuesCounts DEF DispatchRuns, Dispatched
<1>9. ASSUME NEW r \in Runs, DispatchProposes(r) PROVE LoadCounts'
    BY <1>9, EndsGivesBack DEF DispatchProposes, Dispatched, Leased
<1>10. ASSUME NEW r \in Runs, Record(r) PROVE LoadCounts'
    <2>1. load' = load
        BY <1>10 DEF Record, routerVars
    <2>2. \A q \in Runs : /\ step'[q] \in Leased <=> step[q] \in Leased
                          /\ step[q] \in Leased => endpoint'[q] = endpoint[q]
        BY <1>10 DEF Record, Over, Goto, runVars, Shape, Typed, Leased
    <2> QED
        BY <2>1, <2>2, LeasesKept
<1>11. ASSUME NEW r \in Runs, Save(r) PROVE LoadCounts'
    <2>1. load' = load
        BY <1>11 DEF Save, routerVars
    <2>2. \A q \in Runs : /\ step'[q] \in Leased <=> step[q] \in Leased
                          /\ step[q] \in Leased => endpoint'[q] = endpoint[q]
        BY <1>11 DEF Save, Over, Shape, Typed, Leased
    <2> QED
        BY <2>1, <2>2, LeasesKept
<1>12. ASSUME NEW r \in Runs, Leaves(r) PROVE LoadCounts'
    <2>1. \A q \in Runs \ {r} : step'[q] = step[q] /\ endpoint'[q] = endpoint[q]
        BY <1>12 DEF Leaves, Over
    <2>2. step'[r] \notin Leased
        BY <1>12 DEF Leaves, Over, Leased
    <2>3. CASE step[r] \in Leased
        BY <1>12, <2>1, <2>2, <2>3, LeaseGivenBack DEF Leaves, Shape, Typed
    <2>4. CASE step[r] \notin Leased
        BY <1>12, <2>1, <2>2, <2>4, LeasesKept DEF Leaves
    <2> QED
        BY <2>3, <2>4
<1>13. ASSUME Restart PROVE LoadCounts'
    <2>1. \A e \in Endpoints : load'[e] = 0
        BY <1>13 DEF Restart, RouterRestarts
    <2>2. \A q \in Runs : step'[q] \notin Leased
        BY <1>13 DEF Restart, Over, InFlight, Leased, Shape, Typed
    <2>3. \A e : Holders(e)' = {}
        BY <2>2 DEF Holders
    <2> QED
        BY <2>1, <2>3, FS_EmptySet DEF LoadCounts
<1>14. ASSUME Outage PROVE LoadCounts'
    BY <1>14, LeasesKept DEF Outage, RedisTurns, runVars
<1>15. ASSUME NEW e \in Endpoints, Cools(e) PROVE LoadCounts'
    BY <1>15, LeasesKept DEF Cools, CooldownEnds, runVars
<1>16. CASE UNCHANGED vars
    BY <1>16, LeasesKept DEF vars, runVars, routerVars
<1> QED
    BY <1>1, <1>2, <1>3, <1>4, <1>5, <1>6, <1>7, <1>8, <1>9, <1>10, <1>11, <1>12, <1>13,
       <1>14, <1>15, <1>16 DEF Next, Goes, Plan, Dispatch

-----------------------------------------------------------------------------
(* The bill                                                                *)

\* The answers that cloud runs in flight have had and not recorded, if they
\* cost something, and those that they may still have.
Had == {x \in CloudRuns \X (1 .. MaxIterations) :
          x[2] <= used[x[1]] /\ endpoint[x[1]] \in Paid}
ToCome == {x \in CloudRuns \X (1 .. MaxIterations) : ~(x[2] <= used[x[1]])}

\* What the budget lets pass: the last run starts below it.
Base == IF DailyCap = 0 THEN 0 ELSE DailyCap - 1

\* All that cloud runs have had is in the spend, or will be recorded; with
\* all they may still have it is within the bound.
Bounded ==
    /\ billed <= spend + Cardinality(Had)
    /\ billed + Cardinality(ToCome) <= Base + MaxIterations * together

CapTypes ==
    /\ billed \in Nat /\ spend \in Nat /\ together \in Nat /\ outages \in Nat
    /\ via \in [Runs -> {"none", "explicit", "local", "cloud", "default"}]
    /\ unbilled \in BOOLEAN
    /\ outages = 0 => redis = TRUE

CapInv == CapTypes /\ (outages = 0 /\ ~unbilled => Bounded)

Sent(r) == via[r] = "cloud" /\ step[r] \in InFlight \ {"save"}

\* The sets are finite, and the two of answers have no more than the cloud
\* runs may have of them.
FewAnswers ==
    /\ IsFiniteSet(CloudRuns) /\ Cardinality(CloudRuns) \in Nat
    /\ IsFiniteSet(Had) /\ Cardinality(Had) \in Nat
    /\ IsFiniteSet(ToCome) /\ Cardinality(ToCome) \in Nat
    /\ Cardinality(Had) + Cardinality(ToCome) <= Cardinality(CloudRuns) * MaxIterations

\* In every state there are finitely many, and no more than that.
LEMMA AnswersFinite == FewAnswers
<1> DEFINE all == CloudRuns \X (1 .. MaxIterations)
<1>1. IsFiniteSet(CloudRuns) /\ Cardinality(CloudRuns) \in Nat
    <2>1. CloudRuns \in SUBSET Runs
        BY DEF CloudRuns
    <2> QED BY <2>1, RunsAssumption, FS_Subset, FS_CardinalityType
<1>2. IsFiniteSet(1 .. MaxIterations) /\ Cardinality(1 .. MaxIterations) = MaxIterations
    BY BoundsAssumption, FS_Interval
<1>3. IsFiniteSet(all) /\ Cardinality(all) = Cardinality(CloudRuns) * MaxIterations
    BY <1>1, <1>2, FS_Product
<1>4. Had \in SUBSET all /\ ToCome \in SUBSET all
    BY DEF Had, ToCome
<1>5. Had \cap ToCome = {}
    BY DEF Had, ToCome
<1> HIDE DEF all
<1>6. /\ IsFiniteSet(Had) /\ Cardinality(Had) \in Nat
      /\ IsFiniteSet(ToCome) /\ Cardinality(ToCome) \in Nat
    BY <1>3, <1>4, FS_Subset, FS_CardinalityType
<1>7. Cardinality(Had \cup ToCome) = Cardinality(Had) + Cardinality(ToCome)
    <2>1. Cardinality(Had \cup ToCome)
            = Cardinality(Had) + Cardinality(ToCome) - Cardinality(Had \cap ToCome)
        BY <1>6, FS_Union
    <2>2. Cardinality(Had \cap ToCome) = 0
        BY <1>5, FS_EmptySet
    <2> QED BY <1>6, <2>1, <2>2
<1>8. Had \cup ToCome \in SUBSET all
    BY <1>4
<1>9. Cardinality(Had \cup ToCome) <= Cardinality(all)
    BY <1>3, <1>8, FS_Subset
<1> QED BY <1>1, <1>3, <1>6, <1>7, <1>9 DEF FewAnswers

\* They are in every state.
LEMMA AnswersAlwaysFinite == FewAnswers /\ FewAnswers'
BY AnswersFinite, PTL

\* A step that leaves the cloud runs in flight as they are keeps the bound.
LEMMA BillsKept ==
    ASSUME Bounded, billed \in Nat, spend \in Nat, spend' \in Nat, spend <= spend',
           billed' = billed, together' = together,
           \A r \in Runs : Sent(r)' <=> Sent(r),
           \A r \in Runs : Sent(r) => used'[r] = used[r] /\ endpoint'[r] = endpoint[r]
    PROVE  Bounded'
<1>1. CloudRuns' = CloudRuns /\ \A r \in CloudRuns : Sent(r)
    BY DEF CloudRuns, Sent
<1>2. CloudRuns \subseteq Runs
    BY DEF CloudRuns
<1>3. Had' = Had
    BY <1>1, <1>2 DEF Had
<1>4. ToCome' = ToCome
    BY <1>1, <1>2 DEF ToCome
<1> QED
    BY <1>3, <1>4, AnswersFinite DEF Bounded, FewAnswers

\* A product grows with its factors.
LEMMA TimesGrows ==
    ASSUME NEW m \in Nat, NEW n \in Nat, NEW k \in Nat, m <= n
    PROVE  m * k \in Nat /\ k * n \in Nat /\ m * k <= k * n
<1> DEFINE d == n - m
<1>1. d \in Nat /\ n = m + d
    OBVIOUS
<1> HIDE DEF d
<1>2. k * n = m * k + k * d /\ k * d \in Nat /\ m * k \in Nat
    BY <1>1
<1> QED
    BY <1>2

\* A run that the router sends to the cloud starts below the budget: what all
\* of them may have is within the bound.
LEMMA CloudStarts ==
    ASSUME Shape, CapTypes, Bounded, outages = 0, NEW r \in Runs, NEW e \in Endpoints,
           Start(r, e, "cloud")
    PROVE  Bounded'
<1> DEFINE now == Cardinality(CloudRuns)
           next == Cardinality(CloudRuns')
<1>1. CloudRuns' = CloudRuns \cup {r} /\ r \notin CloudRuns
    BY DEF Start, Goto, CloudRuns, InFlight, Leased, Shape, Typed, CapTypes
<1>2. FewAnswers /\ FewAnswers'
    BY AnswersAlwaysFinite
<1>3. next = now + 1 /\ now \in Nat
    BY <1>1, <1>2, FS_AddElement DEF FewAnswers
<1>4. Had' = Had
    <2>1. used' = used /\ used[r] = 0 /\ \A q \in CloudRuns : endpoint'[q] = endpoint[q]
        BY <1>1 DEF Start, loopVars, Shape, Typed, Progress, CloudRuns
    <2>2. \A n \in 1 .. MaxIterations : ~(n <= 0)
        BY BoundsAssumption
    <2> QED
        BY <1>1, <2>1, <2>2 DEF Had
<1>5. spend < DailyCap
    BY DEF Start, Choice, Fallback, CanSpend, CapTypes
<1>6. together' \in Nat /\ next <= together'
    BY <1>3 DEF Start, CapTypes
<1>7. next \in Nat
    BY <1>3
<1> HIDE DEF now, next
<1>8. /\ next * MaxIterations \in Nat /\ MaxIterations * together' \in Nat
      /\ next * MaxIterations <= MaxIterations * together'
    BY <1>6, <1>7, TimesGrows, BoundsAssumption
<1>9. billed' = billed /\ spend' = spend
    BY DEF Start, routerVars
<1>10. Base \in Nat /\ spend <= Base
    BY <1>5, EndpointsAssumption DEF Base, CapTypes
<1> QED
    BY <1>2, <1>4, <1>8, <1>9, <1>10 DEF Bounded, next, FewAnswers, CapTypes

\* An answer of a cloud run is no longer to come; if it costs something, it is
\* billed, and had.
LEMMA CloudAnswers ==
    ASSUME Shape, CapTypes, Bounded, NEW r \in Runs, Asked(r), Sent(r),
           \A q \in Runs : Sent(q)' <=> Sent(q)
    PROVE  Bounded'
<1> DEFINE x == <<r, used[r] + 1>>
<1>1. CloudRuns' = CloudRuns /\ r \in CloudRuns
    BY DEF CloudRuns, Sent
<1>2. FewAnswers /\ FewAnswers'
    BY AnswersAlwaysFinite
<1>3. /\ used[r] \in Nat /\ used[r] + 1 \in 1 .. MaxIterations
      /\ used' = [used EXCEPT ![r] = @ + 1] /\ endpoint' = endpoint
      /\ used \in [Runs -> 0 .. MaxIterations]
    BY BoundsAssumption DEF Asked, Shape, Typed, Progress
<1>4. CloudRuns \subseteq Runs
    BY DEF CloudRuns
<1>5. \A q \in CloudRuns, n \in 1 .. MaxIterations :
        (n <= used'[q]) <=> (n <= used[q] \/ <<q, n>> = x)
    BY <1>1, <1>3, <1>4, BoundsAssumption
<1>6. x \in ToCome /\ x \notin Had
    BY <1>1, <1>3 DEF ToCome, Had
<1>7. ToCome' = ToCome \ {x}
    BY <1>1, <1>5 DEF ToCome
<1>8. Cardinality(ToCome') = Cardinality(ToCome) - 1
    BY <1>2, <1>6, <1>7, FS_RemoveElement DEF FewAnswers
<1>9. CASE endpoint[r] \in Paid
    <2>1. Had' = Had \cup {x}
        BY <1>1, <1>3, <1>5, <1>9 DEF Had
    <2>2. Cardinality(Had') = Cardinality(Had) + 1
        BY <1>2, <1>6, <2>1, FS_AddElement DEF FewAnswers
    <2>3. billed' = billed + 1 /\ spend' = spend /\ together' = together
        BY <1>9 DEF Asked, Sent
    <2>4. Base \in Nat /\ MaxIterations * together \in Nat
        BY EndpointsAssumption, BoundsAssumption DEF Base, CapTypes
    <2> QED
        BY <1>2, <1>8, <2>2, <2>3, <2>4 DEF Bounded, FewAnswers, CapTypes
<1>10. CASE endpoint[r] \notin Paid
    <2>1. Had' = Had
        BY <1>1, <1>3, <1>5, <1>10 DEF Had
    <2>2. billed' = billed /\ spend' = spend /\ together' = together
        BY <1>10 DEF Asked
    <2>3. Base \in Nat /\ MaxIterations * together \in Nat
        BY EndpointsAssumption, BoundsAssumption DEF Base, CapTypes
    <2> QED
        BY <1>2, <1>8, <2>1, <2>2, <2>3 DEF Bounded, FewAnswers, CapTypes
<1> QED
    BY <1>9, <1>10

\* A cloud run that records its tokens puts what it has had into the spend.
LEMMA CloudRecords ==
    ASSUME Shape, CapTypes, Bounded, outages = 0, NEW r \in Runs, Sent(r),
           RecordTokens(endpoint[r], used[r]), Goto(r, "save"),
           used' = used, endpoint' = endpoint, via' = via,
           billed' = billed, together' = together
    PROVE  Bounded'
<1> DEFINE its == {x \in Had : x[1] = r}
<1>1. CloudRuns' = CloudRuns \ {r} /\ r \in CloudRuns
    BY DEF Goto, CloudRuns, Sent, Shape, Typed
<1>2. FewAnswers /\ FewAnswers'
    BY AnswersAlwaysFinite
<1>3. Had' = Had \ its
    BY <1>1 DEF Had
<1>4. ToCome' \in SUBSET ToCome
    BY <1>1 DEF ToCome
<1>5. Cardinality(ToCome') <= Cardinality(ToCome)
    BY <1>2, <1>4, FS_Subset DEF FewAnswers
<1>6. /\ Cardinality(Had') = Cardinality(Had) - Cardinality(its)
      /\ Cardinality(its) \in Nat
    <2>1. its \in SUBSET Had /\ Had \cap its = its
        OBVIOUS
    <2> HIDE DEF its
    <2>2. Cardinality(Had \ its) = Cardinality(Had) - Cardinality(Had \cap its)
        BY <1>2, FS_Difference DEF FewAnswers
    <2>3. IsFiniteSet(its)
        BY <1>2, <2>1, FS_Subset DEF FewAnswers
    <2> QED
        BY <1>3, <2>1, <2>2, <2>3, FS_CardinalityType
<1>7. spend' \in Nat /\ Cardinality(its) + spend <= spend'
    <2>1. used[r] \in Nat
        BY BoundsAssumption DEF Shape, Typed
    <2>2. CASE endpoint[r] \in Paid
        <3> DEFINE all == {r} \X (1 .. used[r])
        <3>1. its \in SUBSET all
            BY <2>1, BoundsAssumption DEF Had
        <3>2. IsFiniteSet(1 .. used[r]) /\ Cardinality(1 .. used[r]) = used[r]
            BY <2>1, FS_Interval
        <3>3. IsFiniteSet({r}) /\ Cardinality({r}) = 1
            BY FS_Singleton
        <3>4. IsFiniteSet(all) /\ Cardinality(all) = 1 * used[r]
            BY <3>2, <3>3, FS_Product
        <3> HIDE DEF all, its
        <3>5. Cardinality(its) <= Cardinality(all)
            BY <3>1, <3>4, FS_Subset
        <3>6. spend' = spend + used[r]
            BY <2>2 DEF RecordTokens, CapTypes
        <3> QED
            BY <1>6, <2>1, <3>4, <3>5, <3>6 DEF CapTypes
    <2>3. CASE endpoint[r] \notin Paid
        <3>1. its = {}
            BY <2>3 DEF Had
        <3>2. spend' = spend
            BY <2>3 DEF RecordTokens, CapTypes
        <3> QED
            BY <3>1, <3>2, FS_EmptySet DEF CapTypes
    <2> QED
        BY <2>2, <2>3
<1>8. Base \in Nat /\ MaxIterations * together \in Nat
    BY EndpointsAssumption, BoundsAssumption DEF Base, CapTypes
<1> HIDE DEF its
<1> QED
    BY <1>2, <1>5, <1>6, <1>7, <1>8 DEF Bounded, FewAnswers, CapTypes

\* Every step keeps what is counted, and Redis answers until it stops.
LEMMA CapTypesStep == Shape /\ CapTypes /\ [Next]_vars => CapTypes'
<1> SUFFICES ASSUME Shape, CapTypes, [Next]_vars PROVE CapTypes'
    OBVIOUS
<1>0. \A r \in Runs : used[r] \in Nat
    BY BoundsAssumption DEF Shape, Typed
<1> USE DEF CapTypes
<1>1. ASSUME NEW r \in Runs, NEW e \in Endpoints,
             NEW v \in {"explicit", "local", "cloud", "default"}, Start(r, e, v)
      PROVE  CapTypes'
    <2>1. Cardinality(CloudRuns) \in Nat
        BY AnswersFinite DEF FewAnswers
    <2>2. together' \in Nat
        BY <1>1, <2>1 DEF Start
    <2>3. via' \in [Runs -> {"none", "explicit", "local", "cloud", "default"}]
        BY <1>1 DEF Start
    <2> QED
        BY <1>1, <2>2, <2>3 DEF Start, routerVars
<1>2. ASSUME NEW r \in Runs, Lease(r) PROVE CapTypes'
    BY <1>2 DEF Lease, runVars, histories
<1>3. ASSUME NEW r \in Runs, Asked(r) PROVE CapTypes'
    BY <1>3 DEF Asked
<1>4. ASSUME NEW r \in Runs, PlanRaises(r) PROVE CapTypes'
    BY <1>4 DEF PlanRaises, Over
<1>5. ASSUME NEW r \in Runs, Dispatched(r) PROVE CapTypes'
    BY <1>5 DEF Dispatched, histories
<1>6. ASSUME NEW r \in Runs, Record(r) PROVE CapTypes'
    <2>1. CASE db[r] = "expired"
        BY <1>6, <2>1 DEF Record, Over, routerVars
    <2>2. CASE db[r] # "expired"
        <3>1. RecordTokens(endpoint[r], used[r]) /\ via' = via
            BY <1>6, <2>2 DEF Record, runVars
        <3>2. spend' \in Nat
            BY <1>0, <3>1 DEF RecordTokens
        <3> QED
            BY <1>6, <2>2, <3>1, <3>2 DEF Record, RecordTokens
    <2> QED
        BY <2>1, <2>2
<1>7. ASSUME NEW r \in Runs, Save(r) PROVE CapTypes'
    BY <1>7 DEF Save, Over, routerVars, histories
<1>8. ASSUME NEW r \in Runs, Leaves(r) PROVE CapTypes'
    BY <1>8 DEF Leaves, Over
<1>9. ASSUME Restart PROVE CapTypes'
    BY <1>9 DEF Restart, Over, RouterRestarts
<1>10. ASSUME Outage PROVE CapTypes'
    BY <1>10 DEF Outage, RedisTurns, runVars, histories
<1>11. ASSUME NEW e \in Endpoints, Cools(e) PROVE CapTypes'
    BY <1>11 DEF Cools, CooldownEnds, runVars, histories
<1>12. CASE UNCHANGED vars
    BY <1>12 DEF vars, runVars, routerVars, histories
<1> QED
    BY <1>1, <1>2, <1>3, <1>4, <1>5, <1>6, <1>7, <1>8, <1>9, <1>10, <1>11, <1>12
    DEF Next, Goes, Plan, PlanFinal, PlanCall, Dispatch, DispatchRefused, DispatchGuarded,
        DispatchRuns, DispatchProposes

\* Every step keeps the bound, as long as Redis answers and every run records.
LEMMA BoundedStep ==
    ASSUME Shape, CapInv, [Next]_vars, CapTypes', outages' = 0, ~unbilled'
    PROVE  Bounded'
<1> USE DEF CapInv, CapTypes, Sent
<1>1. ASSUME NEW r \in Runs, NEW e \in Endpoints,
             NEW v \in {"explicit", "local", "cloud", "default"}, Start(r, e, v)
      PROVE  Bounded'
    <2>1. Bounded /\ outages = 0
        BY <1>1 DEF Start
    <2>2. CASE v = "cloud"
        BY <1>1, <2>1, <2>2, CloudStarts
    <2>3. CASE v # "cloud"
        <3>1. \A q \in Runs : Sent(q)' <=> Sent(q)
            BY <1>1, <2>3 DEF Start, Goto, Shape, Typed, InFlight, Leased
        <3>2. \A q \in Runs : Sent(q) => used'[q] = used[q] /\ endpoint'[q] = endpoint[q]
            BY <1>1 DEF Start, Shape, Typed, InFlight, Leased
        <3>3. spend' = spend /\ billed' = billed /\ together' = together
            BY <1>1, <2>3 DEF Start, routerVars
        <3> QED
            BY <2>1, <3>1, <3>2, <3>3, BillsKept
    <2> QED
        BY <2>2, <2>3
<1>2. ASSUME NEW r \in Runs, Lease(r) PROVE Bounded'
    <2>1. \A q \in Runs : Sent(q)' <=> Sent(q)
        BY <1>2 DEF Lease, Goto, runVars, Shape, Typed, InFlight, Leased
    <2> QED
        BY <1>2, <2>1, BillsKept DEF Lease, runVars, histories
<1>3. ASSUME NEW r \in Runs, Asked(r), \A q \in Runs : Sent(q)' <=> Sent(q) PROVE Bounded'
    <2>1. Bounded
        BY <1>3 DEF Asked
    <2>2. CASE Sent(r)
        BY <1>3, <2>1, <2>2, CloudAnswers
    <2>3. CASE ~Sent(r)
        <3>1. via[r] # "cloud"
            BY <1>3, <2>3 DEF Asked, InFlight, Leased
        <3>2. \A q \in Runs : Sent(q) => used'[q] = used[q] /\ endpoint'[q] = endpoint[q]
            BY <1>3, <2>3 DEF Asked, Shape, Typed
        <3>3. spend' = spend /\ billed' = billed /\ together' = together
            BY <1>3, <3>1 DEF Asked
        <3> QED
            BY <1>3, <2>1, <3>2, <3>3, BillsKept
    <2> QED
        BY <2>2, <2>3
<1>4. ASSUME NEW r \in Runs, PlanFinal(r) PROVE Bounded'
    <2>1. \A q \in Runs : Sent(q)' <=> Sent(q)
        BY <1>4 DEF PlanFinal, Asked, Ends, Goto, Shape, Typed, InFlight, Leased
    <2> QED
        BY <1>3, <1>4, <2>1 DEF PlanFinal
<1>5. ASSUME NEW r \in Runs, NEW c \in Calls, PlanCall(r, c) PROVE Bounded'
    <2>1. \A q \in Runs : Sent(q)' <=> Sent(q)
        BY <1>5 DEF PlanCall, Asked, Ends, Goto, Shape, Typed, InFlight, Leased
    <2> QED
        BY <1>3, <1>5, <2>1 DEF PlanCall
<1>6. ASSUME NEW r \in Runs, PlanRaises(r) PROVE Bounded'
    <2>1. db[r] # "expired"
        BY <1>6 DEF PlanRaises
    <2>2. \A q \in Runs : Sent(q)' <=> Sent(q)
        BY <1>6, <2>1 DEF PlanRaises, Ends, Goto, Shape, Typed, InFlight, Leased
    <2> QED
        BY <1>6, <2>1, <2>2, BillsKept DEF PlanRaises
<1>7. ASSUME NEW r \in Runs, Dispatched(r),
             step'[r] \in {"plan", "over"} /\ \A q \in Runs \ {r} : step'[q] = step[q]
      PROVE  Bounded'
    <2>1. \A q \in Runs : Sent(q)' <=> Sent(q)
        BY <1>7 DEF Dispatched, InFlight, Leased
    <2> QED
        BY <1>7, <2>1, BillsKept DEF Dispatched, histories
<1>8. ASSUME NEW r \in Runs, Dispatch(r) PROVE Bounded'
    <2>1. Dispatched(r)
        BY <1>8 DEF Dispatch, DispatchRefused, DispatchGuarded, DispatchRuns, DispatchProposes
    <2>2. step'[r] \in {"plan", "over"} /\ \A q \in Runs \ {r} : step'[q] = step[q]
        BY <1>8 DEF Dispatch, DispatchRefused, DispatchGuarded, DispatchRuns, DispatchProposes,
                    Continues, Ends, Goto, Shape, Typed
    <2> QED
        BY <1>7, <2>1, <2>2
<1>9. ASSUME NEW r \in Runs, Record(r) PROVE Bounded'
    <2>1. /\ Bounded /\ outages = 0
          /\ RecordTokens(endpoint[r], used[r]) /\ Goto(r, "save") /\ step[r] = "over"
          /\ used' = used /\ endpoint' = endpoint /\ via' = via
          /\ billed' = billed /\ together' = together
        BY <1>9 DEF Record, runVars
    <2>2. CASE Sent(r)
        BY <2>1, <2>2, CloudRecords
    <2>3. CASE ~Sent(r)
        <3>1. \A q \in Runs : Sent(q)' <=> Sent(q)
            BY <2>1, <2>3 DEF Goto, Shape, Typed, InFlight, Leased
        <3>2. used[r] \in Nat
            BY BoundsAssumption DEF Shape, Typed
        <3>3. spend' \in Nat /\ spend <= spend'
            BY <2>1, <3>2 DEF RecordTokens
        <3> QED
            BY <2>1, <3>1, <3>3, BillsKept
    <2> QED
        BY <2>2, <2>3
<1>10. ASSUME NEW r \in Runs, Save(r) PROVE Bounded'
    <2>1. \A q \in Runs : Sent(q)' <=> Sent(q)
        BY <1>10 DEF Save, Over
    <2>2. \A q \in Runs : Sent(q) => used'[q] = used[q] /\ endpoint'[q] = endpoint[q]
        BY <1>10 DEF Save, Over
    <2> QED
        BY <1>10, <2>1, <2>2, BillsKept DEF Save, routerVars, histories
<1>11. ASSUME NEW r \in Runs, Leaves(r) PROVE Bounded'
    <2>1. step[r] = "save"
        BY <1>11 DEF Leaves
    <2>2. \A q \in Runs : Sent(q)' <=> Sent(q)
        BY <1>11, <2>1 DEF Leaves, Over
    <2>3. \A q \in Runs : Sent(q) => used'[q] = used[q] /\ endpoint'[q] = endpoint[q]
        BY <1>11, <2>1 DEF Leaves, Over
    <2> QED
        BY <1>11, <2>2, <2>3, BillsKept DEF Leaves
<1>12. ASSUME Restart PROVE Bounded'
    <2>1. \A q \in Runs : step[q] \notin InFlight \ {"save"}
        BY <1>12 DEF Restart
    <2>2. \A q \in Runs : ~Sent(q) /\ ~Sent(q)'
        BY <1>12, <2>1 DEF Restart, Over
    <2> QED
        BY <1>12, <2>2, BillsKept DEF Restart, RouterRestarts
<1>13. ASSUME Outage PROVE Bounded'
    BY <1>13 DEF Outage
<1>14. ASSUME NEW e \in Endpoints, Cools(e) PROVE Bounded'
    BY <1>14, BillsKept DEF Cools, CooldownEnds, runVars, histories
<1>15. CASE UNCHANGED vars
    BY <1>15, BillsKept DEF vars, runVars, routerVars, histories
<1> QED
    BY <1>1, <1>2, <1>4, <1>5, <1>6, <1>8, <1>9, <1>10, <1>11, <1>12, <1>13, <1>14, <1>15
    DEF Next, Goes, Plan

-----------------------------------------------------------------------------
(* Theorems                                                                *)

\* The initial states satisfy the inductive invariant.
LEMMA InitIInv == Init => IInv
<1> SUFFICES ASSUME Init PROVE IInv
    OBVIOUS
<1>1. Shape
    BY BoundsAssumption
    DEF Init, InitRouter, Shape, Typed, Progress, Steps, InFlight, Leased, Outcomes
<1>2. \A e : Holders(e) = {}
    BY DEF Init, Holders, Leased
<1>3. LoadCounts
    BY <1>2, FS_EmptySet DEF Init, InitRouter, LoadCounts
<1>4. Awaits /\ AwaitingHasAction
    BY DEF Init, Awaits, AwaitingHasAction
<1> QED
    BY <1>1, <1>3, <1>4 DEF IInv

\* Every behaviour satisfies the inductive invariant.
LEMMA Invariance == Spec => []IInv
<1>1. IInv /\ [Next]_vars => IInv'
    BY ShapeStep, AwaitsStep, LoadStep DEF IInv
<1> QED
    BY <1>1, InitIInv, PTL DEF Spec

\* No session waits for an approval nobody can give: the stream of
\* run_agent_stream stores awaiting_approval only if the action it proposed
\* is in the database, although it passes over errors of create_proposal.
THEOREM WaitingHasAction == Spec => []AwaitingHasAction
<1>1. IInv => AwaitingHasAction
    BY DEF IInv
<1> QED
    BY <1>1, Invariance, PTL

\* The variables keep their values, and the load tier_router sees of an
\* endpoint is the number of runs that hold a lease of it, however runs end.
THEOREM TypeCorrect == Spec => []TypeOK
<1>1. IInv => TypeOK
    BY DEF IInv, Shape, Typed, LoadCounts, TypeOK, Steps, Outcomes
<1> QED
    BY <1>1, Invariance, PTL
\* The budget of the paid endpoints holds up to what the runs in flight
\* together may have: select_endpoint compares the spend with the cap when a
\* run starts, and run_agent_stream adds its tokens when it has ended.
THEOREM BudgetHolds == Spec => []CapHolds
<1>1. Init => CapInv
    <2> SUFFICES ASSUME Init PROVE CapInv
        OBVIOUS
    <2>1. CapTypes
        BY DEF Init, InitRouter, CapTypes
    <2>2. CloudRuns = {}
        BY DEF Init, CloudRuns
    <2>3. Cardinality(Had) \in Nat /\ Cardinality(ToCome) = 0
        <3>1. ToCome = {}
            BY <2>2 DEF ToCome
        <3> QED
            BY <3>1, AnswersFinite, FS_EmptySet DEF FewAnswers
    <2>4. Base \in Nat /\ MaxIterations * together = 0
        BY EndpointsAssumption, BoundsAssumption DEF Base, Init
    <2> QED
        BY <2>1, <2>3, <2>4 DEF CapInv, Bounded, Init, InitRouter
<1>2. IInv /\ CapInv /\ [Next]_vars => CapInv'
    <2> SUFFICES ASSUME IInv, CapInv, [Next]_vars PROVE CapInv'
        OBVIOUS
    <2>1. CapTypes'
        BY CapTypesStep DEF IInv, CapInv
    <2>2. outages' = 0 /\ ~unbilled' => Bounded'
        BY <2>1, BoundedStep DEF IInv
    <2> QED
        BY <2>1, <2>2 DEF CapInv
<1>3. CapInv => CapHolds
    <2> SUFFICES ASSUME CapTypes, Bounded PROVE CapHolds
        BY DEF CapInv, CapHolds
    <2>1. Cardinality(ToCome) \in Nat
        BY AnswersFinite DEF FewAnswers
    <2>2. Base \in Nat /\ MaxIterations * together \in Nat
        BY EndpointsAssumption, BoundsAssumption DEF Base, CapTypes
    <2>3. billed <= Base + MaxIterations * together
        BY <2>1, <2>2 DEF CapTypes, Bounded
    <2> QED
        BY <2>3 DEF CapHolds, Base
<1> QED
    BY <1>1, <1>2, <1>3, Invariance, PTL DEF Spec
=============================================================================
