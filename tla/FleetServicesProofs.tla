------------------------ MODULE FleetServicesProofs ------------------------
(***************************************************************************)
(* Theorems about FleetServices, for any sessions, pushes, requests, tasks *)
(* and questions, however many act in one behaviour.                       *)
(*                                                                         *)
(* The six components share no state, so each has an inductive invariant   *)
(* of its own, about its own variables and its own steps; a step of the    *)
(* whole is a step of one of them and leaves the others alone (Separate).  *)
(***************************************************************************)
EXTENDS FleetServices, FiniteSetTheorems, SequenceTheorems, NaturalsInduction,
        WellFoundedInduction, TLAPS

\* A step of the platform is, for each component, a step of it or none.
LEMMA Separate ==
    [Next]_vars =>
        /\ [Console]_consoleVars /\ [Ingest]_ingestVars /\ [Pillar]_pillarVars
        /\ [Index]_indexVars /\ [Library]_libraryVars /\ [Queries]_queryVars
BY DEF Next, vars

\* Each component begins as it says.
LEMMA SeparateInit ==
    Init => \E who \in Workloads :
                /\ InitConsoles(who \cap Sessions)
                /\ InitIngest(who \cap (Pushes \cup Returns))
                /\ InitPillar(who \cap Writers)
                /\ InitIndex(who \cap Indexers)
                /\ InitLibrary(who \cap Requests)
                /\ InitQueries(who \cap (Questions \cup Changes))
BY DEF Init

-----------------------------------------------------------------------------
(* Reports and their tokens                                                *)

IngestTypes ==
    /\ token \in Minters \cup {Registered}
    /\ push \in [Pushes -> PushStep]
    /\ loaded \in [Pushes -> {Unknown} \cup {Grain[g] : g \in Pushes}]
    /\ column \in {Unknown} \cup {Grain[g] : g \in Pushes}
    /\ latest \in Pushes \cup {Registered}
    /\ outdated \subseteq Pushes
    /\ count \in Nat
    /\ posted \in [Returns -> ReturnStep]
    /\ recorded \subseteq Returns

\* Once somebody has minted a token, the one that was registered is gone; who
\* is refused had a token that another one has replaced.
TokenInv ==
    \A g \in Pushes :
        /\ g \in Minters /\ push[g] # "idle" => token \in Minters
        /\ push[g] = "refused" => token \in Minters \ {g}

\* The counter never runs ahead of those let in before the limit is reached.
CountInv ==
    /\ IsFiniteSet(Admitted)
    /\ count <= RateLimit => count <= Cardinality(Admitted)
    /\ count > RateLimit \/ (\E g \in Pushes : push[g] = "limited")
           => RateLimit <= Cardinality(Admitted)

\* Who is about to write and was not overtaken knows the row as it is.
RowInv ==
    /\ \A g \in Pushes \ outdated : push[g] \in {"known", "admitted"} => loaded[g] = column
    /\ RowFollowsFacts

\* At most one request at a time has inserted a job, and then nobody has
\* recorded it.
ReturnInv ==
    /\ \A p, q \in recorded : Jid[p] = Jid[q] => p = q
    /\ \A p \in Returns :
          /\ posted[p] = "inserted" =>
                /\ \A q \in recorded : Jid[q] # Jid[p]
                /\ \A q \in Returns : posted[q] = "inserted" /\ Jid[q] = Jid[p] => q = p
          /\ posted[p] = "acknowledged" => \E q \in recorded : Jid[q] = Jid[p]

IngestInv == IngestTypes /\ TokenInv /\ CountInv /\ RowInv /\ ReturnInv

\* The reports begin so ...
LEMMA IngestInit == ASSUME NEW who, InitIngest(who) PROVE IngestInv
<1> USE IngestAssumption DEF InitIngest
<1>1. IngestTypes
    BY DEF IngestTypes, PushStep, ReturnStep
<1>2. Admitted = {}
    BY DEF Admitted
<1>3. CountInv
    BY <1>2, FS_EmptySet DEF CountInv
<1>4. TokenInv /\ RowInv /\ ReturnInv
    BY DEF TokenInv, RowInv, RowFollowsFacts, ReturnInv
<1> QED BY <1>1, <1>3, <1>4 DEF IngestInv

\* Type correctness.
LEMMA IngestTypesStep == IngestTypes /\ [Ingest]_ingestVars => IngestTypes'
<1> SUFFICES ASSUME IngestTypes, [Ingest]_ingestVars PROVE IngestTypes'
    OBVIOUS
<1> USE DEF IngestTypes, PushStep, ReturnStep, PushTo, ReturnTo, grainVars
<1>1. ASSUME NEW m \in Minters, Mint(m) PROVE IngestTypes'
    BY <1>1 DEF Mint, Pushes
<1>2. ASSUME NEW m \in Minters, SendGrains(m) PROVE IngestTypes'
    BY <1>2 DEF SendGrains, Pushes
<1>3. ASSUME NEW b \in Heartbeats, SendHeartbeat(b) PROVE IngestTypes'
    BY <1>3 DEF SendHeartbeat, Pushes
<1>4. ASSUME NEW g \in Pushes, ResolvePush(g) PROVE IngestTypes'
    BY <1>4 DEF ResolvePush
<1>5. ASSUME NEW g \in Pushes, CheckRateLimit(g) PROVE IngestTypes'
    BY <1>5 DEF CheckRateLimit
<1>6. ASSUME NEW g \in Pushes, StoreGrains(g) PROVE IngestTypes'
    BY <1>6 DEF StoreGrains, Flushed
<1>7. ASSUME NEW g \in Pushes, PushLost(g) \/ ThrottlePush(g) PROVE IngestTypes'
    BY <1>7 DEF PushLost, ThrottlePush
<1>8. ASSUME NEW p \in Returns, ResolveReturn(p) PROVE IngestTypes'
    BY <1>8 DEF ResolveReturn
<1>9. ASSUME NEW p \in Returns, CheckReturn(p) \/ InsertJob(p) PROVE IngestTypes'
    BY <1>9 DEF CheckReturn, InsertJob
<1>10. ASSUME NEW p \in Returns, CommitReturn(p) \/ ReturnLost(p) \/ ThrottleReturn(p)
       PROVE  IngestTypes'
    BY <1>10 DEF CommitReturn, ReturnLost, ThrottleReturn
<1>11. CASE WindowPasses
    BY <1>11 DEF WindowPasses
<1>12. CASE UNCHANGED ingestVars
    BY <1>12 DEF ingestVars
<1> QED
    BY <1>1, <1>2, <1>3, <1>4, <1>5, <1>6, <1>7, <1>8, <1>9, <1>10, <1>11, <1>12 DEF Ingest

\* A refusal has its cause in a token that was minted since.
LEMMA TokenStep == IngestTypes /\ TokenInv /\ [Ingest]_ingestVars => TokenInv'
<1> SUFFICES ASSUME IngestTypes, TokenInv, [Ingest]_ingestVars PROVE TokenInv'
    OBVIOUS
<1> USE IngestAssumption DEF IngestTypes, TokenInv, PushTo, grainVars
<1>1. ASSUME NEW m \in Minters, Mint(m) PROVE TokenInv'
    BY <1>1 DEF Mint, Pushes
<1>2. ASSUME NEW m \in Minters, SendGrains(m) PROVE TokenInv'
    BY <1>2 DEF SendGrains, Pushes
<1>3. ASSUME NEW b \in Heartbeats, SendHeartbeat(b) PROVE TokenInv'
    BY <1>3 DEF SendHeartbeat, Pushes
<1>4. ASSUME NEW g \in Pushes, ResolvePush(g) PROVE TokenInv'
    BY <1>4 DEF ResolvePush, TokenOf, Pushes
<1>5. ASSUME NEW g \in Pushes, CheckRateLimit(g) \/ StoreGrains(g) \/ PushLost(g) \/ ThrottlePush(g)
      PROVE  TokenInv'
    BY <1>5 DEF CheckRateLimit, StoreGrains, PushLost, ThrottlePush
<1>6. CASE UNCHANGED <<token, push>>
    BY <1>6
<1>7. (\E p \in Returns : \/ ResolveReturn(p) \/ CheckReturn(p) \/ InsertJob(p)
                          \/ CommitReturn(p) \/ ReturnLost(p) \/ ThrottleReturn(p))
         \/ WindowPasses \/ UNCHANGED ingestVars => UNCHANGED <<token, push>>
    BY DEF ResolveReturn, CheckReturn, InsertJob, CommitReturn, ReturnLost, ThrottleReturn,
        WindowPasses, ingestVars
<1> QED
    BY <1>1, <1>2, <1>3, <1>4, <1>5, <1>6, <1>7 DEF Ingest

\* Nobody who was let in is forgotten, and one more push is let in, or lost,
\* at a time.
LEMMA AdmittedStep ==
    ASSUME IngestTypes, [Ingest]_ingestVars
    PROVE  Admitted' = Admitted \/ \E g \in Pushes \ Admitted : Admitted' = Admitted \cup {g}
<1> USE DEF IngestTypes, Admitted, PushTo, grainVars
<1> DEFINE Moves(g) == \E l \in PushStep :
                          /\ push' = [push EXCEPT ![g] = l]
                          /\ push[g] = "admitted" => l \in {"stored", "lost"}
                          /\ push[g] \notin {"stored", "lost"}
<1>1. ASSUME NEW g \in Pushes, Moves(g)
      PROVE  Admitted' = Admitted \/ (Admitted' = Admitted \cup {g} /\ g \notin Admitted)
    <2>1. PICK l \in PushStep :
              /\ push' = [push EXCEPT ![g] = l]
              /\ push[g] = "admitted" => l \in {"stored", "lost"}
              /\ push[g] \notin {"stored", "lost"}
        BY <1>1
    <2>2. \A h \in Pushes : push'[h] = IF h = g THEN l ELSE push[h]
        BY <2>1
    <2>3. CASE push[g] = "admitted"
        BY <2>1, <2>2, <2>3
    <2>4. CASE push[g] # "admitted" /\ l \in {"admitted", "stored", "lost"}
        BY <2>1, <2>2, <2>4
    <2>5. CASE push[g] # "admitted" /\ l \notin {"admitted", "stored", "lost"}
        BY <2>1, <2>2, <2>5
    <2> QED BY <2>3, <2>4, <2>5
<1>2. ASSUME NEW m \in Minters, Mint(m) \/ SendGrains(m) PROVE m \in Pushes /\ Moves(m)
    BY <1>2 DEF Mint, SendGrains, Pushes, PushStep
<1>3. ASSUME NEW b \in Heartbeats, SendHeartbeat(b) PROVE b \in Pushes /\ Moves(b)
    BY <1>3 DEF SendHeartbeat, Pushes, PushStep
<1>4. ASSUME NEW g \in Pushes,
             ResolvePush(g) \/ CheckRateLimit(g) \/ StoreGrains(g) \/ PushLost(g) \/ ThrottlePush(g)
      PROVE  Moves(g)
    BY <1>4 DEF ResolvePush, CheckRateLimit, StoreGrains, PushLost, ThrottlePush, PushStep
<1>5. (\E p \in Returns : \/ ResolveReturn(p) \/ CheckReturn(p) \/ InsertJob(p)
                          \/ CommitReturn(p) \/ ReturnLost(p) \/ ThrottleReturn(p))
         \/ WindowPasses \/ UNCHANGED ingestVars => Admitted' = Admitted
    BY DEF ResolveReturn, CheckReturn, InsertJob, CommitReturn, ReturnLost, ThrottleReturn,
        WindowPasses, ingestVars
<1>6. (\E g \in Pushes : Moves(g)) \/ Admitted' = Admitted
    <2> HIDE DEF Moves
    <2> QED BY <1>2, <1>3, <1>4, <1>5 DEF Ingest
<1> HIDE DEF Admitted, Moves
<1> QED BY <1>1, <1>6

\* The limit is reached by those that were let in before the counter was
\* reset, or since.
LEMMA CountStep == IngestTypes /\ CountInv /\ [Ingest]_ingestVars => CountInv'
<1> SUFFICES ASSUME IngestTypes, CountInv, [Ingest]_ingestVars PROVE CountInv'
    OBVIOUS
<1> USE IngestAssumption
<1>1. /\ IsFiniteSet(Admitted') /\ Cardinality(Admitted') \in Nat /\ Cardinality(Admitted) \in Nat
      /\ Cardinality(Admitted') >= Cardinality(Admitted)
      /\ Admitted' # Admitted => Cardinality(Admitted') = Cardinality(Admitted) + 1
    <2>1. IsFiniteSet(Admitted) /\ Cardinality(Admitted) \in Nat
        BY FS_CardinalityType DEF CountInv
    <2>2. CASE Admitted' = Admitted
        BY <2>1, <2>2
    <2>3. ASSUME NEW g \in Pushes \ Admitted, Admitted' = Admitted \cup {g}
          PROVE  IsFiniteSet(Admitted') /\ Cardinality(Admitted') = Cardinality(Admitted) + 1
        BY <2>1, <2>3, FS_AddElement
    <2> QED BY <2>1, <2>2, <2>3, AdmittedStep
<1>2. ASSUME NEW g \in Pushes, CheckRateLimit(g) PROVE CountInv'
    <2> USE DEF CheckRateLimit, IngestTypes, PushTo
    <2>1. CASE push'[g] = "unavailable"
        BY <1>1, <1>2, <2>1 DEF CountInv
    <2>2. CASE push'[g] = "admitted" /\ count' = count + 1 /\ count' <= RateLimit
        <3>1. g \in Admitted' \ Admitted
            BY <1>2, <2>2 DEF Admitted
        <3> QED BY <1>1, <1>2, <2>2, <3>1 DEF CountInv
    <2>3. CASE push'[g] = "limited" /\ count' = count + 1 /\ count' > RateLimit
        BY <1>1, <1>2, <2>3 DEF CountInv
    <2> QED BY <1>2, <2>1, <2>2, <2>3
<1>3. ASSUME count' \in {0, count}, \A g \in Pushes : push'[g] = "limited" => push[g] = "limited"
      PROVE  CountInv'
    BY <1>1, <1>3 DEF CountInv, IngestTypes
<1>4. ASSUME NEW m \in Minters, Mint(m) \/ SendGrains(m)
      PROVE  CountInv'
    BY <1>3, <1>4 DEF Mint, SendGrains, IngestTypes, PushTo, grainVars
<1>5. ASSUME NEW b \in Heartbeats, SendHeartbeat(b) PROVE CountInv'
    BY <1>3, <1>5 DEF SendHeartbeat, IngestTypes, PushTo, grainVars
<1>6. ASSUME NEW g \in Pushes, ResolvePush(g) \/ StoreGrains(g) \/ PushLost(g) \/ ThrottlePush(g)
      PROVE  CountInv'
    BY <1>3, <1>6 DEF ResolvePush, StoreGrains, PushLost, ThrottlePush, IngestTypes, PushTo, grainVars
<1>7. (\E p \in Returns : \/ ResolveReturn(p) \/ CheckReturn(p) \/ InsertJob(p)
                          \/ CommitReturn(p) \/ ReturnLost(p) \/ ThrottleReturn(p))
         \/ WindowPasses \/ UNCHANGED ingestVars => push' = push /\ count' \in {0, count}
    BY DEF ResolveReturn, CheckReturn, InsertJob, CommitReturn, ReturnLost, ThrottleReturn,
        WindowPasses, ingestVars, grainVars
<1> QED
    BY <1>2, <1>3, <1>4, <1>5, <1>6, <1>7 DEF Ingest

\* A push that was not overtaken writes what makes the row say its facts.
LEMMA RowStep == IngestTypes /\ RowInv /\ [Ingest]_ingestVars => RowInv'
<1> SUFFICES ASSUME IngestTypes, RowInv, [Ingest]_ingestVars PROVE RowInv'
    OBVIOUS
<1> USE IngestAssumption DEF IngestTypes, RowInv, RowFollowsFacts, PushTo, grainVars
<1>1. ASSUME NEW m \in Minters, Mint(m) \/ SendGrains(m) PROVE RowInv'
    BY <1>1 DEF Mint, SendGrains
<1>2. ASSUME NEW b \in Heartbeats, SendHeartbeat(b) PROVE RowInv'
    BY <1>2 DEF SendHeartbeat
<1>3. ASSUME NEW g \in Pushes, ResolvePush(g) PROVE RowInv'
    BY <1>3 DEF ResolvePush
<1>4. ASSUME NEW g \in Pushes, CheckRateLimit(g) \/ PushLost(g) \/ ThrottlePush(g) PROVE RowInv'
    BY <1>4 DEF CheckRateLimit, PushLost, ThrottlePush
<1>5. ASSUME NEW g \in Pushes, StoreGrains(g) PROVE RowInv'
    BY <1>5 DEF StoreGrains, Flushed
<1>6. (\E p \in Returns : \/ ResolveReturn(p) \/ CheckReturn(p) \/ InsertJob(p)
                          \/ CommitReturn(p) \/ ReturnLost(p) \/ ThrottleReturn(p))
         \/ WindowPasses \/ UNCHANGED ingestVars
            => UNCHANGED <<push, loaded, column, latest, outdated>>
    BY DEF ResolveReturn, CheckReturn, InsertJob, CommitReturn, ReturnLost, ThrottleReturn,
        WindowPasses, ingestVars
<1> QED
    BY <1>1, <1>2, <1>3, <1>4, <1>5, <1>6 DEF Ingest

\* The unique index keeps a second request from inserting the job.
LEMMA ReturnStepInv == IngestTypes /\ ReturnInv /\ [Ingest]_ingestVars => ReturnInv'
<1> SUFFICES ASSUME IngestTypes, ReturnInv, [Ingest]_ingestVars PROVE ReturnInv'
    OBVIOUS
<1> USE DEF IngestTypes, ReturnInv, ReturnTo, Known, Inserting
<1>1. ASSUME NEW p \in Returns,
             ResolveReturn(p) \/ CheckReturn(p) \/ ReturnLost(p) \/ ThrottleReturn(p)
      PROVE  ReturnInv'
    BY <1>1 DEF ResolveReturn, CheckReturn, ReturnLost, ThrottleReturn
<1>2. ASSUME NEW p \in Returns, InsertJob(p) PROVE ReturnInv'
    BY <1>2 DEF InsertJob
<1>3. ASSUME NEW p \in Returns, CommitReturn(p) PROVE ReturnInv'
    BY <1>3 DEF CommitReturn
<1>4. CASE UNCHANGED <<posted, recorded>>
    BY <1>4
<1>5. (\E m \in Minters : Mint(m) \/ SendGrains(m)) \/ (\E b \in Heartbeats : SendHeartbeat(b))
         \/ (\E g \in Pushes : \/ ResolvePush(g) \/ CheckRateLimit(g) \/ StoreGrains(g)
                               \/ PushLost(g) \/ ThrottlePush(g))
         \/ WindowPasses \/ UNCHANGED ingestVars
            => UNCHANGED <<posted, recorded>>
    BY DEF Mint, SendGrains, SendHeartbeat, ResolvePush, CheckRateLimit, StoreGrains, PushLost,
        ThrottlePush, WindowPasses, ingestVars
<1> QED
    BY <1>1, <1>2, <1>3, <1>4, <1>5 DEF Ingest

\* ... and every behaviour of the platform keeps them so.
LEMMA IngestInvariant == Spec => []IngestInv
<1>1. Init => IngestInv
    BY SeparateInit, IngestInit
<1>2. IngestInv /\ [Next]_vars => IngestInv'
    BY Separate, IngestTypesStep, TokenStep, CountStep, RowStep, ReturnStepInv DEF IngestInv
<1> QED BY <1>1, <1>2, PTL DEF Spec

\* A report of grains is refused only when another token has replaced the one
\* it came with, and limited only when as many as the limit were let in.
THEOREM NoIdleRefusal == Spec => []RefusalHasACause
<1> IngestInv => RefusalHasACause
    BY DEF IngestInv, TokenInv, CountInv, RefusalHasACause
<1> QED BY IngestInvariant, PTL

\* The row says what the newest facts say, unless an overtaken push stored
\* them.
THEOREM RowIsCurrent == Spec => []RowFollowsFacts
<1> IngestInv => RowFollowsFacts
    BY DEF IngestInv, RowInv
<1> QED BY IngestInvariant, PTL

\* The return of a job is recorded once, and before anyone is told so.
THEOREM RecordedOnce == Spec => []AcknowledgedOnce
<1> IngestInv => AcknowledgedOnce
    BY DEF IngestInv, ReturnInv, AcknowledgedOnce
<1> QED BY IngestInvariant, PTL

-----------------------------------------------------------------------------
(* Questions to the models                                                 *)

QuestionStep == {"asked", "context", "resolve", "probe", "choose", "call", "called", "retried",
                 "answered", "failed", "logged", "lost", "left", "refused"}
QuestionRecord == [step : QuestionStep, at : Places \cup {TheDefault},
                   model : Models \cup {AutoModel}, todo : SUBSET Models, aborted : BOOLEAN]
ChangeRecord == [step : {"asked", "loaded", "refused", "cleared", "done"},
                 wasDefault : BOOLEAN, cleared : SUBSET Places]
Reply == [model : Models \cup {AutoModel}, ok : BOOLEAN]

QueryTypes ==
    /\ saying \in [Models -> {"well", "mute", "down"}]
    /\ health \in [Models -> {"unknown", "healthy", "unhealthy"}]
    /\ registered \subseteq Places /\ serving \subseteq Places /\ preferred \subseteq Places
    /\ question \in [Questions -> QuestionRecord]
    /\ log \in [Questions -> Seq(Reply)] /\ tried \in [Questions -> Seq(Reply)]
    /\ change \in [Changes -> ChangeRecord]
    /\ crossed \in BOOLEAN

\* A question that has an endpoint, or a model, keeps it; it has asked nobody
\* until it is called back from a model, another one when it tries again, and
\* logs the model that spoke last.
QuestionInv(q) ==
    LET r == question[q]
        t == tried[q]
    IN /\ r.step \in {"context", "resolve", "probe", "choose", "call", "called", "retried",
                      "answered", "failed"} => r.at \in Places
       /\ r.step \in {"call", "called", "retried", "answered", "failed"} => r.model \in Models
       /\ r.step \in {"asked", "context", "resolve", "probe", "choose", "call", "called",
                      "refused"} => t = <<>>
       /\ r.step = "retried" =>
             \E m \in Models \ {r.model} : t = <<[model |-> m, ok |-> FALSE]>>
       /\ r.step \in {"answered", "failed"} =>
             t # <<>> /\ t[Len(t)] = [model |-> r.model, ok |-> r.step = "answered"]
       /\ \A i, j \in 1 .. Len(t) : t[i].model = t[j].model => i = j
       /\ log[q] # <<>> => r.step = "logged" /\ log[q] = <<t[Len(t)]>>

AskInv == \A q \in Questions : QuestionInv(q)

\* The default is taken from all endpoints there are before it is given to
\* one, if nobody else is between the two.
DefaultInv ==
    /\ preferred \subseteq registered
    /\ ~crossed =>
          /\ \A d, e \in preferred : d = e
          /\ \A c, d \in Changes : change[c].step = "cleared" /\ change[d].step = "cleared" => c = d
          /\ \A c \in Changes : change[c].step = "cleared" => preferred \subseteq change[c].cleared

QueryInv == QueryTypes /\ AskInv /\ DefaultInv

\* The questions begin so.
LEMMA QueryInit == ASSUME NEW who, InitQueries(who) PROVE QueryInv
<1> USE QueriesAssumption DEF InitQueries
<1>1. QueryTypes
    <2>1. NewQuestion \in QuestionRecord
        BY DEF NewQuestion, QuestionRecord, QuestionStep
    <2>2. <<>> \in Seq(Reply)
        OBVIOUS
    <2>3. [step |-> "asked", wasDefault |-> FALSE, cleared |-> {}] \in ChangeRecord
        BY DEF ChangeRecord
    <2> QED BY <2>1, <2>2, <2>3 DEF QueryTypes
<1>2. AskInv
    BY DEF AskInv, QuestionInv, NewQuestion
<1>3. DefaultInv
    BY DEF DefaultInv
<1> QED BY <1>1, <1>2, <1>3 DEF QueryInv

\* A question goes on to step s, with endpoint e and model m.
Becomes(q, s, e, m) ==
    /\ question' \in [Questions -> QuestionRecord]
    /\ question'[q].step = s /\ question'[q].at = e /\ question'[q].model = m

\* It goes on with the endpoint and the model it had ...
LEMMA GoesStep ==
    ASSUME QueryTypes, NEW q \in Questions, NEW s \in QuestionStep,
           Goes(q, [question[q] EXCEPT !.step = s])
    PROVE  Becomes(q, s, question[q].at, question[q].model)
<1> DEFINE r == [question[q] EXCEPT !.step = s]
<1>1. question[q] \in QuestionRecord /\ question \in [Questions -> QuestionRecord]
    BY DEF QueryTypes
<1>2. r \in QuestionRecord /\ r.step = s /\ r.at = question[q].at /\ r.model = question[q].model
    BY <1>1 DEF QuestionRecord
<1>3. Goes(q, r)
    OBVIOUS
<1> HIDE DEF r
<1> QED BY <1>1, <1>2, <1>3 DEF Goes, Becomes

\* ... or with another endpoint ...
LEMMA GoesAt ==
    ASSUME QueryTypes, NEW q \in Questions, NEW s \in QuestionStep, NEW e \in Places,
           Goes(q, [question[q] EXCEPT !.step = s, !.at = e])
    PROVE  Becomes(q, s, e, question[q].model)
<1> DEFINE r == [question[q] EXCEPT !.step = s, !.at = e]
<1>1. question[q] \in QuestionRecord /\ question \in [Questions -> QuestionRecord]
    BY DEF QueryTypes
<1>2. r \in QuestionRecord /\ r.step = s /\ r.at = e /\ r.model = question[q].model
    BY <1>1 DEF QuestionRecord
<1>3. Goes(q, r)
    OBVIOUS
<1> HIDE DEF r
<1> QED BY <1>1, <1>2, <1>3 DEF Goes, Becomes

\* ... or as one that was aborted, or not ...
LEMMA GoesAborted ==
    ASSUME QueryTypes, NEW q \in Questions, NEW s \in QuestionStep, NEW b \in BOOLEAN,
           Goes(q, [question[q] EXCEPT !.step = s, !.aborted = b])
    PROVE  Becomes(q, s, question[q].at, question[q].model)
<1> DEFINE r == [question[q] EXCEPT !.step = s, !.aborted = b]
<1>1. question[q] \in QuestionRecord /\ question \in [Questions -> QuestionRecord]
    BY DEF QueryTypes
<1>2. r \in QuestionRecord /\ r.step = s /\ r.at = question[q].at /\ r.model = question[q].model
    BY <1>1 DEF QuestionRecord
<1>3. Goes(q, r)
    OBVIOUS
<1> HIDE DEF r
<1> QED BY <1>1, <1>2, <1>3 DEF Goes, Becomes

\* ... or with another model ...
LEMMA GoesModel ==
    ASSUME QueryTypes, NEW q \in Questions, NEW s \in QuestionStep, NEW m \in Models,
           Goes(q, [question[q] EXCEPT !.step = s, !.model = m])
    PROVE  Becomes(q, s, question[q].at, m)
<1> DEFINE r == [question[q] EXCEPT !.step = s, !.model = m]
<1>1. question[q] \in QuestionRecord /\ question \in [Questions -> QuestionRecord]
    BY DEF QueryTypes
<1>2. r \in QuestionRecord /\ r.step = s /\ r.at = question[q].at /\ r.model = m
    BY <1>1 DEF QuestionRecord
<1>3. Goes(q, r)
    OBVIOUS
<1> HIDE DEF r
<1> QED BY <1>1, <1>2, <1>3 DEF Goes, Becomes

\* ... or with other models to try.
LEMMA GoesTodo ==
    ASSUME QueryTypes, NEW q \in Questions, NEW s \in QuestionStep, NEW M \in SUBSET Models,
           Goes(q, [question[q] EXCEPT !.step = s, !.todo = M])
    PROVE  Becomes(q, s, question[q].at, question[q].model)
<1> DEFINE r == [question[q] EXCEPT !.step = s, !.todo = M]
<1>1. question[q] \in QuestionRecord /\ question \in [Questions -> QuestionRecord]
    BY DEF QueryTypes
<1>2. r \in QuestionRecord /\ r.step = s /\ r.at = question[q].at /\ r.model = question[q].model
    BY <1>1 DEF QuestionRecord
<1>3. Goes(q, r)
    OBVIOUS
<1> HIDE DEF r
<1> QED BY <1>1, <1>2, <1>3 DEF Goes, Becomes

\* Each step of a question keeps what is known of it.
LEMMA AskStep ==
    ASSUME QueryTypes, AskInv, NEW q \in Questions, Ask(q)
    PROVE  QuestionInv(q)' /\ question' \in [Questions -> QuestionRecord]
<1> DEFINE old == question[q]
           Holds == QuestionInv(q)' /\ question' \in [Questions -> QuestionRecord]
<1>0. QuestionInv(q) /\ old \in QuestionRecord
    BY DEF AskInv, QueryTypes
\* A step before the call.
<1>1. ASSUME NEW s \in {"context", "resolve", "probe", "choose", "call", "called", "refused"},
             NEW e, NEW m, Becomes(q, s, e, m), UNCHANGED <<log, tried>>,
             old.step \in {"asked", "context", "resolve", "probe", "choose", "call"},
             s = "refused" \/ e \in Places,
             s \in {"call", "called"} => m \in Models
      PROVE  Holds
    BY <1>0, <1>1 DEF QuestionInv, Becomes
<1>2. CASE PickEndpoint(q)
    <2>1. \/ \E e \in Places : Goes(q, [old EXCEPT !.step = "context", !.at = e])
          \/ Goes(q, [old EXCEPT !.step = "refused"])
        BY <1>2 DEF PickEndpoint
    <2>2. \/ \E e \in Places : Becomes(q, "context", e, old.model)
          \/ Becomes(q, "refused", old.at, old.model)
        <3>1. ASSUME NEW e \in Places, Goes(q, [old EXCEPT !.step = "context", !.at = e])
              PROVE  Becomes(q, "context", e, old.model)
            BY <3>1, GoesAt DEF QuestionStep
        <3>2. CASE Goes(q, [old EXCEPT !.step = "refused"])
            BY <3>2, GoesStep DEF QuestionStep
        <3> QED BY <2>1, <3>1, <3>2
    <2>3. old.step = "asked" /\ UNCHANGED <<log, tried>>
        BY <1>2 DEF PickEndpoint
    <2> QED BY <1>1, <2>2, <2>3
<1>3. CASE BuildContext(q)
    <2>1. \E b \in BOOLEAN : Goes(q, [old EXCEPT !.step = "resolve", !.aborted = b])
        BY <1>3 DEF BuildContext
    <2>2. PICK b \in BOOLEAN : Goes(q, [old EXCEPT !.step = "resolve", !.aborted = b])
        BY <2>1
    <2>3. Becomes(q, "resolve", old.at, old.model)
        BY <2>2, GoesAborted DEF QuestionStep
    <2>4. old.step = "context" /\ UNCHANGED <<log, tried>>
        BY <1>3 DEF BuildContext
    <2> QED BY <1>0, <1>1, <2>3, <2>4 DEF QuestionInv
<1>4. CASE ResolveModel(q)
    <2> DEFINE m == ModelOf[old.at]
    <2>1. old.step = "resolve" /\ old.at \in Places /\ UNCHANGED <<log, tried>>
        BY <1>0, <1>4 DEF ResolveModel, QuestionInv
    <2>2. m \in Models \cup {AutoModel}
        BY <2>1, QueriesAssumption
    <2>3. \/ m # AutoModel /\ Goes(q, [old EXCEPT !.step = "call", !.model = m])
          \/ \E M \in {{}, Models} : Goes(q, [old EXCEPT !.step = "probe", !.todo = M])
          \/ Goes(q, [old EXCEPT !.step = "choose"])
        BY <1>4 DEF ResolveModel
    <2>4. CASE m # AutoModel /\ Goes(q, [old EXCEPT !.step = "call", !.model = m])
        <3>1. Becomes(q, "call", old.at, m) /\ m \in Models
            BY <2>2, <2>4, GoesModel DEF QuestionStep
        <3> QED BY <1>1, <2>1, <3>1
    <2>5. ASSUME NEW M \in {{}, Models}, Goes(q, [old EXCEPT !.step = "probe", !.todo = M])
          PROVE  Holds
        <3>1. Becomes(q, "probe", old.at, old.model)
            BY <2>5, GoesTodo DEF QuestionStep
        <3> QED BY <1>1, <2>1, <3>1
    <2>6. CASE Goes(q, [old EXCEPT !.step = "choose"])
        <3>1. Becomes(q, "choose", old.at, old.model)
            BY <2>6, GoesStep DEF QuestionStep
        <3> QED BY <1>1, <2>1, <3>1
    <2> QED BY <2>3, <2>4, <2>5, <2>6
<1>5. ASSUME NEW m \in Models, Probe(q, m) PROVE Holds
    <2> DEFINE r == [old EXCEPT !.todo = @ \ {m}]
    <2>1. old.step = "probe" /\ old.at \in Places /\ UNCHANGED <<log, tried>>
        BY <1>0, <1>5 DEF Probe, QuestionInv
    <2>2. r \in QuestionRecord /\ r.step = old.step /\ r.at = old.at /\ r.model = old.model
        BY <1>0 DEF QuestionRecord
    <2>3. Goes(q, r)
        BY <1>5 DEF Probe
    <2> HIDE DEF r
    <2>4. Becomes(q, "probe", old.at, old.model)
        BY <2>1, <2>2, <2>3 DEF Goes, Becomes, QueryTypes
    <2> QED BY <1>1, <2>1, <2>4
<1>6. CASE ChooseModel(q)
    <2>1. \/ \E m \in Healthy : Goes(q, [old EXCEPT !.step = "call", !.model = m])
          \/ Goes(q, [old EXCEPT !.step = "refused"])
        BY <1>6 DEF ChooseModel
    <2>2. old.step \in {"probe", "choose"} /\ old.at \in Places /\ UNCHANGED <<log, tried>>
        BY <1>0, <1>6 DEF ChooseModel, QuestionInv
    <2>3. ASSUME NEW m \in Healthy, Goes(q, [old EXCEPT !.step = "call", !.model = m])
          PROVE  Holds
        <3>1. Becomes(q, "call", old.at, m) /\ m \in Models
            BY <2>3, GoesModel DEF QuestionStep, Healthy
        <3> QED BY <1>1, <2>2, <3>1
    <2>4. CASE Goes(q, [old EXCEPT !.step = "refused"])
        <3>1. Becomes(q, "refused", old.at, old.model)
            BY <2>4, GoesStep DEF QuestionStep
        <3> QED BY <1>1, <2>2, <3>1
    <2> QED BY <2>1, <2>3, <2>4
<1>7. CASE Send(q)
    <2>1. Goes(q, [old EXCEPT !.step = "called"])
        BY <1>7 DEF Send
    <2>2. Becomes(q, "called", old.at, old.model)
        BY <2>1, GoesStep DEF QuestionStep
    <2>3. old.step = "call" /\ old.at \in Places /\ old.model \in Models /\ UNCHANGED <<log, tried>>
        BY <1>0, <1>7 DEF Send, QuestionInv
    <2> QED BY <1>1, <2>2, <2>3
<1>8. CASE Disconnect(q)
    <2>1. Goes(q, [old EXCEPT !.step = "left"])
        BY <1>8 DEF Disconnect
    <2>2. Becomes(q, "left", old.at, old.model)
        BY <2>1, GoesStep DEF QuestionStep
    <2>3. old.step \in {"called", "answered", "failed"} /\ UNCHANGED <<log, tried>>
        BY <1>8 DEF Disconnect
    <2> QED BY <1>0, <2>2, <2>3 DEF QuestionInv, Becomes
\* What is known of those who were asked, with the one who spoke last.
<1>9. ASSUME NEW ok \in BOOLEAN, old.step \in {"called", "retried"},
             tried' = [tried EXCEPT ![q] = Append(@, [model |-> old.model, ok |-> ok])]
      PROVE  LET t == tried'[q] IN
             /\ t # <<>> /\ t[Len(t)] = [model |-> old.model, ok |-> ok]
             /\ \A i, j \in 1 .. Len(t) : t[i].model = t[j].model => i = j
             /\ old.step = "called" => t = <<[model |-> old.model, ok |-> ok]>>
    <2>1. CASE tried[q] = <<>>
        BY <1>9, <2>1 DEF QueryTypes
    <2>2. ASSUME NEW m \in Models \ {old.model}, tried[q] = <<[model |-> m, ok |-> FALSE]>>,
                 old.step = "retried"
          PROVE  LET t == tried'[q] IN
                 /\ t # <<>> /\ t[Len(t)] = [model |-> old.model, ok |-> ok]
                 /\ \A i, j \in 1 .. Len(t) : t[i].model = t[j].model => i = j
        BY <1>9, <2>2 DEF QueryTypes
    <2> QED BY <1>0, <1>9, <2>1, <2>2 DEF QuestionInv
<1>10. CASE Answer(q)
    <2>1. /\ Goes(q, [old EXCEPT !.step = "answered"])
          /\ old.step \in {"called", "retried"} /\ log' = log
          /\ tried' = [tried EXCEPT ![q] = Append(@, [model |-> old.model, ok |-> TRUE])]
        BY <1>10 DEF Answer
    <2>2. Becomes(q, "answered", old.at, old.model)
        BY <2>1, GoesStep DEF QuestionStep
    <2> QED BY <1>0, <1>9, <2>1, <2>2 DEF QuestionInv, Becomes
<1>11. CASE Fail(q)
    <2>1. /\ \/ /\ old.step = "called" /\ ModelOf[old.at] = AutoModel /\ q \notin Streamed
                /\ \E m \in Others(q) : Goes(q, [old EXCEPT !.step = "retried", !.model = m])
             \/ Goes(q, [old EXCEPT !.step = "failed"])
          /\ old.step \in {"called", "retried"} /\ log' = log
          /\ tried' = [tried EXCEPT ![q] = Append(@, [model |-> old.model, ok |-> FALSE])]
        BY <1>11 DEF Fail
    <2>2. old.at \in Places /\ old.model \in Models
        BY <1>0, <2>1 DEF QuestionInv
    \* The model that was chosen has been forgotten.
    <2>3. ASSUME old.step = "called", ModelOf[old.at] = AutoModel, q \notin Streamed,
                 NEW m \in Others(q), Goes(q, [old EXCEPT !.step = "retried", !.model = m])
          PROVE  Holds
        <3>1. health'[old.model] = "unknown"
            BY <1>11, <2>2, <2>3 DEF Fail, AfterFailure, QueryTypes
        <3>2. m \in Models \ {old.model}
            BY <2>3, <3>1 DEF Others
        <3>3. Becomes(q, "retried", old.at, m)
            BY <2>3, <3>2, GoesModel DEF QuestionStep
        <3>4. tried'[q] = <<[model |-> old.model, ok |-> FALSE]>>
            BY <1>9, <2>1, <2>3
        <3> QED BY <1>0, <1>9, <2>1, <2>2, <3>2, <3>3, <3>4 DEF QuestionInv, Becomes
    <2>4. CASE Goes(q, [old EXCEPT !.step = "failed"])
        <3>1. Becomes(q, "failed", old.at, old.model)
            BY <2>4, GoesStep DEF QuestionStep
        <3> QED BY <1>0, <1>9, <2>1, <2>2, <3>1 DEF QuestionInv, Becomes
    <2> QED BY <2>1, <2>3, <2>4
<1>12. CASE WriteLog(q)
    <2>1. /\ old.step \in {"answered", "failed"} /\ tried' = tried
          /\ \/ /\ log' = [log EXCEPT ![q] =
                       Append(@, [model |-> old.model, ok |-> old.step = "answered"])]
                /\ Goes(q, [old EXCEPT !.step = "logged"])
             \/ log' = log /\ Goes(q, [old EXCEPT !.step = "lost"])
        BY <1>12 DEF WriteLog
    <2>2. log[q] = <<>> /\ tried[q][Len(tried[q])] = [model |-> old.model, ok |-> old.step = "answered"]
        BY <1>0, <2>1 DEF QuestionInv
    <2>3. CASE /\ log' = [log EXCEPT ![q] =
                    Append(@, [model |-> old.model, ok |-> old.step = "answered"])]
               /\ Goes(q, [old EXCEPT !.step = "logged"])
        <3>1. log'[q] = Append(log[q], tried[q][Len(tried[q])])
            BY <2>2, <2>3 DEF QueryTypes
        <3>2. log'[q] = <<tried[q][Len(tried[q])]>>
            BY <2>2, <3>1
        <3>3. Becomes(q, "logged", old.at, old.model)
            BY <2>3, GoesStep DEF QuestionStep
        <3> QED BY <1>0, <2>1, <3>2, <3>3 DEF QuestionInv, Becomes
    <2>4. CASE log' = log /\ Goes(q, [old EXCEPT !.step = "lost"])
        <3>1. Becomes(q, "lost", old.at, old.model)
            BY <2>4, GoesStep DEF QuestionStep
        <3> QED BY <1>0, <2>1, <2>2, <2>4, <3>1 DEF QuestionInv, Becomes
    <2> QED BY <2>1, <2>3, <2>4
<1> QED BY <1>2, <1>3, <1>4, <1>5, <1>6, <1>7, <1>8, <1>10, <1>11, <1>12 DEF Ask

\* And nothing else touches it.
LEMMA AskInvStep == QueryTypes /\ AskInv /\ [Queries]_queryVars => AskInv'
<1> SUFFICES ASSUME QueryTypes, AskInv, [Queries]_queryVars, NEW p \in Questions
             PROVE  QuestionInv(p)'
    BY DEF AskInv
<1>1. ASSUME question'[p] = question[p], tried'[p] = tried[p], log'[p] = log[p]
      PROVE  QuestionInv(p)'
    <2>1. QuestionInv(p)
        BY DEF AskInv
    <2> QED BY <1>1, <2>1 DEF QuestionInv
<1>2. ASSUME NEW q \in Questions \ {p}, Ask(q)
      PROVE  question'[p] = question[p] /\ tried'[p] = tried[p] /\ log'[p] = log[p]
    BY <1>2 DEF Ask, PickEndpoint, BuildContext, ResolveModel, Probe, ChooseModel, Send, Answer,
        Fail, WriteLog, Disconnect, Goes, QueryTypes
<1>3. (\E c \in Changes : LoadEndpoint(c) \/ ClearDefaults(c) \/ CommitChange(c))
         \/ (\E m \in Models : RefreshHealth(m) \/ Turn(m)) \/ UNCHANGED queryVars
            => UNCHANGED <<question, tried, log>>
    BY DEF LoadEndpoint, ClearDefaults, CommitChange, RefreshHealth, Turn, queryVars
<1> QED BY <1>1, <1>2, <1>3, AskStep DEF Queries

\* One more reply to a question.
LEMMA OneMoreReply ==
    ASSUME NEW f \in [Questions -> Seq(Reply)], NEW q \in Questions, NEW x \in Reply
    PROVE  [f EXCEPT ![q] = Append(@, x)] \in [Questions -> Seq(Reply)]
<1>1. Append(f[q], x) \in Seq(Reply)
    OBVIOUS
<1> QED BY <1>1

\* Type correctness.
LEMMA QueryTypesStep == QueryTypes /\ AskInv /\ [Queries]_queryVars => QueryTypes'
<1> SUFFICES ASSUME QueryTypes, AskInv, [Queries]_queryVars PROVE QueryTypes'
    OBVIOUS
<1>1. ASSUME NEW q \in Questions, Ask(q) PROVE QueryTypes'
    <2>1. question' \in [Questions -> QuestionRecord]
        BY <1>1, AskStep
    <2>2. UNCHANGED <<saying, registered, serving, preferred, change, crossed>>
        BY <1>1 DEF Ask, PickEndpoint, BuildContext, ResolveModel, Probe, ChooseModel, Send, Answer,
            Fail, WriteLog, Disconnect, askVars, endpointVars
    <2>3. health' \in [Models -> {"unknown", "healthy", "unhealthy"}]
        <3>1. CASE \E m \in Models : Probe(q, m)
            BY <3>1 DEF Probe, Probed, QueryTypes
        <3>2. CASE Fail(q)
            BY <3>2 DEF Fail, AfterFailure, QueryTypes
        <3>3. CASE UNCHANGED health
            BY <3>3 DEF QueryTypes
        <3> QED
            BY <1>1, <3>1, <3>2, <3>3 DEF Ask, PickEndpoint, BuildContext, ResolveModel, ChooseModel,
                Send, Answer, WriteLog, Disconnect
    <2>4. question[q].model \in Models \cup {AutoModel}
        BY DEF QueryTypes, QuestionRecord
    <2>5. log' \in [Questions -> Seq(Reply)] /\ tried' \in [Questions -> Seq(Reply)]
        <3> DEFINE reply(ok) == [model |-> question[q].model, ok |-> ok]
        <3>1. /\ \A ok \in BOOLEAN : reply(ok) \in Reply
              /\ log \in [Questions -> Seq(Reply)] /\ tried \in [Questions -> Seq(Reply)]
            BY <2>4 DEF Reply, QueryTypes
        <3>2. CASE Answer(q)
            <4>1. tried' = [tried EXCEPT ![q] = Append(@, reply(TRUE))] /\ log' = log
                BY <3>2 DEF Answer
            <4> QED BY <3>1, <4>1, OneMoreReply
        <3>3. CASE Fail(q)
            <4>1. tried' = [tried EXCEPT ![q] = Append(@, reply(FALSE))] /\ log' = log
                BY <3>3 DEF Fail
            <4> QED BY <3>1, <4>1, OneMoreReply
        <3>4. CASE WriteLog(q)
            <4>1. \/ log' = [log EXCEPT ![q] = Append(@, reply(question[q].step = "answered"))]
                  \/ log' = log
                BY <3>4 DEF WriteLog
            <4>2. tried' = tried
                BY <3>4 DEF WriteLog
            <4>3. ASSUME NEW ok \in BOOLEAN, log' = [log EXCEPT ![q] = Append(@, reply(ok))]
                  PROVE  log' \in [Questions -> Seq(Reply)]
                <5>1. reply(ok) \in Reply
                    BY <3>1
                <5> QED BY <3>1, <4>3, <5>1, OneMoreReply
            <4>4. (question[q].step = "answered") \in BOOLEAN
                OBVIOUS
            <4>5. log' \in [Questions -> Seq(Reply)]
                BY <3>1, <4>1, <4>3, <4>4
            <4> QED BY <3>1, <4>2, <4>5
        <3>5. CASE UNCHANGED <<log, tried>>
            BY <3>5 DEF QueryTypes
        <3> QED
            BY <1>1, <3>2, <3>3, <3>4, <3>5 DEF Ask, PickEndpoint, BuildContext, ResolveModel,
                Probe, ChooseModel, Send, Disconnect
    <2> QED BY <2>1, <2>2, <2>3, <2>5 DEF QueryTypes
<1>2. ASSUME NEW c \in Changes, LoadEndpoint(c) \/ ClearDefaults(c) PROVE QueryTypes'
    <2>1. change[c] \in ChangeRecord
        BY DEF QueryTypes
    <2>2. change' \in [Changes -> ChangeRecord]
        <3>1. CASE LoadEndpoint(c)
            <4> DEFINE e == ChangeTo[c].place
                       r == IF e \in registered
                            THEN [step |-> "loaded", wasDefault |-> e \in preferred, cleared |-> {}]
                            ELSE [change[c] EXCEPT !.step = "refused"]
            <4>1. r \in ChangeRecord
                BY <2>1 DEF ChangeRecord
            <4>2. change' = [change EXCEPT ![c] = r]
                BY <3>1 DEF LoadEndpoint
            <4> HIDE DEF r
            <4> QED BY <4>1, <4>2 DEF QueryTypes
        <3>2. CASE ClearDefaults(c)
            BY <2>1, <3>2 DEF ClearDefaults, Demoted, QueryTypes, ChangeRecord
        <3> QED BY <1>2, <3>1, <3>2
    <2>3. /\ UNCHANGED <<saying, health, registered, serving, preferred, question, log, tried>>
          /\ crossed' \in BOOLEAN
        BY <1>2 DEF LoadEndpoint, ClearDefaults, QueryTypes
    <2> QED BY <2>2, <2>3 DEF QueryTypes
<1>3. ASSUME NEW c \in Changes, CommitChange(c) PROVE QueryTypes'
    <2>1. change[c] \in ChangeRecord
        BY DEF QueryTypes
    <2>2. change' \in [Changes -> ChangeRecord]
        <3> DEFINE Ends(s) == [change[c] EXCEPT !.step = s]
        <3>1. Ends("done") \in ChangeRecord /\ Ends("refused") \in ChangeRecord
            BY <2>1 DEF ChangeRecord
        <3>2. \/ change' = [change EXCEPT ![c] = Ends("done")]
              \/ change' = [change EXCEPT ![c] = Ends("refused")]
            BY <1>3 DEF CommitChange
        <3> HIDE DEF Ends
        <3> QED BY <3>1, <3>2 DEF QueryTypes
    <2>3. registered' \subseteq Places /\ serving' \subseteq Places /\ preferred' \subseteq Places
        BY <1>3, QueriesAssumption DEF CommitChange, QueryTypes
    <2>4. UNCHANGED <<saying, health, question, log, tried, crossed>>
        BY <1>3 DEF CommitChange
    <2> QED BY <2>2, <2>3, <2>4 DEF QueryTypes
<1>4. ASSUME NEW m \in Models, RefreshHealth(m) \/ Turn(m) PROVE QueryTypes'
    BY <1>4 DEF RefreshHealth, Turn, Probed, QueryTypes, endpointVars
<1>5. CASE UNCHANGED queryVars
    BY <1>5 DEF QueryTypes, queryVars, endpointVars
<1> QED BY <1>1, <1>2, <1>3, <1>4, <1>5 DEF Queries

\* Who gives the default to an endpoint has taken it from all others.
LEMMA DefaultStep == QueryTypes /\ DefaultInv /\ [Queries]_queryVars => DefaultInv'
<1> SUFFICES ASSUME QueryTypes, DefaultInv, [Queries]_queryVars PROVE DefaultInv'
    OBVIOUS
<1> USE QueriesAssumption DEF QueryTypes, DefaultInv
<1>1. ASSUME NEW c \in Changes, LoadEndpoint(c) PROVE DefaultInv'
    BY <1>1 DEF LoadEndpoint, ChangeRecord
<1>2. ASSUME NEW c \in Changes, ClearDefaults(c) PROVE DefaultInv'
    BY <1>2 DEF ClearDefaults, Demoted, ChangeRecord
<1>3. ASSUME NEW c \in Changes, CommitChange(c) PROVE DefaultInv'
    <2> DEFINE e == ChangeTo[c].place
    <2>1. \A d \in Changes : change'[d].step = "cleared" =>
              d # c /\ change[d].step = "cleared" /\ change'[d].cleared = change[d].cleared
        BY <1>3 DEF CommitChange, ChangeRecord
    <2>2. \/ preferred' \subseteq preferred /\ preferred' \subseteq registered'
          \/ /\ change[c].step = "cleared" /\ registered' = registered \cup {e}
             /\ preferred' = (preferred \ change[c].cleared) \cup {e}
        BY <1>3 DEF CommitChange
    <2>3. crossed' = crossed
        BY <1>3 DEF CommitChange
    <2> QED BY <2>1, <2>2, <2>3
<1>4. (\E q \in Questions : Ask(q))
         \/ (\E m \in Models : RefreshHealth(m) \/ Turn(m)) \/ UNCHANGED queryVars
            => UNCHANGED <<registered, preferred, change, crossed>>
    BY DEF Ask, PickEndpoint, BuildContext, ResolveModel, Probe, ChooseModel, Send, Answer, Fail,
        WriteLog, Disconnect, RefreshHealth, Turn, queryVars, askVars, endpointVars
<1> QED BY <1>1, <1>2, <1>3, <1>4 DEF Queries

\* Every behaviour keeps the questions so.
LEMMA QueryInvariant == Spec => []QueryInv
<1>1. Init => QueryInv
    BY SeparateInit, QueryInit
<1>2. QueryInv /\ [Next]_vars => QueryInv'
    BY Separate, QueryTypesStep, AskInvStep, DefaultStep DEF QueryInv
<1> QED BY <1>1, <1>2, PTL DEF Spec

\* The log names the model that spoke last, and nobody is asked twice.
THEOREM LogNamesTheModel == Spec => []LogIsTrue
<1> QueryInv => LogIsTrue
    BY DEF QueryInv, AskInv, QuestionInv, LogIsTrue
<1> QED BY QueryInvariant, PTL

\* There is one default at most unless two changes of it overlapped.
THEOREM DefaultIsOne == Spec => []OneDefault
<1>1. ASSUME QueryInv, ~crossed PROVE Cardinality(preferred) <= 1
    <2>1. preferred = {} \/ \E e \in preferred : preferred = {e}
        BY <1>1 DEF QueryInv, DefaultInv
    <2> QED BY <2>1, FS_EmptySet, FS_Singleton
<1>2. QueryInv => OneDefault
    BY <1>1 DEF OneDefault
<1> QED BY <1>2, QueryInvariant, PTL
-----------------------------------------------------------------------------
(* The index                                                               *)

Chunk == [doc : Docs, hash : Hashes]
IndexRow == [doc : Docs, hash : Hashes, by : Indexers]
TaskStep == {"idle", "read", "plan", "delete", "lock", "commit", "sweep"}
TaskRecord == [step : TaskStep, offset : Nat, current : SUBSET Docs, insert : SUBSET Chunk,
               drop : SUBSET Docs, doomed : SUBSET IndexRow, locked : SUBSET IndexRow,
               after : {"idle", "read", "sweep"}]

IndexTypes ==
    /\ content \in [Docs -> Hashes \cup {Gone}]
    /\ rows \subseteq IndexRow
    /\ task \in [Indexers -> TaskRecord]
    /\ overlapped \in BOOLEAN

\* The rows that stand for what a task inserts.
Former(i) == {r \in rows : r.doc \in DocsOf(task[i].insert)}

\* A task has one text of a source, and it deletes what it replaces ...
TaskInv(i) ==
    LET t == task[i]
    IN /\ t.step # "idle" => i \in indexing
       /\ \A c, d \in t.insert : c.doc = d.doc => c = d
       /\ t.step = "delete" => DocsOf(t.insert) \subseteq t.drop

\* ... all of it, for nobody else inserts meanwhile, if they do not overlap.
TurnInv(i) ==
    LET t == task[i]
    IN /\ \A j \in Indexers \ {i} :
             t.step \in Writing /\ t.insert # {} /\ task[j].step \in Writing => task[j].insert = {}
       /\ t.step = "lock" => Former(i) \subseteq t.doomed
       /\ t.step = "commit" => Former(i) \subseteq t.locked

OneRow == \A r, s \in rows : r.doc = s.doc => r = s

IndexInv ==
    /\ IndexTypes
    /\ \A i \in Indexers : TaskInv(i)
    /\ ~overlapped => OneRow /\ \A i \in Indexers : TurnInv(i)

\* Where a step leaves the task that takes it.
Moves(i, r) ==
    /\ r \in TaskRecord
    /\ task'[i] = r /\ task' \in [Indexers -> TaskRecord]
    /\ \A j \in Indexers \ {i} : task'[j] = task[j]

\* It is left at the record it is given.
LEMMA MovesTo ==
    ASSUME IndexTypes, NEW i \in Indexers, NEW r \in TaskRecord, task' = [task EXCEPT ![i] = r]
    PROVE  Moves(i, r)
BY DEF IndexTypes, Moves

\* A task that is idle has nothing to insert or to delete.
LEMMA IdleTask ==
    Idle \in TaskRecord /\ Idle.step = "idle" /\ Idle.insert = {} /\ Idle.drop = {}
BY DEF Idle, TaskRecord, TaskStep

\* A page has one chunk for each source that is there.
LEMMA PageIsTyped ==
    ASSUME IndexTypes, NEW offset
    PROVE  /\ Page(offset) \subseteq Chunk
           /\ DocsOf(Page(offset)) \subseteq Docs
           /\ \A c, d \in Page(offset) : c.doc = d.doc => c = d
<1>1. ASSUME NEW d \in Present PROVE [doc |-> d, hash |-> content[d]] \in Chunk
    BY DEF Present, IndexTypes, Chunk
<1> DEFINE found == {e \in Present :
                       Cardinality({x \in Present : x < e}) \in offset .. offset + PageSize - 1}
<1>2. Page(offset) = {[doc |-> d, hash |-> content[d]] : d \in found}
    BY DEF Page
<1>3. found \subseteq Present
    OBVIOUS
<1> HIDE DEF found
<1>4. \A c \in Page(offset) : c \in Chunk /\ c.doc \in found /\ c.hash = content[c.doc]
    BY <1>1, <1>2, <1>3
<1>5. \A c, d \in Page(offset) : c.doc = d.doc => c = d
    BY <1>2
<1>6. found \subseteq Docs
    BY <1>3 DEF Present
<1> QED BY <1>4, <1>5, <1>6 DEF DocsOf

\* The index begins so.
LEMMA IndexInit == ASSUME NEW who, who \subseteq Indexers, InitIndex(who) PROVE IndexInv
<1>1. (CHOOSE h \in Hashes : TRUE) \in Hashes
    BY IndexAssumption
<1>2. IndexTypes
    BY <1>1, IdleTask DEF InitIndex, IndexTypes
<1>3. \A i \in Indexers : TaskInv(i) /\ TurnInv(i)
    BY IdleTask DEF InitIndex, TaskInv, TurnInv, Writing
<1>4. OneRow
    BY DEF InitIndex, OneRow
<1> QED BY <1>2, <1>3, <1>4 DEF IndexInv

\* What keeps the invariant of the tasks: one of them moves, to a task that
\* keeps it, while the rows stay.
LEMMA OneTaskMoves ==
    ASSUME IndexInv, NEW i \in Indexers, NEW r, Moves(i, r), UNCHANGED <<rows, indexing, content>>,
           overlapped' = overlapped,
           r.step # "idle" => i \in indexing,
           \A c, d \in r.insert : c.doc = d.doc => c = d,
           r.step = "delete" => DocsOf(r.insert) \subseteq r.drop,
           r.step \in Writing =>
               r.insert = {} \/ (task[i].step \in Writing /\ r.insert = task[i].insert),
           ~overlapped /\ r.step = "lock" =>
               {x \in rows : x.doc \in DocsOf(r.insert)} \subseteq r.doomed,
           ~overlapped /\ r.step = "commit" =>
               {x \in rows : x.doc \in DocsOf(r.insert)} \subseteq r.locked
    PROVE  IndexInv'
<1>1. IndexTypes'
    BY DEF IndexInv, IndexTypes, Moves
<1>2. ASSUME NEW j \in Indexers PROVE TaskInv(j)'
    BY <1>2 DEF IndexInv, TaskInv, Moves
<1>3. ASSUME ~overlapped PROVE \A j \in Indexers : TurnInv(j)'
    <2> SUFFICES ASSUME NEW j \in Indexers PROVE TurnInv(j)'
        OBVIOUS
    <2>0. \A k \in Indexers : TurnInv(k)
        BY <1>3 DEF IndexInv
    <2>1. task'[j].step = "lock" => Former(j)' \subseteq task'[j].doomed
        BY <1>3, <2>0 DEF TurnInv, Moves, Former
    <2>2. task'[j].step = "commit" => Former(j)' \subseteq task'[j].locked
        BY <1>3, <2>0 DEF TurnInv, Moves, Former
    <2>3. ASSUME NEW k \in Indexers \ {j}, task'[j].step \in Writing, task'[j].insert # {},
                 task'[k].step \in Writing
          PROVE  task'[k].insert = {}
        <3>1. CASE j = i
            BY <2>0, <2>3, <3>1 DEF TurnInv, Moves
        <3>2. CASE k = i
            BY <2>0, <2>3, <3>2 DEF TurnInv, Moves
        <3>3. CASE j # i /\ k # i
            BY <2>0, <2>3, <3>3 DEF TurnInv, Moves
        <3> QED BY <3>1, <3>2, <3>3
    <2> QED BY <2>1, <2>2, <2>3 DEF TurnInv
<1>4. OneRow' = OneRow
    BY DEF OneRow
<1> QED BY <1>1, <1>2, <1>3, <1>4 DEF IndexInv

\* Each step of a task keeps it.
LEMMA IndexStep == ASSUME IndexInv, NEW i \in Indexers, Reindex(i) PROVE IndexInv'
<1> DEFINE t == task[i]
<1>0. /\ t \in TaskRecord /\ TaskInv(i) /\ IndexTypes /\ task \in [Indexers -> TaskRecord]
      /\ ~overlapped => TurnInv(i) /\ OneRow
    BY DEF IndexInv, IndexTypes
<1>1. CASE BeginReindex(i)
    <2> DEFINE r == [Idle EXCEPT !.step = "read"]
    <2>1. r \in TaskRecord /\ r.step = "read" /\ r.insert = {}
        BY IdleTask DEF TaskRecord, TaskStep
    <2>2. task' = [task EXCEPT ![i] = r] /\ UNCHANGED <<rows, indexing, content, overlapped>>
          /\ i \in indexing
        BY <1>1 DEF BeginReindex
    <2> HIDE DEF r
    <2>3. Moves(i, r)
        BY <1>0, <2>1, <2>2, MovesTo
    <2> QED BY <2>1, <2>2, <2>3, OneTaskMoves DEF Writing
<1>2. CASE ReadPage(i)
    <2> DEFINE page == Page(t.offset)
               next == IF Cardinality(page) < PageSize THEN "sweep" ELSE "read"
               step == IF page = {} THEN "sweep" ELSE "plan"
               spared == Spared(i, page)
               later == t.offset + PageSize
               r == [t EXCEPT !.step = step, !.insert = page, !.current = spared,
                              !.offset = later, !.after = next]
    <2>1. /\ page \in SUBSET Chunk /\ spared \in SUBSET Docs
          /\ \A c, d \in page : c.doc = d.doc => c = d
        BY <1>0, PageIsTyped DEF Spared, TaskRecord
    <2>2. next \in {"sweep", "read"} /\ step \in {"sweep", "plan"} /\ later \in Nat
        BY <1>0, IndexAssumption DEF TaskRecord
    <2>3. task' = [task EXCEPT ![i] = r]
        BY <1>2 DEF ReadPage
    <2>9. t.step = "read" /\ UNCHANGED <<rows, indexing, content, overlapped>>
        BY <1>2 DEF ReadPage
    <2> HIDE DEF page, next, step, spared, later
    <2>4. r \in TaskRecord /\ r.step = step /\ r.insert = page
        BY <1>0, <2>1, <2>2 DEF TaskRecord, TaskStep
    <2> HIDE DEF r
    <2>5. Moves(i, r)
        BY <1>0, <2>3, <2>4, MovesTo
    <2>6. i \in indexing
        BY <1>0, <2>9 DEF TaskInv
    <2> QED BY <2>1, <2>2, <2>4, <2>5, <2>6, <2>9, OneTaskMoves DEF Writing
<1>3. CASE PlanUpsert(i)
    <2> DEFINE changed == {c \in t.insert : Stored(c.doc) # {c.hash}}
               step == IF changed = {} THEN t.after ELSE "delete"
               drop == Replaced(changed)
               r == [t EXCEPT !.step = step, !.insert = changed, !.drop = drop]
    <2>1. /\ changed \subseteq t.insert /\ drop = DocsOf(changed) /\ drop \subseteq Docs
          /\ step \in {"delete", "idle", "read", "sweep"} /\ (step = "delete" <=> changed # {})
        BY <1>0 DEF Replaced, DocsOf, TaskRecord, Chunk
    <2>2. /\ task' = [task EXCEPT ![i] = r] /\ UNCHANGED <<rows, indexing, content>>
          /\ t.step = "plan"
          /\ overlapped' = (overlapped \/ \E j \in indexing \ {i} : task[j].step \in Writing)
        BY <1>3 DEF PlanUpsert
    <2> HIDE DEF changed, step, drop
    <2>3. r \in TaskRecord /\ r.step = step /\ r.insert = changed /\ r.drop = drop
        BY <1>0, <2>1 DEF TaskRecord, TaskStep
    <2> HIDE DEF r
    <2>4. Moves(i, r)
        BY <1>0, <2>2, <2>3, MovesTo
    <2>5. IndexTypes'
        BY <1>0, <2>2, <2>4 DEF IndexTypes, Moves
    <2>6. \A j \in Indexers : TaskInv(j)'
        BY <1>0, <2>1, <2>2, <2>3, <2>4 DEF IndexInv, TaskInv, Moves
    <2>7. ASSUME ~overlapped' PROVE OneRow' /\ \A j \in Indexers : TurnInv(j)'
        <3>1. ~overlapped /\ \A j \in Indexers \ {i} : task[j].step \notin Writing
            BY <2>2, <2>7 DEF IndexInv, TaskInv, Writing
        <3>2. \A j \in Indexers : TurnInv(j)'
            BY <2>1, <2>3, <2>4, <3>1 DEF TurnInv, Moves, Writing
        <3>3. OneRow'
            BY <1>0, <2>2, <3>1 DEF OneRow
        <3> QED BY <3>2, <3>3
    <2> QED BY <2>5, <2>6, <2>7 DEF IndexInv
<1>4. CASE Delete(i)
    <2> DEFINE doomed == {x \in rows : x.doc \in t.drop}
               r == [t EXCEPT !.step = "lock", !.doomed = doomed]
    <2>1. task' = [task EXCEPT ![i] = r] /\ UNCHANGED <<rows, indexing, content, overlapped>>
          /\ t.step = "delete"
        BY <1>4 DEF Delete
    <2>2. doomed \in SUBSET IndexRow /\ Former(i) \subseteq doomed /\ i \in indexing
        BY <1>0, <2>1 DEF IndexTypes, TaskInv, Former
    <2> HIDE DEF doomed
    <2>3. r \in TaskRecord /\ r.step = "lock" /\ r.insert = t.insert /\ r.doomed = doomed
        BY <1>0, <2>2 DEF TaskRecord, TaskStep
    <2> HIDE DEF r
    <2>4. Moves(i, r)
        BY <1>0, <2>1, <2>3, MovesTo
    <2> QED BY <1>0, <2>1, <2>2, <2>3, <2>4, OneTaskMoves DEF Writing, TaskInv, Former
<1>5. CASE Lock(i)
    <2> DEFINE locked == t.doomed \cap rows
               r == [t EXCEPT !.step = "commit", !.doomed = {}, !.locked = locked]
    <2>1. task' = [task EXCEPT ![i] = r] /\ UNCHANGED <<rows, indexing, content, overlapped>>
          /\ t.step = "lock"
        BY <1>5 DEF Lock
    <2>2. /\ locked \in SUBSET IndexRow /\ i \in indexing
          /\ ~overlapped => Former(i) \subseteq locked
        BY <1>0, <2>1 DEF IndexTypes, TaskInv, TurnInv, Former
    <2> HIDE DEF locked
    <2>3. r \in TaskRecord /\ r.step = "commit" /\ r.insert = t.insert /\ r.locked = locked
        BY <1>0, <2>2 DEF TaskRecord, TaskStep
    <2> HIDE DEF r
    <2>4. Moves(i, r)
        BY <1>0, <2>1, <2>3, MovesTo
    <2> QED BY <1>0, <2>1, <2>2, <2>3, <2>4, OneTaskMoves DEF Writing, TaskInv, Former
<1>6. CASE Commit(i)
    <2> DEFINE new == {[doc |-> c.doc, hash |-> c.hash, by |-> i] : c \in t.insert}
               q == [t EXCEPT !.step = t.after, !.insert = {}, !.drop = {}, !.locked = {}]
               r == IF t.after = "idle" THEN Idle ELSE q
    <2>1. /\ task' = [task EXCEPT ![i] = r] /\ UNCHANGED <<indexing, content, overlapped>>
          /\ t.step = "commit" /\ rows' = (rows \ t.locked) \cup new
        BY <1>6 DEF Commit
    <2>2. /\ new \in SUBSET IndexRow /\ (t.insert = {} => new = {})
          /\ \A x \in new : x.doc \in DocsOf(t.insert)
          /\ \A x, y \in new : x.doc = y.doc => x = y
        <3>1. \A c \in t.insert : c \in Chunk
            BY <1>0 DEF TaskRecord
        <3>2. \A c \in t.insert : [doc |-> c.doc, hash |-> c.hash, by |-> i] \in IndexRow
            BY <3>1 DEF Chunk, IndexRow
        <3>3. \A x \in new : \E c \in t.insert : x = [doc |-> c.doc, hash |-> c.hash, by |-> i]
            OBVIOUS
        <3>4. \A c, d \in t.insert : c.doc = d.doc => c = d
            BY <1>0 DEF TaskInv
        <3>5. t.insert = {} => new = {}
            OBVIOUS
        <3> HIDE DEF new
        <3> QED BY <3>2, <3>3, <3>4, <3>5 DEF DocsOf
    <2> HIDE DEF new
    <2>3. q \in TaskRecord /\ q.step = t.after /\ q.insert = {} /\ t.after \in {"idle", "read", "sweep"}
        BY <1>0 DEF TaskRecord, TaskStep
    <2> HIDE DEF q
    <2>4. r \in TaskRecord /\ r.step \in {"idle", "read", "sweep"} /\ r.insert = {}
        BY <2>3, IdleTask
    <2> HIDE DEF r
    <2>5. Moves(i, r)
        BY <1>0, <2>1, <2>4, MovesTo
    <2>6. IndexTypes'
        BY <1>0, <2>1, <2>2, <2>5 DEF IndexTypes, Moves
    <2>7. \A j \in Indexers : TaskInv(j)'
        BY <1>0, <2>1, <2>4, <2>5 DEF IndexInv, TaskInv, Moves
    <2>8. ASSUME ~overlapped PROVE OneRow'
        <3>1. \A x \in rows \ t.locked : x.doc \notin DocsOf(t.insert)
            BY <1>0, <2>1, <2>8 DEF TurnInv, Former
        <3> QED BY <1>0, <2>1, <2>2, <2>8, <3>1 DEF OneRow
    \* Another task that inserts now knew all rows, and this one adds none.
    <2>9. ASSUME ~overlapped, NEW j \in Indexers PROVE TurnInv(j)'
        <3>1. CASE j = i
            BY <2>4, <2>5, <3>1 DEF TurnInv, Moves, Writing
        <3>2. CASE j # i
            <4>1. TurnInv(j)
                BY <2>9 DEF IndexInv
            <4>2. CASE task[j].insert = {}
                BY <2>5, <3>2, <4>2 DEF TurnInv, Moves, Former, DocsOf
            <4>3. CASE task[j].step \notin Writing
                BY <2>5, <3>2, <4>3 DEF TurnInv, Moves, Writing
            <4>4. CASE task[j].insert # {} /\ task[j].step \in Writing
                <5>1. new = {} /\ rows' \subseteq rows
                    BY <2>1, <2>2, <3>2, <4>1, <4>4 DEF TurnInv, Writing
                <5>2. task'[j] = task[j] /\ Former(j)' \subseteq Former(j)
                    BY <2>5, <3>2, <5>1 DEF Moves, Former
                <5>3. \A k \in Indexers \ {j} : task'[k].step \in Writing => task'[k].insert = {}
                    BY <2>4, <2>5, <3>2, <4>1, <4>4 DEF TurnInv, Moves, Writing
                <5> QED BY <4>1, <5>2, <5>3 DEF TurnInv
            <4> QED BY <4>2, <4>3, <4>4
        <3> QED BY <3>1, <3>2
    <2> QED BY <2>1, <2>6, <2>7, <2>8, <2>9 DEF IndexInv
<1>7. CASE Sweep(i)
    <2> DEFINE orphans == DocsOf(rows) \ t.current
               q == [t EXCEPT !.step = "delete", !.drop = orphans, !.insert = {}, !.after = "idle"]
               r == IF orphans = {} THEN Idle ELSE q
    <2>1. task' = [task EXCEPT ![i] = r] /\ UNCHANGED <<rows, indexing, content, overlapped>>
          /\ t.step = "sweep"
        BY <1>7 DEF Sweep
    <2>2. orphans \in SUBSET Docs
        BY <1>0 DEF IndexTypes, IndexRow, DocsOf
    <2> HIDE DEF orphans
    <2>3. q \in TaskRecord /\ q.step = "delete" /\ q.insert = {}
        BY <1>0, <2>2 DEF TaskRecord, TaskStep
    <2> HIDE DEF q
    <2>4. r \in TaskRecord /\ r.step \in {"idle", "delete"} /\ r.insert = {}
        BY <2>3, IdleTask
    <2> HIDE DEF r
    <2>5. Moves(i, r) /\ i \in indexing
        BY <1>0, <2>1, <2>4, MovesTo DEF TaskInv
    <2> QED BY <2>1, <2>4, <2>5, OneTaskMoves DEF DocsOf
<1> QED BY <1>1, <1>2, <1>3, <1>4, <1>5, <1>6, <1>7 DEF Reindex

\* Every behaviour keeps the index so.
LEMMA IndexInvariant == Spec => []IndexInv
<1>1. Init => IndexInv
    BY SeparateInit, IndexInit
<1>2. ASSUME IndexInv, [Index]_indexVars PROVE IndexInv'
    <2>1. ASSUME NEW i \in Indexers, Fails(i) PROVE IndexInv'
        <3>1. Moves(i, Idle)
            BY <1>2, <2>1, IdleTask, MovesTo DEF IndexInv, Fails
        <3> QED BY <1>2, <2>1, <3>1, IdleTask, OneTaskMoves DEF Fails, Writing
    <2>2. ASSUME NEW d \in Docs, Edit(d) PROVE IndexInv'
        <3>1. content' \in [Docs -> Hashes \cup {Gone}]
            BY <1>2, <2>2 DEF Edit, IndexInv, IndexTypes
        <3>2. UNCHANGED <<indexing, rows, task, overlapped>>
            BY <2>2 DEF Edit
        <3> QED BY <1>2, <3>1, <3>2 DEF IndexInv, IndexTypes, TaskInv, TurnInv, Former, OneRow
    <2>3. CASE UNCHANGED indexVars
        BY <1>2, <2>3 DEF indexVars, IndexInv, IndexTypes, TaskInv, TurnInv, Former, OneRow
    <2> QED BY <1>2, <2>1, <2>2, <2>3, IndexStep DEF Index
<1> QED BY <1>1, <1>2, Separate, PTL DEF Spec

\* A source has one row, if no task plans while another one writes.
THEOREM RowsAreReplaced == Spec => []OneRowSet
<1> IndexInv => OneRowSet
    BY DEF IndexInv, OneRow, OneRowSet
<1> QED BY IndexInvariant, PTL
-----------------------------------------------------------------------------
(* The library                                                             *)

RequestRecord == [step : {"asked", "fetch", "cloning", "pulling", "scan", "load", "enable", "disable",
                          "done"},
                  todo : SUBSET Sources, got : SUBSET Sources, at : Sources \cup {<<>>},
                  found : SUBSET Files, rows : SUBSET Entries]
DirRecord == [state : DirState, files : SUBSET Files]

LibraryTypes ==
    /\ origin \in [Sources -> SUBSET Files]
    /\ dir \in [Sources -> DirRecord]
    /\ catalog \in [Entries -> CatalogStatus]
    /\ req \in [Requests -> RequestRecord]
    /\ held \subseteq Entries /\ misread \subseteq Sources

\* What a source has had all the time is in its directory, if that is whole.
HeldInv ==
    \A e \in held :
        /\ e[2] \in origin[e[1]]
        /\ dir[e[1]].state = "complete" => e[2] \in dir[e[1]].files

\* What a sync has found of a source, and what it finds missing.
RequestInv(q) ==
    LET r == req[q]
    IN /\ r.step \in {"cloning", "pulling", "load"} => r.at \in Sources
       /\ r.step = "load" => \A e \in held : e[1] = r.at => e[1] \in misread \/ e[2] \in r.found
       /\ r.step \in {"scan", "load"} => \A e \in r.rows \cap held : e[1] \in misread

LibraryInv ==
    /\ LibraryTypes
    /\ HeldInv
    /\ \A q \in Requests : RequestInv(q)
    /\ AutoDisabledIsGone

\* One request moves on; nothing that was missing is forgotten.
LEMMA RequestMoves ==
    ASSUME LibraryInv, NEW q \in Requests, NEW r \in RequestRecord, RequestTo(q, r),
           UNCHANGED <<origin, held>>,
           dir' \in [Sources -> DirRecord], HeldInv',
           misread' \subseteq Sources, misread \subseteq misread',
           catalog' \in [Entries -> CatalogStatus],
           \A e \in held : catalog'[e] = "gone" => catalog[e] = "gone" \/ e[1] \in misread,
           r.step \in {"cloning", "pulling", "load"} => r.at \in Sources,
           r.step = "load" =>
               \A e \in held : e[1] = r.at => e[1] \in misread' \/ e[2] \in r.found,
           r.step \in {"scan", "load"} => \A e \in r.rows \cap held : e[1] \in misread'
    PROVE  LibraryInv'
<1>1. /\ req' \in [Requests -> RequestRecord] /\ req'[q] = r
      /\ \A p \in Requests \ {q} : req'[p] = req[p]
    BY DEF RequestTo, LibraryInv, LibraryTypes
<1>2. LibraryTypes'
    BY <1>1 DEF LibraryInv, LibraryTypes
<1>3. ASSUME NEW p \in Requests PROVE RequestInv(p)'
    <2>1. CASE p = q
        BY <1>1, <2>1 DEF RequestInv
    <2>2. CASE p # q
        BY <1>1, <2>2 DEF LibraryInv, RequestInv
    <2> QED BY <2>1, <2>2
<1>4. AutoDisabledIsGone'
    BY DEF LibraryInv, LibraryTypes, AutoDisabledIsGone, Rows
<1> QED BY <1>2, <1>3, <1>4 DEF LibraryInv

\* A request that was just asked has disabled nothing.
LEMMA AskedRequest ==
    Asked \in RequestRecord /\ Asked.step = "asked" /\ Asked.rows = {}
BY DEF Asked, RequestRecord

\* The library begins so.
LEMMA LibraryInit == ASSUME NEW who, InitLibrary(who) PROVE LibraryInv
<1>1. (CHOOSE f \in Files : TRUE) \in Files
    BY LibraryAssumption
<1>2. origin \in [Sources -> SUBSET Files]
    BY <1>1 DEF InitLibrary
<1>3. dir \in [Sources -> DirRecord] /\ \A s \in Sources : dir[s].files = origin[s]
    BY <1>2 DEF InitLibrary, DirRecord, DirState
<1>4. catalog \in [Entries -> {"enabled", "none"}]
    BY DEF InitLibrary
<1>5. req \in [Requests -> RequestRecord] /\ \A q \in Requests : req[q].step = "asked"
    BY AskedRequest DEF InitLibrary
<1>6. held \subseteq Entries /\ misread = {} /\ \A e \in held : e[2] \in origin[e[1]]
    BY DEF InitLibrary
<1>7. LibraryTypes
    BY <1>2, <1>3, <1>4, <1>5, <1>6 DEF LibraryTypes, CatalogStatus
<1>8. HeldInv
    BY <1>3, <1>6 DEF HeldInv, Entries
<1>9. \A q \in Requests : RequestInv(q)
    BY <1>5 DEF RequestInv
<1>10. AutoDisabledIsGone
    BY <1>4 DEF AutoDisabledIsGone, Rows
<1> QED BY <1>7, <1>8, <1>9, <1>10 DEF LibraryInv

\* Each step of a request keeps it.
LEMMA CurateStep == ASSUME LibraryInv, NEW q \in Requests, Curate(q) PROVE LibraryInv'
<1> DEFINE old == req[q]
<1>0. /\ old \in RequestRecord /\ RequestInv(q) /\ LibraryTypes /\ HeldInv
      /\ dir \in [Sources -> DirRecord] /\ catalog \in [Entries -> CatalogStatus]
      /\ misread \subseteq Sources
    BY DEF LibraryInv, LibraryTypes
\* Steps that change no directory, no entry, and nothing of what was found.
<1>1. ASSUME NEW r \in RequestRecord, RequestTo(q, r), UNCHANGED <<worldVars, dir, catalog, misread>>,
             r.step \in {"cloning", "pulling"} => r.at \in Sources, r.step # "load",
             r.step = "scan" => \A e \in r.rows \cap held : e[1] \in misread
      PROVE  LibraryInv'
    <2>1. UNCHANGED <<origin, held, dir, catalog, misread>>
        BY <1>1 DEF worldVars
    <2>2. HeldInv'
        BY <1>0, <2>1 DEF HeldInv
    <2> QED BY <1>0, <1>1, <2>1, <2>2, RequestMoves
<1>2. CASE BeginFetch(q)
    <2> DEFINE todo == IF q \in Syncs THEN Gits ELSE Sources
               r == [Asked EXCEPT !.step = "fetch", !.todo = todo]
    <2>1. todo \in SUBSET Sources
        BY DEF Gits
    <2>2. RequestTo(q, r) /\ UNCHANGED <<worldVars, dir, catalog, misread>>
        BY <1>2 DEF BeginFetch
    <2> HIDE DEF todo
    <2>3. r \in RequestRecord /\ r.step = "fetch"
        BY <2>1, AskedRequest DEF RequestRecord
    <2> HIDE DEF r
    <2> QED BY <1>1, <2>2, <2>3
<1>3. ASSUME NEW s \in Sources, CloneBegins(q, s) PROVE LibraryInv'
    <2> DEFINE d == [state |-> "cloning", files |-> {}]
               r == [old EXCEPT !.step = "cloning", !.at = s]
    <2>1. /\ RequestTo(q, r) /\ UNCHANGED <<worldVars, catalog, misread>>
          /\ dir' = [dir EXCEPT ![s] = d]
        BY <1>3 DEF CloneBegins
    <2>2. d \in DirRecord /\ d.state = "cloning"
        BY DEF DirRecord, DirState
    <2>3. r \in RequestRecord /\ r.step = "cloning" /\ r.at = s
        BY <1>0 DEF RequestRecord
    <2> HIDE DEF d, r
    <2>4. UNCHANGED <<origin, held, catalog, misread>>
        BY <2>1 DEF worldVars
    <2>5. dir' \in [Sources -> DirRecord] /\ HeldInv'
        BY <1>0, <2>1, <2>2, <2>4 DEF HeldInv, LibraryTypes, Entries
    <2> QED BY <1>0, <2>1, <2>3, <2>4, <2>5, RequestMoves
<1>4. CASE CloneEnds(q)
    <2> DEFINE s == old.at
    <2>1. s \in Sources /\ UNCHANGED <<worldVars, catalog, misread>>
        BY <1>0, <1>4 DEF CloneEnds, RequestInv
    <2> DEFINE Ends(state, files, todo) ==
                   /\ dir' = [dir EXCEPT ![s] = [state |-> state, files |-> files]]
                   /\ RequestTo(q, [old EXCEPT !.step = "fetch", !.todo = todo])
    <2>2. \/ Ends("complete", origin[s], old.todo)
          \/ Ends("absent", {}, old.todo \ {s})
          \/ Ends("broken", {}, old.todo \ {s})
        BY <1>4 DEF CloneEnds
    <2>3. ASSUME NEW state \in DirState, NEW files \in SUBSET Files, NEW todo \in SUBSET old.todo,
                 Ends(state, files, todo), state = "complete" => files = origin[s]
          PROVE  LibraryInv'
        <3> DEFINE d == [state |-> state, files |-> files]
                   r == [old EXCEPT !.step = "fetch", !.todo = todo]
        <3>1. r \in RequestRecord /\ r.step = "fetch"
            BY <1>0 DEF RequestRecord
        <3>2. d \in DirRecord /\ d.state = state /\ d.files = files
            BY DEF DirRecord
        <3>3. RequestTo(q, r) /\ dir' = [dir EXCEPT ![s] = d]
            BY <2>3
        <3> HIDE DEF d, r
        <3>4. UNCHANGED <<origin, held, catalog, misread>>
            BY <2>1 DEF worldVars
        <3>5. dir' \in [Sources -> DirRecord] /\ HeldInv'
            BY <1>0, <2>1, <2>3, <3>2, <3>3, <3>4 DEF HeldInv, LibraryTypes, Entries
        <3> QED BY <1>0, <3>1, <3>3, <3>4, <3>5, RequestMoves
    <2>4. origin[s] \in SUBSET Files /\ old.todo \ {s} \in SUBSET old.todo
        BY <1>0, <2>1 DEF LibraryTypes
    <2> HIDE DEF Ends
    <2> QED BY <2>2, <2>3, <2>4 DEF DirState
<1>5. ASSUME NEW s \in Sources, Skip(q, s) PROVE LibraryInv'
    <2> DEFINE r == [old EXCEPT !.todo = @ \ {s}]
    <2>1. RequestTo(q, r) /\ old.step = "fetch" /\ UNCHANGED <<worldVars, dir, catalog, misread>>
        BY <1>5 DEF Skip
    <2>2. r \in RequestRecord /\ r.step = old.step
        BY <1>0 DEF RequestRecord
    <2> HIDE DEF r
    <2> QED BY <1>1, <2>1, <2>2
<1>6. ASSUME NEW s \in Sources, Take(q, s) PROVE LibraryInv'
    <2> DEFINE r == [old EXCEPT !.todo = @ \ {s}, !.got = @ \cup {s}]
    <2>1. RequestTo(q, r) /\ old.step = "fetch" /\ UNCHANGED <<worldVars, dir, catalog, misread>>
        BY <1>6 DEF Take
    <2>2. r \in RequestRecord /\ r.step = old.step
        BY <1>0 DEF RequestRecord
    <2> HIDE DEF r
    <2> QED BY <1>1, <2>1, <2>2
<1>7. CASE BeginScan(q)
    <2> DEFINE r == [Asked EXCEPT !.step = "scan", !.todo = Sources]
    <2>1. RequestTo(q, r) /\ UNCHANGED <<worldVars, dir, catalog, misread>>
        BY <1>7 DEF BeginScan
    <2>2. r \in RequestRecord /\ r.step = "scan" /\ r.rows = {}
        BY AskedRequest DEF RequestRecord
    <2> HIDE DEF r
    <2> QED BY <1>1, <2>1, <2>2
\* What is missing of a directory that is whole was not there all the time.
<1>8. ASSUME NEW s \in Sources, Scan(q, s) PROVE LibraryInv'
    <2> DEFINE rest == [old EXCEPT !.todo = @ \ {s}]
    <2>1. rest \in RequestRecord /\ rest.step = old.step /\ rest.rows = old.rows
        BY <1>0 DEF RequestRecord
    <2>2. /\ old.step = "scan" /\ UNCHANGED <<worldVars, dir, catalog>>
          /\ \/ RequestTo(q, rest) /\ UNCHANGED misread
             \/ \E d \in Scanned(s) :
                   /\ RequestTo(q, [rest EXCEPT !.step = "load", !.at = s, !.found = dir[d].files])
                   /\ misread' = misread \cup {x \in {s} : dir[d].state # "complete"}
        BY <1>8 DEF Scan
    <2>3. \A e \in old.rows \cap held : e[1] \in misread
        BY <1>0, <2>2 DEF RequestInv
    <2> HIDE DEF rest
    <2>4. CASE RequestTo(q, rest) /\ UNCHANGED misread
        BY <1>1, <2>1, <2>2, <2>3, <2>4
    <2>5. ASSUME NEW d \in Scanned(s),
                 RequestTo(q, [rest EXCEPT !.step = "load", !.at = s, !.found = dir[d].files]),
                 misread' = misread \cup {x \in {s} : dir[d].state # "complete"}
          PROVE  LibraryInv'
        <3> DEFINE r == [rest EXCEPT !.step = "load", !.at = s, !.found = dir[s].files]
        <3>1. d = s
            BY <2>5 DEF Scanned
        <3>2. /\ r \in RequestRecord /\ r.step = "load" /\ r.at = s
              /\ r.found = dir[s].files /\ r.rows = old.rows
            BY <1>0, <2>1 DEF RequestRecord, LibraryTypes, DirRecord
        <3>3. RequestTo(q, r)
            BY <2>5, <3>1
        <3> HIDE DEF r
        <3>4. UNCHANGED <<origin, held, dir, catalog>> /\ HeldInv'
            BY <1>0, <2>2 DEF worldVars, HeldInv
        <3>5. misread \subseteq misread' /\ misread' \subseteq Sources
            BY <1>0, <2>5
        <3>6. \A e \in held : e[1] = s => e[1] \in misread' \/ e[2] \in dir[s].files
            BY <1>0, <2>5, <3>1 DEF HeldInv
        <3> QED BY <1>0, <2>3, <3>2, <3>3, <3>4, <3>5, <3>6, RequestMoves
    <2> QED BY <2>2, <2>4, <2>5
<1>9. CASE LoadEnabled(q)
    <2> DEFINE missing == {e \in Rows("enabled") : e[1] = old.at /\ e[2] \notin old.found}
               r == [old EXCEPT !.step = "scan", !.rows = @ \cup missing]
    <2>1. /\ RequestTo(q, r) /\ old.step = "load" /\ UNCHANGED <<worldVars, dir, catalog, misread>>
        BY <1>9 DEF LoadEnabled
    <2>2. missing \subseteq Entries /\ \A e \in missing \cap held : e[1] \in misread
        BY <1>0, <2>1 DEF RequestInv, Rows
    <2> HIDE DEF missing
    <2>3. r \in RequestRecord /\ r.step = "scan" /\ r.rows = old.rows \cup missing
        BY <1>0, <2>2 DEF RequestRecord
    <2> HIDE DEF r
    <2>4. \A e \in old.rows \cap held : e[1] \in misread
        BY <1>0, <2>1 DEF RequestInv
    <2> QED BY <1>1, <2>1, <2>2, <2>3, <2>4
<1>10. CASE DisableMissing(q)
    <2> DEFINE r == [Asked EXCEPT !.step = "done"]
    <2>1. /\ RequestTo(q, r) /\ old.step = "scan" /\ UNCHANGED <<worldVars, dir, misread>>
          /\ catalog' = [e \in Entries |-> IF e \in old.rows THEN "gone" ELSE catalog[e]]
        BY <1>10 DEF DisableMissing
    <2>2. r \in RequestRecord /\ r.step = "done"
        BY AskedRequest DEF RequestRecord
    <2> HIDE DEF r
    <2>3. UNCHANGED <<origin, held, dir, misread>> /\ HeldInv'
        BY <1>0, <2>1 DEF worldVars, HeldInv
    <2>4. /\ catalog' \in [Entries -> CatalogStatus]
          /\ \A e \in held : catalog'[e] = "gone" => catalog[e] = "gone" \/ e[1] \in misread
        BY <1>0, <2>1 DEF RequestInv, LibraryTypes, CatalogStatus
    <2> QED BY <1>0, <2>1, <2>2, <2>3, <2>4, RequestMoves
<1>11. CASE Discover(q)
    <2> DEFINE shown == {e \in Shown(q) : e[1] = Wanted[q]}
               r == [old EXCEPT !.step = "enable", !.rows = shown]
    <2>1. RequestTo(q, r) /\ UNCHANGED <<worldVars, dir, catalog, misread>>
        BY <1>11 DEF Discover
    <2>2. shown \in SUBSET Entries
        BY DEF Shown
    <2> HIDE DEF shown
    <2>3. r \in RequestRecord /\ r.step = "enable"
        BY <1>0, <2>2 DEF RequestRecord
    <2> HIDE DEF r
    <2> QED BY <1>1, <2>1, <2>3
<1>12. CASE Show(q)
    <2>1. PICK e \in Entries : RequestTo(q, [Asked EXCEPT !.step = "enable", !.rows = {e}])
        BY <1>12 DEF Show, Shown
    <2> DEFINE r == [Asked EXCEPT !.step = "enable", !.rows = {e}]
    <2>2. r \in RequestRecord /\ r.step = "enable"
        BY AskedRequest DEF RequestRecord
    <2>3. RequestTo(q, r) /\ UNCHANGED <<worldVars, dir, catalog, misread>>
        BY <1>12, <2>1 DEF Show
    <2> HIDE DEF r
    <2> QED BY <1>1, <2>2, <2>3
<1>13. CASE EnableRows(q) \/ DisableRow(q)
    <2> DEFINE r == [Asked EXCEPT !.step = "done"]
    <2>1. /\ RequestTo(q, r) /\ UNCHANGED <<worldVars, dir, misread>>
          /\ \/ catalog' = [e \in Entries |-> IF e \in old.rows THEN "enabled" ELSE catalog[e]]
             \/ catalog' = [e \in Entries |->
                              IF e \in old.rows /\ catalog[e] # "gone" THEN "disabled" ELSE catalog[e]]
        BY <1>13 DEF EnableRows, DisableRow
    <2>2. r \in RequestRecord /\ r.step = "done"
        BY AskedRequest DEF RequestRecord
    <2> HIDE DEF r
    <2>3. UNCHANGED <<origin, held, dir, misread>> /\ HeldInv'
        BY <1>0, <2>1 DEF worldVars, HeldInv
    <2>4. /\ catalog' \in [Entries -> CatalogStatus]
          /\ \A e \in held : catalog'[e] = "gone" => catalog[e] = "gone"
        BY <1>0, <2>1 DEF LibraryTypes, CatalogStatus
    <2> QED BY <1>0, <2>1, <2>2, <2>3, <2>4, RequestMoves
<1>14. CASE LoadRow(q)
    <2>1. PICK e \in Entries : RequestTo(q, [Asked EXCEPT !.step = "disable", !.rows = {e}])
        BY <1>14 DEF LoadRow, Rows
    <2> DEFINE r == [Asked EXCEPT !.step = "disable", !.rows = {e}]
    <2>2. r \in RequestRecord /\ r.step = "disable"
        BY AskedRequest DEF RequestRecord
    <2>3. RequestTo(q, r) /\ UNCHANGED <<worldVars, dir, catalog, misread>>
        BY <1>14, <2>1 DEF LoadRow
    <2> HIDE DEF r
    <2> QED BY <1>1, <2>2, <2>3
<1>15. ASSUME NEW s \in Sources, PullBegins(q, s) PROVE LibraryInv'
    <2> DEFINE d == [state |-> "pulling", files |-> {}]
               r == [old EXCEPT !.step = "pulling", !.at = s]
    <2>1. /\ RequestTo(q, r) /\ UNCHANGED <<worldVars, catalog, misread>>
          /\ dir' = [dir EXCEPT ![s] = d]
        BY <1>15 DEF PullBegins
    <2>2. d \in DirRecord /\ d.state = "pulling"
        BY DEF DirRecord, DirState
    <2>3. r \in RequestRecord /\ r.step = "pulling" /\ r.at = s
        BY <1>0 DEF RequestRecord
    <2> HIDE DEF d, r
    <2>4. UNCHANGED <<origin, held, catalog, misread>>
        BY <2>1 DEF worldVars
    <2>5. dir' \in [Sources -> DirRecord] /\ HeldInv'
        BY <1>0, <2>1, <2>2, <2>4 DEF HeldInv, LibraryTypes, Entries
    <2> QED BY <1>0, <2>1, <2>3, <2>4, <2>5, RequestMoves
<1>16. CASE PullEnds(q)
    <2> DEFINE s == old.at
               r == [old EXCEPT !.step = "fetch", !.todo = @ \ {s}, !.got = @ \cup {s}]
    <2>1. s \in Sources /\ RequestTo(q, r) /\ UNCHANGED <<worldVars, catalog, misread>>
        BY <1>0, <1>16 DEF PullEnds, RequestInv
    <2>2. PICK d : /\ d \in {[state |-> "complete", files |-> origin[s]],
                             [state |-> "broken", files |-> {}]}
                   /\ dir' = [dir EXCEPT ![s] = d]
        BY <1>16 DEF PullEnds
    <2>3. d \in DirRecord /\ (d.state = "complete" => d.files = origin[s])
        BY <1>0, <2>1, <2>2 DEF DirRecord, DirState, LibraryTypes
    <2>4. r \in RequestRecord /\ r.step = "fetch"
        BY <1>0, <2>1 DEF RequestRecord
    <2> HIDE DEF r
    <2>5. UNCHANGED <<origin, held, catalog, misread>>
        BY <2>1 DEF worldVars
    <2>6. dir' \in [Sources -> DirRecord] /\ HeldInv'
        BY <1>0, <2>1, <2>2, <2>3, <2>5 DEF HeldInv, LibraryTypes, Entries
    <2> QED BY <1>0, <2>1, <2>4, <2>5, <2>6, RequestMoves
<1> QED
    BY <1>2, <1>3, <1>4, <1>5, <1>6, <1>7, <1>8, <1>9, <1>10, <1>11, <1>12, <1>13, <1>14,
        <1>15, <1>16
    DEF Curate, Fetch

\* The world leaves the requests alone: what a source lost is no longer held,
\* and a directory that is whole again has what the source has.
LEMMA WorldStep ==
    ASSUME LibraryInv, NEW s \in Sources, Revise(s) \/ Mount(s) \/ LoseClone(s)
    PROVE  LibraryInv'
<1>0. LibraryTypes /\ HeldInv
    BY DEF LibraryInv
<1>1. UNCHANGED <<catalog, req, misread>> /\ held' \subseteq held
    BY DEF Revise, Mount, LoseClone
<1>2. origin' \in [Sources -> SUBSET Files] /\ \A e \in held' : e[2] \in origin'[e[1]]
    <2>1. CASE Revise(s)
        <3>1. PICK f \in Files :
                  /\ origin' = [origin EXCEPT ![s] = IF f \in @ THEN @ \ {f} ELSE @ \cup {f}]
                  /\ held' = held \ {<<s, f>>}
            BY <2>1 DEF Revise
        <3>2. \A e \in held : e = <<e[1], e[2]>>
            BY <1>0 DEF LibraryTypes, Entries
        <3> QED BY <1>0, <3>1, <3>2 DEF LibraryTypes, HeldInv, Entries
    <2>2. CASE UNCHANGED <<origin, held>>
        BY <1>0, <2>2 DEF LibraryTypes, HeldInv
    <2> QED BY <2>1, <2>2 DEF Mount, LoseClone
<1>3. /\ dir' \in [Sources -> DirRecord]
      /\ \A t \in Sources : \/ dir'[t] = dir[t] \/ dir'[t].state # "complete"
                            \/ dir'[t].files = origin'[t]
    <2>1. CASE Revise(s)
        <3> DEFINE d == [dir[s] EXCEPT !.files = origin'[s]]
        <3>1. d \in DirRecord /\ d.files = origin'[s]
            BY <1>0, <1>2 DEF LibraryTypes, DirRecord
        <3>2. dir' = [dir EXCEPT ![s] = d] \/ dir' = dir
            BY <2>1 DEF Revise
        <3> HIDE DEF d
        <3> QED BY <1>0, <3>1, <3>2 DEF LibraryTypes
    <2>2. CASE Mount(s)
        <3>1. PICK state \in DirState :
                  dir' = [dir EXCEPT ![s] =
                            [state |-> state, files |-> IF state = "complete" THEN origin[s] ELSE {}]]
            BY <2>2 DEF Mount, DirState
        <3> DEFINE d == [state |-> state, files |-> IF state = "complete" THEN origin[s] ELSE {}]
        <3>2. d \in DirRecord /\ (d.state = "complete" => d.files = origin[s])
            BY <1>0 DEF LibraryTypes, DirRecord
        <3>3. dir' = [dir EXCEPT ![s] = d] /\ origin' = origin
            BY <2>2, <3>1 DEF Mount
        <3> HIDE DEF d
        <3> QED BY <1>0, <3>2, <3>3 DEF LibraryTypes
    <2>3. CASE LoseClone(s)
        <3> DEFINE d == [state |-> "absent", files |-> {}]
        <3>1. d \in DirRecord /\ d.state = "absent"
            BY DEF DirRecord, DirState
        <3>2. dir' = [dir EXCEPT ![s] = d]
            BY <2>3 DEF LoseClone
        <3> HIDE DEF d
        <3> QED BY <1>0, <3>1, <3>2 DEF LibraryTypes
    <2> QED BY <2>1, <2>2, <2>3
<1>4. LibraryTypes'
    BY <1>0, <1>1, <1>2, <1>3 DEF LibraryTypes
<1>5. HeldInv'
    BY <1>0, <1>1, <1>2, <1>3 DEF HeldInv, LibraryTypes, Entries
<1>6. \A q \in Requests : RequestInv(q)'
    BY <1>1 DEF LibraryInv, RequestInv
<1>7. AutoDisabledIsGone'
    BY <1>1 DEF LibraryInv, AutoDisabledIsGone, Rows
<1> QED BY <1>4, <1>5, <1>6, <1>7 DEF LibraryInv

\* Every behaviour keeps the library so.
LEMMA LibraryInvariant == Spec => []LibraryInv
<1>1. Init => LibraryInv
    BY SeparateInit, LibraryInit
<1>2. ASSUME LibraryInv, [Library]_libraryVars PROVE LibraryInv'
    <2>1. CASE UNCHANGED libraryVars
        BY <1>2, <2>1 DEF libraryVars, LibraryInv, LibraryTypes, HeldInv, RequestInv,
            AutoDisabledIsGone, Rows
    <2> QED BY <1>2, <2>1, CurateStep, WorldStep DEF Library
<1> QED BY <1>1, <1>2, Separate, PTL DEF Spec

\* A sync disables nothing that its source has had all the time, whichever
\* requests meet.
THEOREM DisabledIsGone == Spec => []AutoDisabledIsGone
<1> LibraryInv => AutoDisabledIsGone
    BY DEF LibraryInv
<1> QED BY LibraryInvariant, PTL
-----------------------------------------------------------------------------
(* Consoles                                                                *)

ConsoleTypes ==
    /\ at \in [Sessions -> ShellStep \cup ScreenStep]
    /\ conn \in [Shells -> Shells \cup {None}]
    /\ cache \subseteq Shells /\ IsFiniteSet(cache)

\* Who connects holds the lock, has made room, and has found no connection
\* that it could use.
ConnectInv ==
    \A s \in Shells : at[s] = "connecting" =>
        /\ lock = s
        /\ Cardinality(cache) < MaxCached
        /\ \A c \in cache : CacheKey(c) # CacheKey(s)

ConsoleInv == ConsoleTypes /\ ConnectInv /\ ConnectionsAreKept

\* Connections with the same key were made with the same credential.
LEMMA KeyHasCredential ==
    ASSUME NEW c, NEW s, CacheKey(c) = CacheKey(s)
    PROVE  Credential[c] = Credential[s]
<1>1. CacheKey(c)[1] = Credential[c] /\ CacheKey(s)[1] = Credential[s]
    BY DEF CacheKey
<1> QED BY <1>1

\* The connections that are not closed for being idle are no more than before.
LEMMA RemainingFits ==
    ASSUME ConsoleInv
    PROVE  /\ Remaining \subseteq cache /\ IsFiniteSet(Remaining)
           /\ Cardinality(Remaining) \in Nat /\ Cardinality(Remaining) <= MaxCached
<1>1. Remaining \subseteq cache
    BY DEF Remaining
<1>2. IsFiniteSet(cache) /\ Cardinality(cache) <= MaxCached
    BY DEF ConsoleInv, ConsoleTypes, ConnectionsAreKept
<1>3. IsFiniteSet(Remaining) /\ Cardinality(Remaining) <= Cardinality(cache)
    BY <1>1, <1>2, FS_Subset
<1>4. Cardinality(cache) \in Nat /\ Cardinality(Remaining) \in Nat /\ MaxCached \in Nat
    BY <1>2, <1>3, FS_CardinalityType, ConsolesAssumption
<1> QED BY <1>1, <1>2, <1>3, <1>4

\* A full cache closes a connection before another one is made.
LEMMA RoomIsMade ==
    ASSUME ConsoleInv, NEW entries \in Room(Remaining)
    PROVE  entries \subseteq Remaining /\ IsFiniteSet(entries) /\ Cardinality(entries) < MaxCached
<1>1. MaxCached \in Nat
    BY ConsolesAssumption
<1>2. CASE Cardinality(Remaining) >= MaxCached
    <2>1. PICK c \in Remaining : entries = Remaining \ {c}
        BY <1>2 DEF Room, Oldest
    <2>2. IsFiniteSet(entries) /\ Cardinality(entries) = Cardinality(Remaining) - 1
        BY <2>1, RemainingFits, FS_RemoveElement
    <2> QED BY <1>1, <2>1, <2>2, RemainingFits
<1>3. CASE ~(Cardinality(Remaining) >= MaxCached)
    <2>1. entries = Remaining
        BY <1>3 DEF Room
    <2> QED BY <1>1, <1>3, <2>1, RemainingFits
<1> QED BY <1>2, <1>3

\* The cache begins so.
LEMMA ConsoleInit == ASSUME NEW who, InitConsoles(who) PROVE ConsoleInv
<1>1. IsFiniteSet({}) /\ Cardinality({}) = 0 /\ MaxCached \in Nat
    BY FS_EmptySet, ConsolesAssumption
<1>2. /\ at = [s \in Sessions |-> "new"] /\ conn = [s \in Shells |-> None]
      /\ cache = {} /\ open = {} /\ Shells \subseteq Sessions
    BY DEF InitConsoles, Sessions
<1>3. ConsoleTypes
    BY <1>1, <1>2 DEF ConsoleTypes, ShellStep
<1>4. ConnectInv
    BY <1>2 DEF ConnectInv
<1>5. ConnectionsAreKept
    BY <1>1, <1>2 DEF ConnectionsAreKept
<1> QED BY <1>3, <1>4, <1>5 DEF ConsoleInv

\* Steps of a handler but for those that use the cache.
LEMMA HandlerStep ==
    ASSUME ConsoleInv, UNCHANGED <<conn, cache, lock>>, open' \subseteq open,
           at' \in [Sessions -> ShellStep \cup ScreenStep],
           \A s \in Shells : at'[s] = "connecting" => at[s] = "connecting"
    PROVE  ConsoleInv'
BY DEF ConsoleInv, ConsoleTypes, ConnectInv, ConnectionsAreKept

\* Each step of a session keeps it.
LEMMA ConsoleStep == ASSUME ConsoleInv, Console PROVE ConsoleInv'
<1>0. /\ ConsoleTypes /\ ConnectInv /\ ConnectionsAreKept
      /\ at \in [Sessions -> ShellStep \cup ScreenStep]
      /\ Shells \subseteq Sessions /\ Screens \subseteq Sessions /\ None \notin Shells
      /\ MaxCached \in Nat
    BY ConsolesAssumption DEF ConsoleInv, ConsoleTypes, Sessions
<1>1. ASSUME NEW s \in Shells, Reuse(s) PROVE ConsoleInv'
    <2>1. at' = [at EXCEPT ![s] = "verify"] /\ cache' = Remaining /\ open' = open \cap Remaining
          /\ lock = None /\ lock' = None
        BY <1>1 DEF Reuse, GoTo
    <2>2. PICK c \in Remaining : CacheKey(c) = CacheKey(s) /\ conn' = [conn EXCEPT ![s] = c]
        BY <1>1 DEF Reuse
    <2>3. Credential[c] = Credential[s] /\ c \in Shells
        BY <1>0, <2>2, KeyHasCredential, RemainingFits DEF ConsoleTypes
    <2>4. \A t \in Shells : at'[t] # "connecting"
        BY <1>0, <2>1 DEF ConnectInv
    <2>5. ConsoleTypes'
        BY <1>0, <2>1, <2>2, <2>3, RemainingFits DEF ConsoleTypes, ShellStep
    <2>6. \A t \in Shells : conn'[t] # None => Credential[conn'[t]] = Credential[t]
        BY <1>0, <2>2, <2>3 DEF ConsoleTypes, ConnectionsAreKept
    <2>7. ConnectionsAreKept'
        BY <1>0, <2>1, <2>6, RemainingFits DEF ConnectionsAreKept
    <2> QED BY <2>4, <2>5, <2>7 DEF ConsoleInv, ConnectInv
<1>2. ASSUME NEW s \in Shells, Connect(s) PROVE ConsoleInv'
    <2>1. /\ at' = [at EXCEPT ![s] = "connecting"] /\ open' = open \cap cache'
          /\ lock = None /\ lock' = s /\ conn' = conn
          /\ cache' \in Room(Remaining) /\ \A c \in Remaining : CacheKey(c) # CacheKey(s)
        BY <1>2 DEF Connect, GoTo
    <2>2. cache' \subseteq Remaining /\ IsFiniteSet(cache') /\ Cardinality(cache') < MaxCached
        BY <2>1, RoomIsMade
    <2>3. Remaining \subseteq cache /\ Cardinality(cache') \in Nat
        BY <2>2, RemainingFits, FS_CardinalityType
    <2>4. ConsoleTypes'
        BY <1>0, <2>1, <2>2, <2>3 DEF ConsoleTypes, ShellStep
    <2>5. ConnectInv'
        BY <1>0, <2>1, <2>2 DEF ConnectInv
    <2>6. ConnectionsAreKept'
        BY <1>0, <2>1, <2>2, <2>3 DEF ConnectionsAreKept
    <2> QED BY <2>4, <2>5, <2>6 DEF ConsoleInv
<1>3. ASSUME NEW s \in Shells, Connected(s) PROVE ConsoleInv'
    <2>1. /\ at[s] = "connecting" /\ at' = [at EXCEPT ![s] = "verify"]
          /\ conn' = [conn EXCEPT ![s] = s] /\ cache' = cache \cup {s} /\ open' = open \cup {s}
        BY <1>3 DEF Connected, GoTo
    <2>2. /\ lock = s /\ Cardinality(cache) < MaxCached
          /\ \A c \in cache : CacheKey(c) # CacheKey(s)
        BY <1>0, <2>1 DEF ConnectInv
    <2>3. IsFiniteSet(cache') /\ Cardinality(cache') <= MaxCached
        <3>1. IsFiniteSet(cache) /\ Cardinality(cache) \in Nat
            BY <1>0, FS_CardinalityType DEF ConsoleTypes
        <3>2. IsFiniteSet(cache') /\ Cardinality(cache') <= Cardinality(cache) + 1
            BY <2>1, <3>1, FS_AddElement
        <3> QED BY <1>0, <2>2, <3>1, <3>2, FS_CardinalityType
    <2>4. \A t \in Shells : at'[t] # "connecting"
        BY <1>0, <2>1, <2>2 DEF ConnectInv
    <2>5. ConsoleTypes'
        BY <1>0, <2>1, <2>3 DEF ConsoleTypes, ShellStep
    <2>6. \A t \in Shells : conn'[t] # None => Credential[conn'[t]] = Credential[t]
        BY <1>0, <2>1 DEF ConsoleTypes, ConnectionsAreKept
    <2>7. ConnectionsAreKept'
        BY <1>0, <2>1, <2>2, <2>3, <2>6 DEF ConnectionsAreKept
    <2> QED BY <2>4, <2>5, <2>7 DEF ConsoleInv, ConnectInv
<1>4. ASSUME NEW s \in Shells, ConnectFails(s) PROVE ConsoleInv'
    <2>1. /\ at[s] = "connecting" /\ at' = [at EXCEPT ![s] = "closing"]
          /\ UNCHANGED <<conn, cache, open>>
        BY <1>4 DEF ConnectFails, GoTo
    <2>2. \A t \in Shells : at'[t] # "connecting"
        BY <1>0, <2>1 DEF ConnectInv
    <2> QED BY <1>0, <2>1, <2>2 DEF ConsoleInv, ConsoleTypes, ConnectInv, ConnectionsAreKept, ShellStep
<1>5. ASSUME NEW s \in Shells,
             \/ OpenSession(s) \/ Announce(s) \/ VerifyHostKey(s) \/ StartShell(s) \/ Leave(s)
             \/ TimeLimit(s) \/ CloseTimedOut(s) \/ Close(s)
      PROVE  ConsoleInv'
    <2>1. \E l \in ShellStep \ {"connecting"} : at' = [at EXCEPT ![s] = l]
        BY <1>5 DEF OpenSession, Announce, VerifyHostKey, StartShell, Leave, TimeLimit,
            CloseTimedOut, Close, GoTo, ShellStep
    <2>2. UNCHANGED <<conn, cache, lock>> /\ open' \subseteq open
        BY <1>5 DEF OpenSession, Announce, VerifyHostKey, StartShell, Leave, TimeLimit,
            CloseTimedOut, Close
    <2> QED BY <1>0, <2>1, <2>2, HandlerStep
<1>6. ASSUME NEW s \in Screens, OpenScreen(s) \/ Screen(s) \/ ScreenEnds(s) PROVE ConsoleInv'
    <2>1. \E l \in ScreenStep : at' = [at EXCEPT ![s] = l]
        BY <1>6 DEF OpenScreen, Screen, ConnectScreen, CloseScreen, ScreenEnds, GoTo, ScreenStep
    <2>2. UNCHANGED <<conn, cache, lock>> /\ open' = open
        BY <1>6 DEF OpenScreen, Screen, ConnectScreen, CloseScreen, ScreenEnds
    <2>3. "connecting" \notin ScreenStep
        BY DEF ScreenStep
    <2> QED BY <1>0, <2>1, <2>2, <2>3, HandlerStep
<1>7. CASE IdlePasses \/ \E c \in Shells : ConnectionDies(c)
    BY <1>0, <1>7, HandlerStep DEF IdlePasses, ConnectionDies
<1>8. CASE ApiStops
    <2>1. /\ at' = [s \in Sessions |-> IF at[s] = "new" THEN "new" ELSE "over"]
          /\ open' = {} /\ cache' = {} /\ conn' = conn
        BY <1>8 DEF ApiStops
    <2>2. IsFiniteSet({}) /\ Cardinality({}) = 0
        BY FS_EmptySet
    <2>3. ConsoleTypes'
        BY <1>0, <2>1, <2>2 DEF ConsoleTypes, ShellStep
    <2> QED BY <1>0, <2>1, <2>2, <2>3 DEF ConsoleInv, ConnectInv, ConnectionsAreKept
<1> QED BY <1>1, <1>2, <1>3, <1>4, <1>5, <1>6, <1>7, <1>8 DEF Console, Shell

\* Every behaviour keeps the cache so.
LEMMA ConsoleInvariant == Spec => []ConsoleInv
<1>1. Init => ConsoleInv
    BY SeparateInit, ConsoleInit
<1>2. ASSUME ConsoleInv, [Console]_consoleVars PROVE ConsoleInv'
    <2>1. CASE UNCHANGED consoleVars
        BY <1>2, <2>1 DEF consoleVars, ConsoleInv, ConsoleTypes, ConnectInv, ConnectionsAreKept
    <2> QED BY <1>2, <2>1, ConsoleStep
<1> QED BY <1>1, <1>2, Separate, PTL DEF Spec

\* The cache leaks no connection, keeps one for a key, and gives a shell one
\* of its own credential.
THEOREM ConnectionsFit == Spec => []ConnectionsAreKept
<1> ConsoleInv => ConnectionsAreKept
    BY DEF ConsoleInv
<1> QED BY ConsoleInvariant, PTL
-----------------------------------------------------------------------------
(* What is sent to a model                                                 *)

\* Induction over the numbers, for a set.
LEMMA SetInduction ==
    ASSUME NEW S, 0 \in S, \A n \in Nat : n \in S => n + 1 \in S
    PROVE  Nat \subseteq S
<1> DEFINE T == Nat \ S
           R == {pair \in Nat \X Nat : pair[1] < pair[2]}
<1>1. \A x, y \in Nat : y < x => <<y, x>> \in R
    OBVIOUS
<1>2. SUFFICES ASSUME T # {} PROVE FALSE
    OBVIOUS
<1>3. IsWellFoundedOn(R, Nat)
    BY NatLessThanWellFounded DEF OpToRel
<1>4. PICK x \in T : \A y \in T : ~(<<y, x>> \in R)
    <2>1. T \subseteq Nat
        OBVIOUS
    <2> HIDE DEF R, T
    <2> QED BY <1>2, <1>3, <2>1, WFMin
<1>5. x # 0 /\ x - 1 \in Nat /\ x - 1 < x /\ x - 1 + 1 = x
    OBVIOUS
<1>6. x - 1 \notin T
    BY <1>1, <1>4, <1>5
<1> QED BY <1>5, <1>6

\* f has the lengths of the last messages of h.
Sums(h, k, f) ==
    f = [n \in 0 .. k |-> IF n = 0 THEN 0 ELSE f[n - 1] + h[Len(h) + 1 - n]]

\* There is such a function, however many messages there are.
LEMMA SumsExist ==
    ASSUME NEW h \in Seq(Nat), NEW k \in 0 .. Len(h)
    PROVE  \E f : Sums(h, k, f)
<1> DEFINE S == {m \in Nat : m <= Len(h) => \E f \in [0 .. m -> Nat] : Sums(h, m, f)}
<1>1. 0 \in S
    <2> DEFINE f == [n \in 0 .. 0 |-> 0]
    <2>1. f \in [0 .. 0 -> Nat] /\ Sums(h, 0, f)
        BY DEF Sums
    <2> QED BY <2>1
<1>2. ASSUME NEW m \in Nat, m \in S PROVE m + 1 \in S
    <2> SUFFICES ASSUME m + 1 <= Len(h) PROVE \E g \in [0 .. m + 1 -> Nat] : Sums(h, m + 1, g)
        OBVIOUS
    <2>1. Len(h) \in Nat
        OBVIOUS
    <2>2. PICK f \in [0 .. m -> Nat] : Sums(h, m, f)
        BY <1>2, <2>1
    <2>3. h[Len(h) - m] \in Nat
        BY <2>1
    <2> DEFINE g == [n \in 0 .. m + 1 |-> IF n = m + 1 THEN f[m] + h[Len(h) - m] ELSE f[n]]
    <2>4. g \in [0 .. m + 1 -> Nat]
        BY <2>3
    <2>5. \A n \in 0 .. m : f[n] = IF n = 0 THEN 0 ELSE f[n - 1] + h[Len(h) + 1 - n]
        BY <2>2 DEF Sums
    <2>6. ASSUME NEW n \in 0 .. m + 1
          PROVE  g[n] = IF n = 0 THEN 0 ELSE g[n - 1] + h[Len(h) + 1 - n]
        <3>1. CASE n = m + 1
            <4>1. n # 0 /\ n - 1 \in 0 .. m + 1 /\ n - 1 = m /\ Len(h) + 1 - n = Len(h) - m
                BY <2>1, <3>1
            <4> QED BY <3>1, <4>1
        <3>2. CASE n # m + 1
            <4>1. n \in 0 .. m /\ (n # 0 => n - 1 \in 0 .. m)
                BY <3>2
            <4> QED BY <2>5, <3>2, <4>1
        <3> QED BY <3>1, <3>2
    <2>7. Sums(h, m + 1, g)
        BY <2>6 DEF Sums
    <2> QED BY <2>4, <2>7
<1>3. Nat \subseteq S
    <2> HIDE DEF S
    <2> QED BY <1>1, <1>2, SetInduction
<1> QED BY <1>3

\* The length of some messages is a number, and that of none is 0.
LEMMA LastMessagesIsLength ==
    ASSUME NEW h \in Seq(Nat), NEW k \in 0 .. Len(h)
    PROVE  Budget!LastMessages(h, k) \in Nat /\ (k = 0 => Budget!LastMessages(h, k) = 0)
<1> DEFINE f == CHOOSE x : x = [n \in 0 .. k |-> IF n = 0 THEN 0 ELSE x[n - 1] + h[Len(h) + 1 - n]]
<1>1. Budget!LastMessages(h, k) = f[k]
    BY DEF Budget!LastMessages
<1>2. Sums(h, k, f)
    BY SumsExist DEF Sums
<1> HIDE DEF f
<1>3. \A n \in 0 .. k : f[n] = IF n = 0 THEN 0 ELSE f[n - 1] + h[Len(h) + 1 - n]
    BY <1>2 DEF Sums
<1> DEFINE S == {m \in Nat : m <= k => f[m] \in Nat}
<1>4. 0 \in S
    BY <1>3
<1>5. ASSUME NEW m \in Nat, m \in S PROVE m + 1 \in S
    <2> SUFFICES ASSUME m + 1 <= k PROVE f[m + 1] \in Nat
        OBVIOUS
    <2>1. h[Len(h) - m] \in Nat /\ Len(h) + 1 - (m + 1) = Len(h) - m
        OBVIOUS
    <2>2. f[m] \in Nat
        BY <1>5
    <2>3. f[m + 1] = f[m] + h[Len(h) - m]
        BY <1>3, <2>1
    <2> QED BY <2>1, <2>2, <2>3
<1>6. Nat \subseteq S
    <2> HIDE DEF S
    <2> QED BY <1>4, <1>5, SetInduction
<1>7. f[k] \in Nat
    BY <1>6
<1>8. k = 0 => f[k] = 0
    BY <1>3
<1> QED BY <1>1, <1>7, <1>8

\* There is a most of the messages that fit: none does.
LEMMA FittingFits ==
    ASSUME NEW h \in Seq(Nat), NEW n \in 0 .. Len(h), NEW limit \in Nat
    PROVE  LET k == Budget!Fitting(h, n, limit) IN
           k \in 0 .. n /\ Budget!LastMessages(h, k) <= limit
<1> DEFINE L(k) == Budget!LastMessages(h, k)
           Most(k, m) == L(k) <= limit /\ \A j \in k + 1 .. m : L(j) > limit
           S == {m \in Nat : m <= Len(h) => \E k \in 0 .. m : Most(k, m)}
<1>1. \A k \in 0 .. Len(h) : L(k) \in Nat /\ (k = 0 => L(k) = 0)
    BY LastMessagesIsLength
<1> HIDE DEF L
<1>2. 0 \in S
    BY <1>1
<1>3. ASSUME NEW m \in Nat, m \in S PROVE m + 1 \in S
    <2> SUFFICES ASSUME m + 1 <= Len(h) PROVE \E k \in 0 .. m + 1 : Most(k, m + 1)
        OBVIOUS
    <2>1. PICK k \in 0 .. m : Most(k, m)
        BY <1>3
    <2>2. L(m + 1) \in Nat
        BY <1>1
    <2>3. CASE L(m + 1) <= limit
        BY <2>3
    <2>4. CASE L(m + 1) > limit
        BY <2>1, <2>4
    <2> QED BY <2>2, <2>3, <2>4
<1>4. Nat \subseteq S
    <2> HIDE DEF S
    <2> QED BY <1>2, <1>3, SetInduction
<1>5. \E k \in 0 .. n : Most(k, n)
    BY <1>4
<1> QED BY <1>5 DEF Budget!Fitting, L

\* What is kept of a history is a history.
LEMMA RecentIsHistory == ASSUME NEW h \in Seq(Nat) PROVE Budget!Recent(h) \in Seq(Nat)
<1> DEFINE k == Budget!Fitting(h, Len(h), Budget!HistoryLimit)
<1>1. Len(h) \in Nat /\ Budget!HistoryLimit \in Nat
    BY DEF Budget!HistoryLimit, Budget!CharsPerToken
<1>2. k \in 0 .. Len(h)
    BY <1>1, FittingFits
<1> HIDE DEF k
<1>3. SubSeq(h, Len(h) + 1 - k, Len(h)) \in Seq(Nat)
    BY <1>1, <1>2, SubSeqProperties
<1> QED BY <1>3 DEF Budget!Recent, k

\* The parts of a prompt, each at least the least, within the ceiling.
LEMMA BudgetFits ==
    ASSUME NEW p \in Budget!Prompt
    PROVE  LET s == Budget!Budgeted(p)
               total == s.system + s.history + s.user
           IN /\ \/ total <= Budget!Ceiling(p)
                 \/ total < p.user + 2 * Budget!Floor
              /\ p.rules <= Budget!Floor => s.rules = p.rules
<1> DEFINE most == Budget!Ceiling(p)
           rest == Budget!Remaining(p)
           past == Budget!SentHistory(p)
           budget == Budget!SystemBudget(p)
           part == Budget!Truncated(p, budget)
           s == Budget!Budgeted(p)
<1>1. /\ p.context \in Nat /\ p.maxTokens \in Nat /\ p.system \in Nat /\ p.rules \in Nat
      /\ p.history \in Seq(Nat) /\ p.user \in Nat
    BY DEF Budget!Prompt
<1>2. most \in Nat
    BY <1>1 DEF Budget!Ceiling, Budget!Larger, Budget!Smaller, Budget!Reserved, Budget!Floor,
        Budget!CharsPerToken, Budget!Slack
<1>3. rest \in Nat /\ rest >= 1000 /\ (rest = 1000 \/ rest + p.user = most)
    BY <1>1, <1>2 DEF Budget!Remaining, Budget!Larger, Budget!Floor
<1>4. past \in Nat /\ 2 * past <= rest
    <2> DEFINE n == Budget!Smaller(Budget!MaxMessages, Len(p.history))
               share == Budget!HistoryShare(p)
    <2>1. n \in 0 .. Len(p.history)
        BY <1>1 DEF Budget!Smaller, Budget!MaxMessages
    <2>2. share \in Nat /\ 2 * share <= rest
        BY <1>3 DEF Budget!HistoryShare
    <2>3. /\ Budget!KeptMessages(p) \in 0 .. n
          /\ Budget!LastMessages(p.history, Budget!KeptMessages(p)) <= share
        BY <1>1, <2>1, <2>2, FittingFits DEF Budget!KeptMessages
    <2>4. Budget!LastMessages(p.history, Budget!KeptMessages(p)) \in Nat
        BY <1>1, <2>1, <2>3, LastMessagesIsLength
    <2> HIDE DEF n, share
    <2> QED BY <1>3, <2>2, <2>3, <2>4 DEF Budget!SentHistory
<1>5. budget \in Nat /\ budget >= 1000 /\ (budget = 1000 \/ budget = rest - past)
    BY <1>3, <1>4 DEF Budget!SystemBudget, Budget!Larger, Budget!Floor
<1> HIDE DEF most, rest, past, budget
<1>6. /\ part.length \in Nat /\ part.length <= budget
      /\ p.rules <= 1000 => part.rules = p.rules
    BY <1>1, <1>5 DEF Budget!Truncated, Budget!Smaller, Budget!Marker
<1>7. s.system = part.length /\ s.rules = part.rules /\ s.history = past /\ s.user = p.user
    BY DEF Budget!Budgeted, past, budget
<1> HIDE DEF part, s
<1>8. part.length + past + p.user <= most \/ part.length + past + p.user < p.user + 2000
    BY <1>1, <1>2, <1>3, <1>4, <1>5, <1>6
<1> QED BY <1>6, <1>7, <1>8 DEF Budget!Floor, most, s

SentInv ==
    /\ sent = [q \in Questions |-> sent[q]]
    /\ \A q \in Questions :
          sent[q] = <<>> \/ \E p \in Budget!Prompt : sent[q] = <<p, Budget!Budgeted(p)>>

\* What is sent next fits.
LEMMA SendStep == ASSUME SentInv, NEW q \in Questions, Send(q) PROVE SentInv'
<1>1. PICK p \in Prompts[q] :
          LET recent == [p EXCEPT !.history = Budget!Recent(p.history)] IN
          sent' = [sent EXCEPT ![q] = <<recent, Budget!Budgeted(recent)>>]
    BY DEF Send
<1> DEFINE recent == [p EXCEPT !.history = Budget!Recent(p.history)]
<1>2. p \in Budget!Prompt
    BY QueriesAssumption
<1>3. Budget!Recent(p.history) \in Seq(Nat)
    BY <1>2, RecentIsHistory DEF Budget!Prompt
<1>4. recent \in Budget!Prompt
    BY <1>2, <1>3 DEF Budget!Prompt
<1>5. sent' = [sent EXCEPT ![q] = <<recent, Budget!Budgeted(recent)>>]
    BY <1>1
<1> HIDE DEF recent
<1> QED BY <1>4, <1>5 DEF SentInv

\* Every behaviour sends only what fits.
LEMMA SentInvariant == Spec => []SentInv
<1>1. Init => SentInv
    BY SeparateInit DEF InitQueries, SentInv
<1>2. ASSUME SentInv, [Queries]_queryVars PROVE SentInv'
    <2>1. \/ \E q \in Questions : Send(q)
          \/ UNCHANGED sent
        BY <1>2 DEF Queries, Ask, PickEndpoint, BuildContext, ResolveModel, Probe, ChooseModel, Answer,
            Fail, WriteLog, Disconnect, LoadEndpoint, ClearDefaults, CommitChange, RefreshHealth,
            Turn, queryVars
    <2> QED BY <1>2, <2>1, SendStep DEF SentInv
<1> QED BY <1>1, <1>2, Separate, PTL DEF Spec

\* Whatever is asked, with whatever history and system prompt, what is sent
\* fits and keeps the rules.
THEOREM SentFits == Spec => []PromptFits
<1> SentInv => PromptFits
    BY BudgetFits DEF SentInv, PromptFits
<1> QED BY SentInvariant, PTL
-----------------------------------------------------------------------------
(* Secrets and their files                                                 *)

Values == {Old, Absent} \cup {Change[w].value : w \in Writers}
Parts == {FileOf(x) : x \in Scopes} \cup {TopOf(g) : g \in GroupScopes}

PillarTypes ==
    /\ wstep \in [Writers -> WriterStep]
    /\ secrets \in [Scopes -> [SecretKeys -> Values]]
    /\ snapshot \in [Writers -> [SecretKeys -> Values]]
    /\ file \in [Scopes -> [FileKeys -> Values \cup {Block}]]
    /\ listing \in [Writers -> SUBSET GroupScopes]
    /\ listed \subseteq GroupScopes
    /\ reads \in Seq(Writers \X Parts)

\* Who has read a part, and who has read it after whom.
Knows(w, part) == \E i \in 1 .. Len(reads) : reads[i] = <<w, part>>
Later(v, w, part) ==
    \E i, j \in 1 .. Len(reads) : i < j /\ reads[i] = <<v, part>> /\ reads[j] = <<w, part>>

\* A request reads a part once, after it has committed, and before it writes it.
ReadOnce ==
    /\ \A i, j \in 1 .. Len(reads) : reads[i] = reads[j] => i = j
    /\ \A w \in Writers, x \in Scopes :
          Knows(w, FileOf(x)) => x = Scope(w) /\ wstep[w] \in {"read", "listing", "done", "lost"}
    /\ \A w \in Writers, g \in GroupScopes :
          Knows(w, TopOf(g)) => wstep[w] \in {"listing", "done", "lost"}
    /\ \A w \in Writers :
          /\ wstep[w] = "read" => Knows(w, FileOf(Scope(w)))
          /\ wstep[w] = "committed" => ~Deletes(w)
          /\ wstep[w] = "listing" => Scope(w) \in GroupScopes
          /\ \A g \in listing[w] : Knows(w, TopOf(g))

\* The request that made a row what it is has yet to read it for the file.
RowPending(x, k) ==
    \E w \in Writers :
        /\ Scope(w) = x /\ Change[w].key = k /\ Change[w].value = secrets[x][k]
        /\ wstep[w] \in {"committed", "refreshed"}

\* The same for the list of groups.
TopPending(g) ==
    \E w \in Writers :
        /\ Scope(w) = g /\ Change[w].value = secrets[g][Change[w].key]
        /\ \/ wstep[w] \in {"committed", "refreshed", "read"}
           \/ wstep[w] = "listing" /\ ~Knows(w, TopOf(g))

\* What a part holds was written by the last reader of those that have
\* written it.
LastWriter(w, part) ==
    /\ <<w, part>> \in wrote
    /\ \A v \in Writers : Later(w, v, part) => <<v, part>> \notin wrote

Unwritten(part) == \A w \in Writers : <<w, part>> \notin wrote

FileSays(x, row) ==
    \A k \in SecretKeys : x \in GroupScopes \/ row[k] # Absent => file[x][k] = row[k]

\* The last reader of a file knows its rows, but for those that are pending.
FileFollows(x) ==
    /\ \A w \in Writers, k \in SecretKeys :
          Knows(w, FileOf(x)) /\ (\A v \in Writers : ~Later(w, v, FileOf(x)))
            => snapshot[w][k] = secrets[x][k] \/ RowPending(x, k)
    /\ (\A w \in Writers : ~Knows(w, FileOf(x)))
         => \A k \in SecretKeys : file[x][k] = secrets[x][k] \/ RowPending(x, k)
    /\ \/ Unwritten(FileOf(x))
       \/ \E w \in Writers : LastWriter(w, FileOf(x)) /\ FileSays(x, snapshot[w])
    /\ \A w \in Writers :
          Knows(w, FileOf(x)) /\ <<w, FileOf(x)>> \notin wrote => wstep[w] = "read"
    /\ x \in NodeScopes => file[x][Block] = Block

\* No request that changed the group has read the list since.
Fresh(w, g) == \A v \in Writers : Later(w, v, TopOf(g)) => Scope(v) # g

\* A reader of the list of groups knows whether a group has secrets, unless
\* one that changes the group is still to read the list, or has read it since.
TopFollows(g) ==
    /\ \A w \in Writers :
          Knows(w, TopOf(g)) /\ Fresh(w, g)
            => (g \in listing[w] <=> HasSecrets(g)) \/ TopPending(g)
    /\ Unwritten(TopOf(g)) /\ (\A w \in Writers : Knows(w, TopOf(g)) => Scope(w) # g)
         => (g \in listed <=> HasSecrets(g)) \/ TopPending(g)
    /\ \/ Unwritten(TopOf(g))
       \/ \E w \in Writers : LastWriter(w, TopOf(g)) /\ (g \in listed <=> g \in listing[w])
    /\ \A w \in Writers :
          Scope(w) = g /\ Knows(w, TopOf(g)) /\ <<w, TopOf(g)>> \notin wrote
            => wstep[w] = "listing"

FilesInv == \A x \in Scopes : FileOf(x) \notin torn \cup late => FileFollows(x)
TopInv == \A g \in GroupScopes : TopOf(g) \notin torn \cup late => TopFollows(g)

\* What was written was read.
WroteInv == \A w \in Writers, part \in Parts : <<w, part>> \in wrote => Knows(w, part)

\* Only the requests of the behaviour do anything.
OthersIdle == \A w \in Writers \ writing : wstep[w] = "idle"

PillarInv == PillarTypes /\ OthersIdle /\ ReadOnce /\ WroteInv /\ FilesInv /\ TopInv

\* Who reads a part knows it, and has read it later than all who knew it.
LEMMA ReadsAppended ==
    ASSUME PillarTypes, NEW r \in Writers, NEW part \in Parts,
           reads' = Append(reads, <<r, part>>)
    PROVE  /\ \A v, q : Knows(v, q)' <=> Knows(v, q) \/ (v = r /\ q = part)
           /\ \A v, w, q : Later(v, w, q)' <=> Later(v, w, q) \/ (w = r /\ q = part /\ Knows(v, q))
<1> DEFINE n == Len(reads)
<1>1. /\ n \in Nat /\ Len(reads') = n + 1 /\ reads'[n + 1] = <<r, part>>
      /\ \A i \in 1 .. n : reads'[i] = reads[i]
    BY DEF PillarTypes
<1>2. 1 .. n + 1 = 1 .. n \cup {n + 1} /\ n + 1 \notin 1 .. n
    BY <1>1
<1>3. \A i \in 1 .. n : i < n + 1 /\ ~(n + 1 < i)
    BY <1>1
<1>4. ~(n + 1 < n + 1)
    BY <1>1
<1> HIDE DEF n
<1>5. ASSUME NEW v, NEW q PROVE Knows(v, q)' <=> Knows(v, q) \/ (v = r /\ q = part)
    BY <1>1, <1>2 DEF Knows, n
<1>6. ASSUME NEW v, NEW w, NEW q
      PROVE  Later(v, w, q)' <=> Later(v, w, q) \/ (w = r /\ q = part /\ Knows(v, q))
    <2>1. Later(v, w, q) => Later(v, w, q)'
        BY <1>1, <1>2 DEF Later, n
    <2>2. w = r /\ q = part /\ Knows(v, q) => Later(v, w, q)'
        BY <1>1, <1>2, <1>3 DEF Later, Knows, n
    <2>3. ASSUME Later(v, w, q)' PROVE Later(v, w, q) \/ (w = r /\ q = part /\ Knows(v, q))
        <3>1. PICK i, j \in 1 .. n + 1 : i < j /\ reads'[i] = <<v, q>> /\ reads'[j] = <<w, q>>
            BY <1>1, <2>3 DEF Later, n
        <3>2. i \in 1 .. n /\ reads[i] = <<v, q>>
            BY <1>1, <1>2, <1>3, <1>4, <3>1
        <3>3. CASE j = n + 1
            BY <1>1, <3>1, <3>2, <3>3 DEF Knows, n
        <3>4. CASE j # n + 1
            BY <1>1, <1>2, <3>1, <3>2, <3>4 DEF Later, n
        <3> QED BY <3>3, <3>4
    <2> QED BY <2>1, <2>2, <2>3
<1> QED BY <1>5, <1>6

\* Who did not know a part reads it for the first time.
LEMMA AppendedOnce ==
    ASSUME PillarTypes, ReadOnce, NEW r \in Writers, NEW part \in Parts, ~Knows(r, part),
           reads' = Append(reads, <<r, part>>)
    PROVE  \A i, j \in 1 .. Len(reads') : reads'[i] = reads'[j] => i = j
<1> DEFINE n == Len(reads)
<1>1. /\ n \in Nat /\ Len(reads') = n + 1 /\ reads'[n + 1] = <<r, part>>
      /\ \A i \in 1 .. n : reads'[i] = reads[i] /\ reads[i] # <<r, part>>
    BY DEF PillarTypes, Knows
<1>2. 1 .. n + 1 = 1 .. n \cup {n + 1}
    BY <1>1
<1>3. \A i, j \in 1 .. n : reads[i] = reads[j] => i = j
    BY DEF ReadOnce
<1> HIDE DEF n
<1> QED
    BY <1>1, <1>2, <1>3

\* Other steps change none of it.
LEMMA ReadsSame ==
    ASSUME reads' = reads
    PROVE  /\ \A v, q : Knows(v, q)' <=> Knows(v, q)
           /\ \A v, w, q : Later(v, w, q)' <=> Later(v, w, q)
BY DEF Knows, Later

\* Of two readers both know the part, and none is later than itself.
LEMMA LaterKnows ==
    ASSUME ReadOnce, NEW v, NEW w, NEW part, Later(v, w, part)
    PROVE  Knows(v, part) /\ Knows(w, part) /\ v # w
<1>1. PICK i, j \in 1 .. Len(reads) : i < j /\ reads[i] = <<v, part>> /\ reads[j] = <<w, part>>
    BY DEF Later
<1>2. i # j
    BY <1>1
<1> QED
    BY <1>1, <1>2 DEF Knows, ReadOnce

\* A part that is not overtaken when it is written has been written by nobody
\* who read it later.
LEMMA NotOvertaken ==
    ASSUME NEW w, NEW parts, NEW part \in parts, part \notin Overtaken(w, parts),
           NEW v, Later(w, v, part)
    PROVE  <<v, part>> \notin wrote
<1>1. PICK i, j \in 1 .. Len(reads) : i < j /\ reads[i] = <<w, part>> /\ reads[j] = <<v, part>>
    BY DEF Later
<1>2. reads[j][2] = part
    BY <1>1
<1> QED
    BY <1>1, <1>2 DEF Overtaken

\* A file nobody reads or writes stays as good as it was, if what changes in
\* its rows is pending.
LEMMA FileStays ==
    ASSUME NEW x \in Scopes, FileFollows(x), WroteInv, ReadOnce, file'[x] = file[x],
           \A w \in Writers :
              /\ Knows(w, FileOf(x))' <=> Knows(w, FileOf(x))
              /\ <<w, FileOf(x)>> \in wrote' <=> <<w, FileOf(x)>> \in wrote
              /\ Knows(w, FileOf(x)) => snapshot'[w] = snapshot[w]
              /\ Knows(w, FileOf(x)) /\ wstep[w] = "read" => wstep'[w] = "read",
           \A v, w \in Writers : Later(v, w, FileOf(x))' <=> Later(v, w, FileOf(x)),
           \A k \in SecretKeys :
              \/ secrets'[x][k] = secrets[x][k] /\ (RowPending(x, k) => RowPending(x, k)')
              \/ RowPending(x, k)'
    PROVE  FileFollows(x)'
<1> DEFINE F == FileOf(x)
<1>1. F \in Parts /\ F' = F
    BY DEF Parts, FileOf
<1> HIDE DEF F
<1>2. ASSUME NEW w \in Writers, NEW k \in SecretKeys, Knows(w, F)',
             \A v \in Writers : ~Later(w, v, F)'
      PROVE  snapshot'[w][k] = secrets'[x][k] \/ RowPending(x, k)'
    BY <1>2 DEF FileFollows, F
<1>3. ASSUME \A w \in Writers : ~Knows(w, F)', NEW k \in SecretKeys
      PROVE  file'[x][k] = secrets'[x][k] \/ RowPending(x, k)'
    BY <1>3 DEF FileFollows, F
<1>4. \/ \A w \in Writers : <<w, F>> \notin wrote'
      \/ \E w \in Writers : LastWriter(w, F)' /\ FileSays(x, snapshot[w])'
    <2>1. CASE Unwritten(F)
        BY <2>1 DEF Unwritten, F
    <2>2. CASE ~Unwritten(F)
        <3>1. PICK w \in Writers : LastWriter(w, F) /\ FileSays(x, snapshot[w])
            BY <2>2 DEF FileFollows, F
        <3>2. Knows(w, F)
            BY <1>1, <3>1 DEF LastWriter, WroteInv
        <3>3. LastWriter(w, F)'
            BY <3>1, <1>1 DEF LastWriter, F
        <3>4. FileSays(x, snapshot[w])'
            BY <3>1, <3>2 DEF FileSays, F
        <3> QED BY <3>3, <3>4
    <2> QED BY <2>1, <2>2
<1>5. ASSUME NEW w \in Writers, Knows(w, F)', <<w, F>> \notin wrote' PROVE wstep'[w] = "read"
    BY <1>5 DEF FileFollows, F
<1>6. x \in NodeScopes => file'[x][Block] = Block
    BY DEF FileFollows
<1> QED
    BY <1>1, <1>2, <1>3, <1>4, <1>5, <1>6 DEF FileFollows, Unwritten, F

\* So does what is said of a group in the list.
LEMMA TopStays ==
    ASSUME NEW g \in GroupScopes, TopFollows(g), WroteInv, ReadOnce,
           g \in listed' <=> g \in listed,
           \A w \in Writers :
              /\ Knows(w, TopOf(g))' <=> Knows(w, TopOf(g))
              /\ <<w, TopOf(g)>> \in wrote' <=> <<w, TopOf(g)>> \in wrote
              /\ Knows(w, TopOf(g)) => (g \in listing'[w] <=> g \in listing[w])
              /\ Scope(w) = g /\ Knows(w, TopOf(g)) /\ <<w, TopOf(g)>> \notin wrote
                   => (wstep[w] = "listing" => wstep'[w] = "listing"),
           \A v, w \in Writers : Later(v, w, TopOf(g))' <=> Later(v, w, TopOf(g)),
           \/ (HasSecrets(g)' <=> HasSecrets(g)) /\ (TopPending(g) => TopPending(g)')
           \/ TopPending(g)'
    PROVE  TopFollows(g)'
<1> DEFINE T == TopOf(g)
<1>1. T \in Parts /\ T' = T
    BY DEF Parts, TopOf
<1> HIDE DEF T
<1>2. ASSUME NEW w \in Writers, Knows(w, T)', Fresh(w, g)'
      PROVE  (g \in listing'[w] <=> HasSecrets(g)') \/ TopPending(g)'
    <2>1. Knows(w, T) /\ Fresh(w, g)
        BY <1>2 DEF Fresh, T
    <2> QED BY <2>1 DEF TopFollows, T
<1>3. ASSUME Unwritten(T)', \A w \in Writers : Knows(w, T)' => Scope(w) # g
      PROVE  (g \in listed' <=> HasSecrets(g)') \/ TopPending(g)'
    <2>1. Unwritten(T) /\ \A w \in Writers : Knows(w, T) => Scope(w) # g
        BY <1>3 DEF Unwritten, T
    <2> QED BY <2>1 DEF TopFollows, T
<1>4. \/ Unwritten(T)'
      \/ \E w \in Writers : LastWriter(w, T)' /\ (g \in listed' <=> g \in listing'[w])
    <2>1. CASE Unwritten(T)
        BY <2>1 DEF Unwritten, T
    <2>2. CASE ~Unwritten(T)
        <3>1. PICK w \in Writers : LastWriter(w, T) /\ (g \in listed <=> g \in listing[w])
            BY <2>2 DEF TopFollows, T
        <3>2. Knows(w, T)
            BY <1>1, <3>1 DEF LastWriter, WroteInv
        <3>3. LastWriter(w, T)'
            BY <3>1, <1>1 DEF LastWriter, T
        <3> QED BY <3>1, <3>2, <3>3 DEF T
    <2> QED BY <2>1, <2>2
<1>5. ASSUME NEW w \in Writers, Scope(w) = g, Knows(w, T)', <<w, T>> \notin wrote'
      PROVE  wstep'[w] = "listing"
    BY <1>5 DEF TopFollows, T
<1> QED
    BY <1>2, <1>3, <1>4, <1>5 DEF TopFollows, Unwritten, T

\* Types, and who has read and written what.
PillarShape == PillarTypes /\ ReadOnce /\ WroteInv

\* A step of one request that reads and writes nothing keeps the order.
LEMMA ShapeKept ==
    ASSUME PillarShape, PillarTypes', reads' = reads, wrote' = wrote, NEW w \in Writers,
           \A v \in Writers \ {w} : wstep'[v] = wstep[v] /\ listing'[v] = listing[v],
           listing'[w] = listing[w],
           wstep[w] \in {"read", "listing", "done", "lost"}
               => wstep'[w] \in {"read", "listing", "done", "lost"},
           wstep[w] \in {"listing", "done", "lost"} => wstep'[w] \in {"listing", "done", "lost"},
           wstep'[w] = "read" => wstep[w] = "read",
           wstep'[w] = "committed" => ~Deletes(w),
           wstep'[w] = "listing" => Scope(w) \in GroupScopes
    PROVE  PillarShape'
<1>1. \A v, q : Knows(v, q)' <=> Knows(v, q)
    BY ReadsSame
<1>2. WroteInv'
    BY <1>1 DEF WroteInv, PillarShape
<1>3. ReadOnce'
    BY <1>1 DEF ReadOnce, PillarShape
<1> QED BY <1>2, <1>3 DEF PillarShape

\* Type correctness.
LEMMA PillarTypesStep == PillarTypes /\ [Pillar]_pillarVars => PillarTypes'
<1> SUFFICES ASSUME PillarTypes, [Pillar]_pillarVars PROVE PillarTypes'
    OBVIOUS
<1> USE PillarAssumption DEF PillarTypes, WriterStep, WriterTo
<1>1. ASSUME NEW w \in Writers, Look(w) PROVE PillarTypes'
    BY <1>1 DEF Look
<1>2. ASSUME NEW w \in Writers, CommitRow(w) PROVE PillarTypes'
    <2>1. secrets' \in [Scopes -> [SecretKeys -> Values]]
        <3>1. CASE UNCHANGED secrets
            BY <3>1
        <3>2. CASE secrets' = [secrets EXCEPT ![Scope(w)][Change[w].key] = Change[w].value]
            BY <3>2 DEF Values, Scope
        <3> QED BY <1>2, <3>1, <3>2 DEF CommitRow
    <2> QED BY <1>2, <2>1 DEF CommitRow
<1>3. ASSUME NEW w \in Writers, Refresh(w) PROVE PillarTypes'
    BY <1>3 DEF Refresh
<1>4. ASSUME NEW w \in Writers, ReadSecrets(w) PROVE PillarTypes'
    <2>1. <<w, FileOf(Scope(w))>> \in Writers \X Parts
        BY DEF Parts, Scope
    <2>2. reads' \in Seq(Writers \X Parts)
        BY <1>4, <2>1 DEF ReadSecrets
    <2>3. snapshot' \in [Writers -> [SecretKeys -> Values]]
        BY <1>4 DEF ReadSecrets, Scope
    <2> QED BY <1>4, <2>2, <2>3 DEF ReadSecrets
<1>5. \A w \in Writers : Contents(w) \in [FileKeys -> Values \cup {Block}]
    <2> TAKE w \in Writers
    <2>1. Scope(w) \in Scopes
        BY DEF Scope
    <2> QED BY <2>1 DEF Contents, Values
<1>6. ASSUME NEW w \in Writers, WriteFile(w) PROVE PillarTypes'
    BY <1>5, <1>6 DEF WriteFile
<1>7. ASSUME NEW w \in Writers, NEW g \in GroupScopes, ReadGroup(w, g) PROVE PillarTypes'
    <2>1. <<w, TopOf(g)>> \in Writers \X Parts
        BY DEF Parts
    <2>2. reads' \in Seq(Writers \X Parts)
        BY <1>7, <2>1 DEF ReadGroup
    <2> QED BY <1>7, <2>2 DEF ReadGroup
<1>8. ASSUME NEW w \in Writers, WriteTop(w) PROVE PillarTypes'
    BY <1>8 DEF WriteTop
<1>9. ASSUME NEW w \in Writers, Abandon(w) PROVE PillarTypes'
    BY <1>9 DEF Abandon
<1>10. ASSUME NEW w \in Writers, DieWriting(w) PROVE PillarTypes'
    <2>1. ASSUME NEW kept
          PROVE  [k \in FileKeys |-> IF k \in kept THEN Contents(w)[k] ELSE Absent]
                    \in [FileKeys -> Values \cup {Block}]
        BY <1>5 DEF Values
    <2>2. file' \in [Scopes -> [FileKeys -> Values \cup {Block}]]
        <3>1. CASE file' = file
            BY <3>1
        <3>2. ASSUME NEW kept,
                     file' = [file EXCEPT ![Scope(w)] =
                        [k \in FileKeys |-> IF k \in kept THEN Contents(w)[k] ELSE Absent]]
              PROVE  file' \in [Scopes -> [FileKeys -> Values \cup {Block}]]
            <4> DEFINE row == [k \in FileKeys |-> IF k \in kept THEN Contents(w)[k] ELSE Absent]
            <4>1. row \in [FileKeys -> Values \cup {Block}]
                BY <2>1
            <4>2. file' = [file EXCEPT ![Scope(w)] = row]
                BY <3>2
            <4> HIDE DEF row
            <4> QED BY <4>1, <4>2
        <3> QED BY <1>10, <3>1, <3>2 DEF DieWriting
    <2>3. listed' \subseteq GroupScopes
        BY <1>10 DEF DieWriting
    <2> QED BY <1>10, <2>2, <2>3 DEF DieWriting
<1>11. CASE UNCHANGED pillarVars
    BY <1>11 DEF pillarVars
<1> QED
    BY <1>1, <1>2, <1>3, <1>4, <1>6, <1>7, <1>8, <1>9, <1>10, <1>11 DEF Pillar

\* Every step keeps the order of reading and writing.
LEMMA PillarShapeStep == PillarShape /\ [Pillar]_pillarVars => PillarShape'
<1> SUFFICES ASSUME PillarShape, [Pillar]_pillarVars PROVE PillarShape'
    OBVIOUS
<1>0. PillarTypes'
    BY PillarTypesStep DEF PillarShape
<1> USE DEF WriterTo
<1>a. wstep \in [Writers -> WriterStep] /\ listing \in [Writers -> SUBSET GroupScopes]
    BY DEF PillarShape, PillarTypes
<1>1. ASSUME NEW w \in Writers, Look(w) PROVE PillarShape'
    BY <1>0, <1>a, <1>1, ShapeKept DEF Look
<1>2. ASSUME NEW w \in Writers, CommitRow(w) PROVE PillarShape'
    BY <1>0, <1>a, <1>2, ShapeKept DEF CommitRow
<1>3. ASSUME NEW w \in Writers, Refresh(w) PROVE PillarShape'
    BY <1>0, <1>a, <1>3, ShapeKept DEF Refresh
<1>4. ASSUME NEW w \in Writers, ReadSecrets(w) PROVE PillarShape'
    <2> DEFINE F == FileOf(Scope(w))
    <2>1. F \in Parts /\ Scope(w) \in Scopes
        BY PillarAssumption DEF Parts, Scope
    <2>2. ~Knows(w, F)
        BY <1>4, <2>1 DEF ReadSecrets, PillarShape, ReadOnce
    <2>3. reads' = Append(reads, <<w, F>>) /\ wstep' = [wstep EXCEPT ![w] = "read"]
          /\ listing' = listing /\ wrote' = wrote /\ wstep[w] = "refreshed"
        BY <1>4 DEF ReadSecrets
    <2>4. \A v, q : Knows(v, q)' <=> Knows(v, q) \/ (v = w /\ q = F)
        BY <2>1, <2>3, ReadsAppended DEF PillarShape
    <2>5. \A x : F = FileOf(x) => x = Scope(w)
        BY DEF FileOf
    <2>6. \A g : F # TopOf(g)
        BY DEF FileOf, TopOf
    <2> HIDE DEF F
    <2>7. \A i, j \in 1 .. Len(reads') : reads'[i] = reads'[j] => i = j
        BY <2>1, <2>2, <2>3, AppendedOnce DEF PillarShape
    <2>8. ReadOnce'
        BY <1>a, <2>3, <2>4, <2>5, <2>6, <2>7 DEF ReadOnce, PillarShape, F
    <2>9. WroteInv'
        BY <2>3, <2>4 DEF WroteInv, PillarShape
    <2> QED BY <1>0, <2>8, <2>9 DEF PillarShape
<1>5. ASSUME NEW w \in Writers, WriteFile(w) PROVE PillarShape'
    <2>1. \A v, q : Knows(v, q)' <=> Knows(v, q)
        BY <1>5, ReadsSame DEF WriteFile
    <2>2. WroteInv'
        BY <1>5, <2>1 DEF WriteFile, Written, WroteInv, ReadOnce, PillarShape
    <2>3. ReadOnce'
        BY <1>5, <1>a, <2>1 DEF WriteFile, ReadOnce, PillarShape
    <2> QED BY <1>0, <2>2, <2>3 DEF PillarShape
<1>6. ASSUME NEW w \in Writers, NEW g \in GroupScopes, ReadGroup(w, g) PROVE PillarShape'
    <2> DEFINE T == TopOf(g)
    <2>1. T \in Parts
        BY DEF Parts
    <2>2. ~Knows(w, T)
        BY <1>6 DEF ReadGroup, Contains, Knows
    <2>3. /\ reads' = Append(reads, <<w, T>>) /\ wstep' = wstep /\ wrote' = wrote
          /\ wstep[w] = "listing"
          /\ \A v \in Writers : listing'[v] \subseteq listing[v] \cup (IF v = w THEN {g} ELSE {})
        BY <1>6, <1>a DEF ReadGroup
    <2>4. \A v, q : Knows(v, q)' <=> Knows(v, q) \/ (v = w /\ q = T)
        BY <2>1, <2>3, ReadsAppended DEF PillarShape
    <2>5. \A h : T = TopOf(h) => h = g
        BY DEF TopOf
    <2>6. \A x : T # FileOf(x)
        BY DEF FileOf, TopOf
    <2>7. \A i, j \in 1 .. Len(reads') : reads'[i] = reads'[j] => i = j
        BY <2>1, <2>2, <2>3, AppendedOnce DEF PillarShape
    <2> HIDE DEF T
    <2>8. ReadOnce'
        BY <1>a, <2>3, <2>4, <2>5, <2>6, <2>7 DEF ReadOnce, PillarShape, T
    <2>9. WroteInv'
        BY <2>3, <2>4 DEF WroteInv, PillarShape
    <2> QED BY <1>0, <2>8, <2>9 DEF PillarShape
<1>7. ASSUME NEW w \in Writers, WriteTop(w) PROVE PillarShape'
    <2>1. \A v, q : Knows(v, q)' <=> Knows(v, q)
        BY <1>7, ReadsSame DEF WriteTop
    <2>2. \A h \in GroupScopes : Knows(w, TopOf(h))
        BY <1>7 DEF WriteTop, HasRead, Contains, Knows
    <2>3. WroteInv'
        BY <1>7, <2>1, <2>2 DEF WriteTop, Written, WroteInv, PillarShape
    <2>4. ReadOnce'
        BY <1>7, <1>a, <2>1 DEF WriteTop, HasRead, ReadOnce, PillarShape
    <2> QED BY <1>0, <2>3, <2>4 DEF PillarShape
<1>8. ASSUME NEW w \in Writers, Abandon(w) PROVE PillarShape'
    BY <1>0, <1>a, <1>8, ShapeKept DEF Abandon
<1>9. ASSUME NEW w \in Writers, DieWriting(w) PROVE PillarShape'
    BY <1>0, <1>a, <1>9, ShapeKept DEF DieWriting, HasRead
<1>10. CASE UNCHANGED pillarVars
    <2>1. \A v, q : Knows(v, q)' <=> Knows(v, q)
        BY <1>10, ReadsSame DEF pillarVars
    <2> QED
        BY <1>0, <1>10, <2>1 DEF pillarVars, PillarShape, ReadOnce, WroteInv
<1> QED
    BY <1>1, <1>2, <1>3, <1>4, <1>5, <1>6, <1>7, <1>8, <1>9, <1>10 DEF Pillar

\* Steps that forgive a part only add to what is forgiven.
LEMMA ForgivenGrows == [Pillar]_pillarVars => torn \subseteq torn' /\ late \subseteq late'
BY DEF Pillar, pillarVars, Look, CommitRow, Refresh, ReadSecrets, WriteFile, ReadGroup, WriteTop,
       Written, Abandon, DieWriting

\* A commit makes what it changes pending; a file stays behind only there.
LEMMA CommitFollows ==
    ASSUME PillarShape, FilesInv, TopInv, NEW w \in Writers, CommitRow(w)
    PROVE  FilesInv' /\ TopInv'
<1> DEFINE ok == Deletes(w) \/ (w \in exists <=> Row(w) # Absent)
<1>a. /\ wstep \in [Writers -> WriterStep] /\ wstep[w] = "looked"
      /\ secrets \in [Scopes -> [SecretKeys -> Values]]
      /\ Scope(w) \in Scopes /\ Change[w].key \in SecretKeys
    BY PillarAssumption DEF PillarShape, PillarTypes, CommitRow, Scope
<1>b. /\ file' = file /\ wrote' = wrote /\ snapshot' = snapshot /\ listing' = listing
      /\ listed' = listed /\ torn' = torn /\ late' = late /\ reads' = reads
    BY DEF CommitRow
<1>c. /\ \A v, q : Knows(v, q)' <=> Knows(v, q)
      /\ \A u, v, q : Later(u, v, q)' <=> Later(u, v, q)
    BY <1>b, ReadsSame
<1>d. \/ /\ secrets' = secrets
         /\ wstep' = [wstep EXCEPT ![w] = "failed"]
      \/ /\ secrets' = [secrets EXCEPT ![Scope(w)][Change[w].key] = Change[w].value]
         /\ wstep'[w] \in {"refreshed", "committed"}
         /\ \A v \in Writers \ {w} : wstep'[v] = wstep[v]
    BY <1>a DEF CommitRow, WriterTo
<1>e. \A v \in Writers : v # w => wstep'[v] = wstep[v]
    BY <1>a, <1>d
<1>1. ASSUME NEW x \in Scopes, NEW k \in SecretKeys
      PROVE  \/ secrets'[x][k] = secrets[x][k] /\ (RowPending(x, k) => RowPending(x, k)')
             \/ RowPending(x, k)'
    <2>1. CASE secrets'[x][k] = secrets[x][k]
        BY <1>a, <1>e, <2>1 DEF RowPending
    <2>2. CASE secrets'[x][k] # secrets[x][k]
        <3>1. /\ x = Scope(w) /\ k = Change[w].key /\ secrets'[x][k] = Change[w].value
              /\ wstep'[w] \in {"refreshed", "committed"}
            BY <1>a, <1>d, <2>2
        <3> QED BY <3>1 DEF RowPending
    <2> QED BY <2>1, <2>2
<1>2. ASSUME NEW g \in GroupScopes
      PROVE  \/ (HasSecrets(g)' <=> HasSecrets(g)) /\ (TopPending(g) => TopPending(g)')
             \/ TopPending(g)'
    <2>0. g \in Scopes
        BY DEF Scopes
    <2>1. CASE \A k \in SecretKeys : secrets'[g][k] = secrets[g][k]
        <3>1. HasSecrets(g)' <=> HasSecrets(g)
            BY <2>1 DEF HasSecrets
        <3>2. ASSUME TopPending(g) PROVE TopPending(g)'
            <4>1. PICK v \in Writers :
                    /\ Scope(v) = g /\ Change[v].value = secrets[g][Change[v].key]
                    /\ \/ wstep[v] \in {"committed", "refreshed", "read"}
                       \/ wstep[v] = "listing" /\ ~Knows(v, TopOf(g))
                BY <3>2 DEF TopPending
            <4>2. v # w /\ wstep'[v] = wstep[v] /\ Change[v].key \in SecretKeys
                BY <1>a, <1>e, <4>1, PillarAssumption
            <4>3. secrets'[g][Change[v].key] = secrets[g][Change[v].key]
                BY <2>1, <4>2
            <4> QED BY <1>c, <4>1, <4>2, <4>3 DEF TopPending
        <3> QED BY <3>1, <3>2
    <2>2. CASE \E k \in SecretKeys : secrets'[g][k] # secrets[g][k]
        <3>1. /\ g = Scope(w) /\ secrets'[g][Change[w].key] = Change[w].value
              /\ wstep'[w] \in {"refreshed", "committed"}
            BY <1>a, <1>d, <2>0, <2>2
        <3> QED BY <3>1 DEF TopPending
    <2> QED BY <2>1, <2>2
<1>3. ASSUME NEW x \in Scopes, FileFollows(x) PROVE FileFollows(x)'
    BY <1>1, <1>3, <1>a, <1>b, <1>c, <1>e, FileStays DEF PillarShape
<1>4. ASSUME NEW g \in GroupScopes, TopFollows(g) PROVE TopFollows(g)'
    BY <1>2, <1>4, <1>a, <1>b, <1>c, <1>e, TopStays DEF PillarShape
<1> QED
    BY <1>3, <1>4, <1>b DEF FilesInv, TopInv

\* Steps between the commit and the files: a request that looks, refreshes, is
\* abandoned or dies.  The row of one whose refresh fails is not its own any
\* more.
LEMMA QuietFollows ==
    ASSUME PillarShape, FilesInv, TopInv, NEW w \in Writers,
           Look(w) \/ Refresh(w) \/ Abandon(w) \/ DieWriting(w)
    PROVE  FilesInv' /\ TopInv'
<1>a. /\ wstep \in [Writers -> WriterStep]
      /\ \A v \in Writers : v # w => wstep'[v] = wstep[v]
      /\ wrote' = wrote /\ snapshot' = snapshot /\ listing' = listing
      /\ late' = late /\ reads' = reads /\ secrets' = secrets
    BY DEF Look, Refresh, Abandon, DieWriting, WriterTo, PillarShape, PillarTypes
<1>b. /\ \A v, q : Knows(v, q)' <=> Knows(v, q)
      /\ \A u, v, q : Later(u, v, q)' <=> Later(u, v, q)
    BY <1>a, ReadsSame
<1>c. torn \subseteq torn'
    BY ForgivenGrows DEF Pillar
<1>1. ASSUME NEW x \in Scopes, FileOf(x) \notin torn' PROVE file'[x] = file[x]
    <2>1. CASE file' = file
        BY <2>1
    <2>2. CASE file' # file
        <3>1. DieWriting(w) /\ wstep[w] = "read"
            BY <2>2 DEF Look, Refresh, Abandon, DieWriting
        <3>2. /\ FileOf(Scope(w)) \in torn'
              /\ \E kept \in SUBSET FileKeys :
                    file' = [file EXCEPT ![Scope(w)] =
                              [k \in FileKeys |-> IF k \in kept THEN Contents(w)[k] ELSE Absent]]
            BY <3>1 DEF DieWriting, HasRead
        <3>3. file \in [Scopes -> [FileKeys -> Values \cup {Block}]]
            BY DEF PillarShape, PillarTypes
        <3> QED BY <1>1, <3>2, <3>3
    <2> QED BY <2>1, <2>2
<1>2. ASSUME NEW g \in GroupScopes, TopOf(g) \notin torn' PROVE listed' = listed
    BY <1>2 DEF Look, Refresh, Abandon, DieWriting, HasRead
<1>3. ASSUME NEW x \in Scopes, NEW k \in SecretKeys, FileOf(x) \notin torn', RowPending(x, k)
      PROVE  RowPending(x, k)'
    <2>1. PICK v \in Writers :
            /\ Scope(v) = x /\ Change[v].key = k /\ Change[v].value = secrets[x][k]
            /\ wstep[v] \in {"committed", "refreshed"}
        BY <1>3 DEF RowPending
    <2>2. wstep'[v] \in {"committed", "refreshed"}
        <3>1. CASE v # w
            BY <1>a, <2>1, <3>1
        <3>2. CASE v = w /\ Look(w)
            BY <2>1, <3>2 DEF Look
        <3>3. CASE v = w /\ Refresh(w)
            <4>1. Row(w) # Absent
                BY <2>1, <3>3 DEF Refresh, Row, Deletes, PillarShape, ReadOnce
            <4> QED BY <1>a, <3>3, <4>1 DEF Refresh, WriterTo
        <3>4. CASE v = w /\ (Abandon(w) \/ DieWriting(w))
            <4>1. FileOf(Scope(w)) \in torn'
                BY <2>1, <3>4 DEF Abandon, DieWriting, HasRead
            <4> QED BY <1>3, <2>1, <3>4, <4>1
        <3> QED BY <3>1, <3>2, <3>3, <3>4
    <2> QED BY <1>a, <2>1, <2>2 DEF RowPending
<1>4. ASSUME NEW g \in GroupScopes, TopOf(g) \notin torn', TopPending(g) PROVE TopPending(g)'
    <2>1. PICK v \in Writers :
            /\ Scope(v) = g /\ Change[v].value = secrets[g][Change[v].key]
            /\ \/ wstep[v] \in {"committed", "refreshed", "read"}
               \/ wstep[v] = "listing" /\ ~Knows(v, TopOf(g))
        BY <1>4 DEF TopPending
    <2>2. \/ wstep'[v] \in {"committed", "refreshed", "read"}
          \/ wstep'[v] = "listing" /\ ~Knows(v, TopOf(g))
        <3>1. CASE v # w
            BY <1>a, <2>1, <3>1
        <3>2. CASE v = w /\ Look(w)
            BY <2>1, <3>2 DEF Look
        <3>3. CASE v = w /\ Refresh(w)
            <4>1. Row(w) # Absent
                BY <2>1, <3>3 DEF Refresh, Row, Deletes, PillarShape, ReadOnce
            <4> QED BY <1>a, <3>3, <4>1 DEF Refresh, WriterTo
        <3>4. CASE v = w /\ (Abandon(w) \/ DieWriting(w))
            <4>1. TopOf(Scope(w)) \in torn'
                BY <1>4, <2>1, <3>4 DEF Abandon, DieWriting, HasRead
            <4> QED BY <1>4, <2>1, <3>4, <4>1
        <3> QED BY <3>1, <3>2, <3>3, <3>4
    <2> QED BY <1>a, <1>b, <2>1, <2>2 DEF TopPending
<1>5. ASSUME NEW x \in Scopes, FileOf(x) \notin torn' \cup late', FileFollows(x)
      PROVE  FileFollows(x)'
    <2>1. ASSUME NEW v \in Writers, Knows(v, FileOf(x)), wstep[v] = "read"
          PROVE  wstep'[v] = "read"
        <3>1. x = Scope(v)
            BY <2>1 DEF PillarShape, ReadOnce
        <3>2. CASE v # w
            BY <1>a, <2>1, <3>2
        <3>3. CASE v = w
            BY <1>5, <2>1, <3>1, <3>3 DEF Look, Refresh, Abandon, DieWriting, HasRead
        <3> QED BY <3>2, <3>3
    <2> QED
        BY <1>1, <1>3, <1>5, <1>a, <1>b, <2>1, FileStays DEF PillarShape
<1>6. ASSUME NEW g \in GroupScopes, TopOf(g) \notin torn' \cup late', TopFollows(g)
      PROVE  TopFollows(g)'
    <2>1. ASSUME NEW v \in Writers, Scope(v) = g, wstep[v] = "listing"
          PROVE  wstep'[v] = "listing"
        <3>1. CASE v # w
            BY <1>a, <2>1, <3>1
        <3>2. CASE v = w
            BY <1>6, <2>1, <3>2 DEF Look, Refresh, Abandon, DieWriting, HasRead
        <3> QED BY <3>1, <3>2
    <2>2. HasSecrets(g)' <=> HasSecrets(g)
        BY <1>a DEF HasSecrets
    <2> QED
        BY <1>2, <1>4, <1>6, <1>a, <1>b, <2>1, <2>2, TopStays DEF PillarShape
<1> QED
    BY <1>5, <1>6, <1>a, <1>c DEF FilesInv, TopInv

\* A request that reads its rows becomes the last reader of its file, and
\* knows them all.
LEMMA ReadFollows ==
    ASSUME PillarShape, FilesInv, TopInv, NEW w \in Writers, ReadSecrets(w)
    PROVE  FilesInv' /\ TopInv'
<1> DEFINE s == Scope(w)
           F == FileOf(s)
<1>a. /\ wstep \in [Writers -> WriterStep] /\ snapshot \in [Writers -> [SecretKeys -> Values]]
      /\ wstep[w] = "refreshed" /\ wstep'[w] = "read"
      /\ \A v \in Writers : v # w => wstep'[v] = wstep[v] /\ snapshot'[v] = snapshot[v]
      /\ snapshot'[w] = secrets[s]
      /\ wrote' = wrote /\ file' = file /\ listing' = listing /\ listed' = listed
      /\ torn' = torn /\ late' = late /\ secrets' = secrets
      /\ reads' = Append(reads, <<w, F>>)
    BY DEF ReadSecrets, WriterTo, PillarShape, PillarTypes
<1>b. s \in Scopes /\ F \in Parts
    BY PillarAssumption DEF Scope, Parts
<1>c. /\ \A v, q : Knows(v, q)' <=> Knows(v, q) \/ (v = w /\ q = F)
      /\ \A u, v, q : Later(u, v, q)' <=> Later(u, v, q) \/ (v = w /\ q = F /\ Knows(u, q))
    BY <1>a, <1>b, ReadsAppended DEF PillarShape
<1>d. /\ \A x : x # s => F # FileOf(x)
      /\ \A g : F # TopOf(g)
    BY DEF FileOf, TopOf
<1>e. ~Knows(w, F)
    BY <1>a, <1>b DEF PillarShape, ReadOnce
<1> HIDE DEF s, F
<1>1. ASSUME NEW x \in Scopes, x # s, FileFollows(x) PROVE FileFollows(x)'
    <2>1. \A k \in SecretKeys : RowPending(x, k) => RowPending(x, k)'
        BY <1>1, <1>a DEF RowPending, s
    <2>2. \A v \in Writers : Knows(v, FileOf(x)) => v # w
        BY <1>1 DEF PillarShape, ReadOnce, s
    <2> QED
        BY <1>1, <1>a, <1>c, <1>d, <2>1, <2>2, FileStays DEF PillarShape
<1>2. ASSUME FileFollows(s) PROVE FileFollows(s)'
    <2>1. ASSUME NEW v \in Writers, NEW k \in SecretKeys, Knows(v, F)',
                 \A u \in Writers : ~Later(v, u, F)'
          PROVE  snapshot'[v][k] = secrets'[s][k]
        <3>1. v = w
            BY <1>c, <2>1
        <3> QED BY <1>a, <3>1
    <2>2. \E v \in Writers : Knows(v, F)'
        BY <1>c
    <2>3. Unwritten(F)' \/ \E v \in Writers : LastWriter(v, F)' /\ FileSays(s, snapshot[v])'
        <3>1. CASE Unwritten(F)
            BY <1>a, <3>1 DEF Unwritten
        <3>2. CASE ~Unwritten(F)
            <4>1. PICK v \in Writers : LastWriter(v, F) /\ FileSays(s, snapshot[v])
                BY <1>2, <3>2 DEF FileFollows, F
            <4>2. v # w /\ <<w, F>> \notin wrote
                BY <1>b, <1>e, <4>1 DEF LastWriter, PillarShape, WroteInv
            <4>3. LastWriter(v, F)'
                BY <1>a, <1>c, <4>1, <4>2 DEF LastWriter
            <4>4. FileSays(s, snapshot[v])'
                BY <1>a, <4>1, <4>2 DEF FileSays
            <4> QED BY <4>3, <4>4
        <3> QED BY <3>1, <3>2
    <2>4. \A v \in Writers : Knows(v, F)' /\ <<v, F>> \notin wrote' => wstep'[v] = "read"
        BY <1>2, <1>a, <1>c DEF FileFollows, F
    <2>5. s \in NodeScopes => file'[s][Block] = Block
        BY <1>2, <1>a DEF FileFollows
    <2> QED
        BY <2>1, <2>2, <2>3, <2>4, <2>5 DEF FileFollows, F
<1>3. ASSUME NEW g \in GroupScopes, TopFollows(g) PROVE TopFollows(g)'
    <2>1. HasSecrets(g)' <=> HasSecrets(g)
        BY <1>a DEF HasSecrets
    <2>2. TopPending(g) => TopPending(g)'
        BY <1>a, <1>c, <1>d DEF TopPending
    <2>3. \A v \in Writers : wstep[v] = "listing" => wstep'[v] = "listing"
        BY <1>a
    <2> QED
        BY <1>3, <1>a, <1>c, <1>d, <2>1, <2>2, <2>3, TopStays DEF PillarShape
<1> QED
    BY <1>1, <1>2, <1>3, <1>a DEF FilesInv, TopInv

\* A request that writes its file before all who read it later becomes the
\* last writer; the file says what it knows.
LEMMA WriteFileFollows ==
    ASSUME PillarShape, FilesInv, TopInv, NEW w \in Writers, WriteFile(w)
    PROVE  FilesInv' /\ TopInv'
<1> DEFINE s == Scope(w)
           F == FileOf(s)
<1>a. /\ wstep \in [Writers -> WriterStep]
      /\ file \in [Scopes -> [FileKeys -> Values \cup {Block}]]
      /\ wstep[w] = "read" /\ wstep'[w] = IF s \in GroupScopes THEN "listing" ELSE "done"
      /\ \A v \in Writers : v # w => wstep'[v] = wstep[v]
      /\ wrote' = wrote \cup {<<w, F>>} /\ late' = late \cup Overtaken(w, {F})
      /\ file' = [file EXCEPT ![s] = Contents(w)]
      /\ snapshot' = snapshot /\ listing' = listing /\ listed' = listed
      /\ torn' = torn /\ secrets' = secrets /\ reads' = reads
    BY DEF WriteFile, Written, WriterTo, PillarShape, PillarTypes
<1>b. s \in Scopes /\ F \in Parts /\ Knows(w, F)
    BY <1>a, PillarAssumption DEF Scope, Parts, PillarShape, ReadOnce
<1>c. /\ \A v, q : Knows(v, q)' <=> Knows(v, q)
      /\ \A u, v, q : Later(u, v, q)' <=> Later(u, v, q)
    BY <1>a, ReadsSame
<1>d. /\ \A x : x # s => F # FileOf(x)
      /\ \A g : F # TopOf(g)
    BY DEF FileOf, TopOf
<1>e. \A g \in GroupScopes : ~Knows(w, TopOf(g))
    BY <1>a DEF PillarShape, ReadOnce
<1>f. /\ \A k \in SecretKeys : s \in GroupScopes \/ snapshot[w][k] # Absent
                                 => Contents(w)[k] = snapshot[w][k]
      /\ s \in NodeScopes => Contents(w)[Block] = file[s][Block]
    BY PillarAssumption DEF Contents, FileKeys, s
<1> HIDE DEF s, F
<1>1. ASSUME NEW x \in Scopes, x # s, FileFollows(x) PROVE FileFollows(x)'
    <2>1. \A k \in SecretKeys : RowPending(x, k) => RowPending(x, k)'
        BY <1>1, <1>a DEF RowPending, s
    <2>2. \A v \in Writers : Knows(v, FileOf(x)) => v # w
        BY <1>1 DEF PillarShape, ReadOnce, s
    <2>3. \A v \in Writers : <<v, FileOf(x)>> \in wrote' <=> <<v, FileOf(x)>> \in wrote
        BY <1>1, <1>a, <1>d
    <2>4. file'[x] = file[x]
        BY <1>1, <1>a
    <2> QED
        BY <1>1, <1>a, <1>c, <2>1, <2>2, <2>3, <2>4, FileStays DEF PillarShape
<1>2. ASSUME FileFollows(s), F \notin late' PROVE FileFollows(s)'
    <2>1. ASSUME NEW v \in Writers, NEW k \in SecretKeys, Knows(v, F)',
                 \A u \in Writers : ~Later(v, u, F)'
          PROVE  snapshot'[v][k] = secrets'[s][k] \/ RowPending(s, k)'
        <3>1. snapshot[v][k] = secrets[s][k] \/ RowPending(s, k)
            BY <1>2, <1>c, <2>1 DEF FileFollows, F
        <3>2. RowPending(s, k) => RowPending(s, k)'
            BY <1>a DEF RowPending
        <3> QED BY <1>a, <3>1, <3>2
    <2>2. \E v \in Writers : Knows(v, F)'
        BY <1>b, <1>c
    <2>3. LastWriter(w, F)'
        <3>1. \A v \in Writers : Later(w, v, F) => <<v, F>> \notin wrote /\ v # w
            BY <1>2, <1>a, NotOvertaken, LaterKnows DEF PillarShape
        <3> QED BY <1>a, <1>c, <3>1 DEF LastWriter
    <2>4. FileSays(s, snapshot[w])'
        BY <1>a, <1>b, <1>f DEF FileSays
    <2>5. \A v \in Writers : Knows(v, F)' /\ <<v, F>> \notin wrote' => wstep'[v] = "read"
        BY <1>2, <1>a, <1>c DEF FileFollows, F
    <2>6. s \in NodeScopes => file'[s][Block] = Block
        BY <1>2, <1>a, <1>b, <1>f DEF FileFollows
    <2> QED
        BY <2>1, <2>2, <2>3, <2>4, <2>5, <2>6 DEF FileFollows, F
<1>3. ASSUME NEW g \in GroupScopes, TopFollows(g) PROVE TopFollows(g)'
    <2>1. HasSecrets(g)' <=> HasSecrets(g)
        BY <1>a DEF HasSecrets
    <2>2. TopPending(g) => TopPending(g)'
        BY <1>a, <1>c, <1>e DEF TopPending, s
    <2>3. \A v \in Writers : wstep[v] = "listing" => wstep'[v] = "listing"
        BY <1>a
    <2>4. \A v \in Writers : <<v, TopOf(g)>> \in wrote' <=> <<v, TopOf(g)>> \in wrote
        BY <1>a, <1>d
    <2> QED
        BY <1>3, <1>a, <1>c, <2>1, <2>2, <2>3, <2>4, TopStays DEF PillarShape
<1> QED
    BY <1>1, <1>2, <1>3, <1>a DEF FilesInv, TopInv, F

\* A request that asks whether a group has secrets knows it; if it is one that
\* changed the group, those that read the list before it no longer matter.
LEMMA ReadGroupFollows ==
    ASSUME PillarShape, FilesInv, TopInv, NEW w \in Writers, NEW h \in GroupScopes,
           ReadGroup(w, h)
    PROVE  FilesInv' /\ TopInv'
<1> DEFINE T == TopOf(h)
<1>a. /\ listing \in [Writers -> SUBSET GroupScopes] /\ wstep[w] = "listing"
      /\ wstep' = wstep /\ wrote' = wrote /\ file' = file /\ snapshot' = snapshot
      /\ listed' = listed /\ torn' = torn /\ late' = late /\ secrets' = secrets
      /\ reads' = Append(reads, <<w, T>>)
    BY DEF ReadGroup, PillarShape, PillarTypes
<1>b. T \in Parts
    BY DEF Parts
<1>c. /\ \A v, q : Knows(v, q)' <=> Knows(v, q) \/ (v = w /\ q = T)
      /\ \A u, v, q : Later(u, v, q)' <=> Later(u, v, q) \/ (v = w /\ q = T /\ Knows(u, q))
    BY <1>a, <1>b, ReadsAppended DEF PillarShape
<1>d. /\ \A x : T # FileOf(x)
      /\ \A g : g # h => T # TopOf(g)
    BY DEF FileOf, TopOf
<1>e. ~Knows(w, T) /\ h \notin listing[w]
    <2>1. ~Knows(w, T)
        BY DEF ReadGroup, Contains, Knows
    <2> QED BY <2>1 DEF PillarShape, ReadOnce
<1>f. /\ h \in listing'[w] <=> HasSecrets(h)
      /\ \A g \in GroupScopes : g # h => (g \in listing'[w] <=> g \in listing[w])
      /\ \A v \in Writers : v # w => listing'[v] = listing[v]
    BY <1>a, <1>e DEF ReadGroup
<1>g. \A g : HasSecrets(g)' <=> HasSecrets(g)
    BY <1>a DEF HasSecrets
<1> HIDE DEF T
<1>1. ASSUME NEW x \in Scopes, FileFollows(x) PROVE FileFollows(x)'
    <2>1. \A k \in SecretKeys : RowPending(x, k) => RowPending(x, k)'
        BY <1>a DEF RowPending
    <2> QED
        BY <1>1, <1>a, <1>c, <1>d, <2>1, FileStays DEF PillarShape
<1>2. ASSUME NEW g \in GroupScopes, g # h, TopFollows(g) PROVE TopFollows(g)'
    <2>1. TopPending(g) => TopPending(g)'
        BY <1>2, <1>a, <1>c, <1>d DEF TopPending
    <2>2. \A v \in Writers : g \in listing'[v] <=> g \in listing[v]
        BY <1>2, <1>f
    <2> QED
        BY <1>2, <1>a, <1>c, <1>d, <1>g, <2>1, <2>2, TopStays DEF PillarShape
<1>3. ASSUME TopFollows(h) PROVE TopFollows(h)'
    <2>1. Scope(w) # h => (TopPending(h) => TopPending(h)')
        BY <1>a, <1>c, <1>d DEF TopPending
    <2>2. ASSUME NEW v \in Writers, Knows(v, T)', Fresh(v, h)'
          PROVE  (h \in listing'[v] <=> HasSecrets(h)') \/ TopPending(h)'
        <3>1. CASE v = w
            BY <1>f, <1>g, <3>1
        <3>2. CASE v # w
            <4>1. Knows(v, T) /\ Fresh(v, h) /\ Scope(w) # h
                BY <1>c, <2>2, <3>2 DEF Fresh, T
            <4>2. (h \in listing[v] <=> HasSecrets(h)) \/ TopPending(h)
                BY <1>3, <4>1 DEF TopFollows, T
            <4> QED BY <1>f, <1>g, <2>1, <3>2, <4>1, <4>2
        <3> QED BY <3>1, <3>2
    <2>3. ASSUME Unwritten(T)', \A v \in Writers : Knows(v, T)' => Scope(v) # h
          PROVE  (h \in listed' <=> HasSecrets(h)') \/ TopPending(h)'
        <3>1. Unwritten(T) /\ Scope(w) # h /\ \A v \in Writers : Knows(v, T) => Scope(v) # h
            BY <1>a, <1>c, <2>3 DEF Unwritten
        <3>2. (h \in listed <=> HasSecrets(h)) \/ TopPending(h)
            BY <1>3, <3>1 DEF TopFollows, T
        <3> QED BY <1>a, <1>g, <2>1, <3>1, <3>2
    <2>4. \/ Unwritten(T)'
          \/ \E v \in Writers : LastWriter(v, T)' /\ (h \in listed' <=> h \in listing'[v])
        <3>1. CASE Unwritten(T)
            BY <1>a, <3>1 DEF Unwritten
        <3>2. CASE ~Unwritten(T)
            <4>1. PICK v \in Writers : LastWriter(v, T) /\ (h \in listed <=> h \in listing[v])
                BY <1>3, <3>2 DEF TopFollows, T
            <4>2. v # w /\ <<w, T>> \notin wrote
                BY <1>b, <1>e, <4>1 DEF LastWriter, PillarShape, WroteInv
            <4>3. LastWriter(v, T)'
                BY <1>a, <1>c, <4>1, <4>2 DEF LastWriter
            <4> QED BY <1>a, <1>f, <4>1, <4>2, <4>3
        <3> QED BY <3>1, <3>2
    <2>5. \A v \in Writers :
            Scope(v) = h /\ Knows(v, T)' /\ <<v, T>> \notin wrote' => wstep'[v] = "listing"
        BY <1>3, <1>a, <1>c DEF TopFollows, T
    <2> QED
        BY <2>2, <2>3, <2>4, <2>5 DEF TopFollows, Unwritten, T
<1> QED
    BY <1>1, <1>2, <1>3, <1>a DEF FilesInv, TopInv

\* A request that writes the list of groups before all who read it later
\* becomes its last writer.
LEMMA WriteTopFollows ==
    ASSUME PillarShape, FilesInv, TopInv, NEW w \in Writers, WriteTop(w)
    PROVE  FilesInv' /\ TopInv'
<1> DEFINE tops == {TopOf(g) : g \in GroupScopes}
<1>a. /\ wstep \in [Writers -> WriterStep] /\ wstep[w] = "listing"
      /\ \A v \in Writers : v # w => wstep'[v] = wstep[v]
      /\ wrote' = wrote \cup {<<w, q>> : q \in tops} /\ late' = late \cup Overtaken(w, tops)
      /\ listed' = listing[w] /\ file' = file /\ snapshot' = snapshot /\ listing' = listing
      /\ torn' = torn /\ secrets' = secrets /\ reads' = reads
    BY DEF WriteTop, HasRead, Written, WriterTo, PillarShape, PillarTypes
<1>b. \A g \in GroupScopes : TopOf(g) \in tops /\ Knows(w, TopOf(g))
    BY DEF WriteTop, HasRead, Contains, Knows
<1>c. /\ \A v, q : Knows(v, q)' <=> Knows(v, q)
      /\ \A u, v, q : Later(u, v, q)' <=> Later(u, v, q)
    BY <1>a, ReadsSame
<1>d. \A x : FileOf(x) \notin tops
    BY DEF FileOf, TopOf
<1>e. \A g : HasSecrets(g)' <=> HasSecrets(g)
    BY <1>a DEF HasSecrets
<1> HIDE DEF tops
<1>1. ASSUME NEW x \in Scopes, FileFollows(x) PROVE FileFollows(x)'
    <2>1. \A k \in SecretKeys : RowPending(x, k) => RowPending(x, k)'
        BY <1>a DEF RowPending
    <2>2. \A v \in Writers : <<v, FileOf(x)>> \in wrote' <=> <<v, FileOf(x)>> \in wrote
        BY <1>a, <1>d
    <2>3. \A v \in Writers : wstep[v] = "read" => wstep'[v] = "read"
        BY <1>a
    <2> QED
        BY <1>1, <1>a, <1>c, <2>1, <2>2, <2>3, FileStays DEF PillarShape
<1>2. ASSUME NEW g \in GroupScopes, TopFollows(g), TopOf(g) \notin late' PROVE TopFollows(g)'
    <2> DEFINE T == TopOf(g)
    <2>a. T \in tops /\ Knows(w, T) /\ T \notin Overtaken(w, tops)
        BY <1>2, <1>a, <1>b
    <2>b. TopPending(g) => TopPending(g)'
        BY <1>a, <1>b, <1>c DEF TopPending
    <2> HIDE DEF T
    <2>1. ASSUME NEW v \in Writers, Knows(v, T)', Fresh(v, g)'
          PROVE  (g \in listing'[v] <=> HasSecrets(g)') \/ TopPending(g)'
        <3>1. Knows(v, T) /\ Fresh(v, g)
            BY <1>c, <2>1 DEF Fresh
        <3> QED BY <1>2, <1>a, <1>e, <2>b, <3>1 DEF TopFollows, T
    <2>2. <<w, T>> \in wrote'
        BY <1>a, <2>a
    <2>3. LastWriter(w, T)'
        <3>1. \A v \in Writers : Later(w, v, T) => <<v, T>> \notin wrote /\ v # w
            BY <2>a, NotOvertaken, LaterKnows DEF PillarShape
        <3> QED BY <1>a, <1>c, <2>2, <3>1 DEF LastWriter
    <2>4. g \in listed' <=> g \in listing'[w]
        BY <1>a
    <2>5. ASSUME NEW v \in Writers, Scope(v) = g, Knows(v, T)', <<v, T>> \notin wrote'
          PROVE  wstep'[v] = "listing"
        <3>1. v # w
            BY <2>2, <2>5
        <3> QED BY <1>2, <1>a, <1>c, <2>5, <3>1 DEF TopFollows, T
    <2> QED
        BY <2>1, <2>2, <2>3, <2>4, <2>5 DEF TopFollows, Unwritten, T
<1> QED
    BY <1>1, <1>2, <1>a DEF FilesInv, TopInv

\* Only these requests ever do anything.
LEMMA OthersIdleStep == PillarTypes /\ OthersIdle /\ [Pillar]_pillarVars => OthersIdle'
BY DEF Pillar, pillarVars, PillarTypes, OthersIdle, Look, CommitRow, Refresh, ReadSecrets, WriteFile,
       ReadGroup, WriteTop, HasRead, Abandon, DieWriting, WriterTo

\* Files and rows begin so.
LEMMA PillarInit == ASSUME NEW who, InitPillar(who) PROVE PillarInv
<1> USE DEF InitPillar
<1>1. /\ secrets \in [Scopes -> [SecretKeys -> {Old, Absent}]]
      /\ reads = <<>> /\ wrote = {}
      /\ wstep = [w \in Writers |-> "idle"] /\ listing = [w \in Writers |-> {}]
      /\ snapshot = [w \in Writers |-> [k \in SecretKeys |-> Absent]]
      /\ file = [x \in Scopes |-> [k \in FileKeys |->
                  IF k \in SecretKeys THEN secrets[x][k]
                  ELSE IF x \in NodeScopes THEN Block ELSE Absent]]
      /\ listed = {g \in GroupScopes : HasSecrets(g)}
    OBVIOUS
<1> HIDE DEF InitPillar
<1>2. PillarTypes
    <2>1. secrets \in [Scopes -> [SecretKeys -> Values]]
        BY <1>1 DEF Values
    <2>2. file \in [Scopes -> [FileKeys -> Values \cup {Block}]]
        BY <1>1, <2>1 DEF Values
    <2>3. snapshot \in [Writers -> [SecretKeys -> Values]]
        BY <1>1 DEF Values
    <2> QED BY <1>1, <2>1, <2>2, <2>3 DEF PillarTypes, WriterStep
<1>3. \A w, q : ~Knows(w, q)
    BY <1>1 DEF Knows
<1>4. ReadOnce /\ WroteInv
    BY <1>1, <1>3 DEF ReadOnce, WroteInv
<1>5. \A q : Unwritten(q)
    BY <1>1 DEF Unwritten
<1>6. FilesInv
    <2>1. \A x \in Scopes, k \in SecretKeys : file[x][k] = secrets[x][k]
        BY <1>1 DEF FileKeys
    <2>2. \A x \in NodeScopes : file[x][Block] = Block
        BY <1>1, PillarAssumption DEF FileKeys, Scopes
    <2> QED BY <1>3, <1>5, <2>1, <2>2 DEF FilesInv, FileFollows
<1>7. TopInv
    BY <1>1, <1>3, <1>5 DEF TopInv, TopFollows
<1>8. OthersIdle
    BY <1>1 DEF OthersIdle
<1> QED BY <1>2, <1>4, <1>6, <1>7, <1>8 DEF PillarInv

\* Every behaviour keeps files and rows together so.
LEMMA PillarInvariant == Spec => []PillarInv
<1>1. Init => PillarInv
    BY PillarInit DEF Init
<1>2. PillarInv /\ [Pillar]_pillarVars => PillarInv'
    <2> SUFFICES ASSUME PillarInv, [Pillar]_pillarVars PROVE PillarInv'
        OBVIOUS
    <2>1. PillarShape' /\ OthersIdle'
        BY PillarShapeStep, OthersIdleStep DEF PillarInv, PillarShape
    <2>2. CASE Pillar
        <3>1. FilesInv' /\ TopInv'
            BY <2>2, CommitFollows, QuietFollows, ReadFollows, WriteFileFollows,
               ReadGroupFollows, WriteTopFollows DEF Pillar, PillarInv, PillarShape
        <3> QED BY <2>1, <3>1 DEF PillarInv, PillarShape
    <2>3. CASE UNCHANGED pillarVars
        <3>1. /\ \A v, q : Knows(v, q)' <=> Knows(v, q)
              /\ \A u, v, q : Later(u, v, q)' <=> Later(u, v, q)
            BY <2>3, ReadsSame DEF pillarVars
        <3>2. \A x \in Scopes, k \in SecretKeys : RowPending(x, k) => RowPending(x, k)'
            BY <2>3 DEF pillarVars, RowPending
        <3>3. \A g : (TopPending(g) => TopPending(g)') /\ (HasSecrets(g)' <=> HasSecrets(g))
            BY <2>3, <3>1 DEF pillarVars, TopPending, HasSecrets
        <3>4. \A x \in Scopes : FileFollows(x) => FileFollows(x)'
            BY <2>3, <3>1, <3>2, FileStays DEF pillarVars, PillarInv
        <3>5. \A g \in GroupScopes : TopFollows(g) => TopFollows(g)'
            BY <2>3, <3>1, <3>3, TopStays DEF pillarVars, PillarInv
        <3>6. FilesInv' /\ TopInv'
            BY <2>3, <3>4, <3>5 DEF pillarVars, PillarInv, FilesInv, TopInv
        <3> QED BY <2>1, <3>6 DEF PillarInv, PillarShape
    <2> QED BY <2>2, <2>3
<1> QED
    BY <1>1, <1>2, Separate, PTL DEF Spec

\* When the requests of node_secrets_svc.py and group_secrets_svc.py are over,
\* every pillar file and top.sls say what the rows say, however the requests
\* overlapped, but for the parts that one of them left torn or overwrote with
\* what it had read before another one that has written them.
THEOREM FilesFollowRows == Spec => []PillarFollows
<1>1. PillarInv => PillarFollows
    <2> SUFFICES ASSUME PillarInv, \A w \in writing : wstep[w] \in Ended
                 PROVE  PillarFollows
        BY DEF PillarFollows
    <2>0. \A w \in Writers : wstep[w] \notin {"committed", "refreshed", "read", "listing"}
        BY DEF PillarInv, OthersIdle, Ended
    <2>1. \A x, k : ~RowPending(x, k)
        BY <2>0 DEF RowPending
    <2>2. \A g : ~TopPending(g)
        BY <2>0 DEF TopPending
    <2>3. ASSUME NEW x \in Scopes, FileOf(x) \notin torn \cup late
          PROVE  /\ \A k \in SecretKeys :
                      x \in GroupScopes \/ secrets[x][k] # Absent => file[x][k] = secrets[x][k]
                 /\ x \in NodeScopes => file[x][Block] = Block
        <3> DEFINE F == FileOf(x)
        <3>1. FileFollows(x) /\ F \in Parts
            BY <2>3 DEF PillarInv, FilesInv, Parts
        <3>2. \A w \in Writers : Knows(w, F) => <<w, F>> \in wrote
            BY <2>0, <3>1 DEF FileFollows
        <3>3. CASE Unwritten(F)
            BY <2>1, <3>1, <3>2, <3>3 DEF FileFollows, Unwritten
        <3>4. CASE ~Unwritten(F)
            <4>1. PICK w \in Writers : LastWriter(w, F) /\ FileSays(x, snapshot[w])
                BY <3>1, <3>4 DEF FileFollows
            <4>2. Knows(w, F) /\ \A v \in Writers : ~Later(w, v, F)
                BY <3>1, <3>2, <4>1, LaterKnows DEF LastWriter, PillarInv, WroteInv
            <4>3. \A k \in SecretKeys : snapshot[w][k] = secrets[x][k]
                BY <2>1, <3>1, <4>2 DEF FileFollows
            <4> QED BY <3>1, <4>1, <4>3 DEF FileSays, FileFollows
        <3> QED BY <3>3, <3>4
    <2>4. ASSUME NEW g \in GroupScopes, TopOf(g) \notin torn \cup late
          PROVE  g \in listed <=> HasSecrets(g)
        <3> DEFINE T == TopOf(g)
        <3>1. TopFollows(g) /\ T \in Parts
            BY <2>4 DEF PillarInv, TopInv, Parts
        <3>2. \A w \in Writers : Scope(w) = g /\ Knows(w, T) => <<w, T>> \in wrote
            BY <2>0, <3>1 DEF TopFollows
        <3>3. CASE Unwritten(T)
            BY <2>2, <3>1, <3>2, <3>3 DEF TopFollows, Unwritten
        <3>4. CASE ~Unwritten(T)
            <4>1. PICK w \in Writers : LastWriter(w, T) /\ (g \in listed <=> g \in listing[w])
                BY <3>1, <3>4 DEF TopFollows
            <4>2. Knows(w, T) /\ Fresh(w, g)
                BY <3>1, <3>2, <4>1, LaterKnows DEF LastWriter, Fresh, PillarInv, WroteInv
            <4> QED BY <2>2, <3>1, <4>1, <4>2 DEF TopFollows
        <3> QED BY <3>3, <3>4
    <2> QED BY <2>3, <2>4 DEF PillarFollows
<1> QED
    BY <1>1, PillarInvariant, PTL
=============================================================================
