---------------------------- MODULE DriftCompute ----------------------------
(***************************************************************************)
(* From the grains of a node to its drift score: ingest_grains of          *)
(* api/routes/ingest.py, the Celery task compute_drift of                  *)
(* workers/drift_tasks.py and the lock services/task_lock.py puts around   *)
(* it.                                                                     *)
(*                                                                         *)
(* Nodes share nothing but baselines: the module follows one node, and of  *)
(* the baselines the one find_baseline_for_node_sync chooses for it.       *)
(* A fact is named by the request that stored it, and so is the task a     *)
(* request sends.  The lock is the Redis key task_lock:compute_drift:      *)
(* <node>; the code writes "1" into it, the model the task that set it.    *)
(***************************************************************************)
EXTENDS DriftEngine

CONSTANTS
    Requests,       \* POST /ingest/grains of the node or /drift/<node>/compute
    Grains,         \* what the node may report
    DesiredStates,  \* what a baseline may hold
    MaxRetries,     \* max_retries of the task
    MaxLosses,      \* bound: workers lost
    MaxEdits        \* bound: changes of the baseline

ASSUME RequestsAssumption == IsFiniteSet(Requests)
ASSUME DataAssumption ==
    (\A g \in Grains : IsGrains(g)) /\ (\A d \in DesiredStates : IsDesiredState(d))
ASSUME LimitsAssumption ==
    MaxRetries \in Nat /\ MaxLosses \in Nat /\ MaxEdits \in Nat

VARIABLES
    request,     \* step of each ingest request
    collected,   \* collected_at of the fact of each request, 0 before it
    report,      \* the grains each request carries
    desired,     \* the desired state of the node's baseline, {} if it has none
    edits,       \* changes of it, to bound them
    nodeScore,   \* nodes.drift_score
    newest,      \* the newest drift record, {} if there is none
    lock,        \* the task that set the key, {} if it is not set
    pc,          \* step of each task
    tries,       \* retries of each task
    losses,      \* workers lost, to bound them
    seen,        \* the fact a task read
    loaded,      \* the drift_score of the node as the task's session read it
    result,      \* the drift record a task is about to add
    missed,      \* history: a computation that was asked for was not made
    lapsed       \* history: the key expired under a task that was running

requestVars == <<request, collected, report>>
baselineVars == <<desired, edits>>
rowVars == <<nodeScore, newest>>
taskVars == <<pc, tries, losses>>
localVars == <<seen, loaded, result>>
vars == <<requestVars, baselineVars, rowVars, lock, taskVars, localVars, missed, lapsed>>

RequestStep == {"idle", "stamped", "committed", "done", "unsent", "failed", "asked"}

\* Between the acquisition of the lock and the end of the finally block.
Section == {"locked", "read", "computed", "returned", "raised"}
TaskStep == {"none", "queued", "done", "failed"} \cup Section

Record == [fact : Requests, against : DesiredStates, score : 0 .. 100]

Goto(t, l) == pc' = [pc EXCEPT ![t] = l]

\* What a task has read ends with its call.
Forget(t) ==
    /\ seen' = [seen EXCEPT ![t] = {}]
    /\ loaded' = [loaded EXCEPT ![t] = 0]
    /\ result' = [result EXCEPT ![t] = {}]

\* The facts that are committed, and the one with the latest collected_at.
Stored == {r \in Requests : request[r] \in {"committed", "done", "unsent"}}

Latest == CHOOSE r \in Stored : \A q \in Stored : collected[q] <= collected[r]

-----------------------------------------------------------------------------
(* ingest_grains and trigger_drift_compute                                 *)

Stamped == {r \in Requests : collected[r] # 0}

\* Token and rate limit are passed; the fact gets its time.
Stamp(r) ==
    /\ request[r] = "idle"
    /\ request' = [request EXCEPT ![r] = "stamped"]
    /\ collected' = [collected EXCEPT ![r] = Cardinality(Stamped) + 1]
    /\ UNCHANGED <<report, baselineVars, rowVars, lock, taskVars, localVars, missed, lapsed>>

CommitFact(r) ==
    /\ request[r] = "stamped"
    /\ request' = [request EXCEPT ![r] = "committed"]
    /\ UNCHANGED <<collected, report, baselineVars, rowVars, lock, taskVars, localVars,
                   missed, lapsed>>

SendTask(r) ==
    /\ request[r] = "committed"
    /\ request' = [request EXCEPT ![r] = "done"]
    /\ Goto(r, "queued")
    /\ UNCHANGED <<collected, report, baselineVars, rowVars, lock, tries, losses,
                   localVars, missed, lapsed>>

\* The request fails, or its process dies: the fact is rolled back, or
\* stays without a computation.
IngestFails(r) ==
    /\ \/ /\ request[r] = "stamped"
          /\ request' = [request EXCEPT ![r] = "failed"]
          /\ UNCHANGED missed
       \/ /\ request[r] = "committed"
          /\ request' = [request EXCEPT ![r] = "unsent"]
          /\ missed' = TRUE
    /\ UNCHANGED <<collected, report, baselineVars, rowVars, lock, taskVars, localVars, lapsed>>

\* An operator asks for a computation.
Trigger(r) ==
    /\ request[r] = "idle"
    /\ request' = [request EXCEPT ![r] = "asked"]
    /\ Goto(r, "queued")
    /\ UNCHANGED <<collected, report, baselineVars, rowVars, lock, tries, losses, localVars,
                   missed, lapsed>>

-----------------------------------------------------------------------------
(* The baseline                                                            *)

\* POST or PATCH of a baseline, or a move of the node into a group with one.
\* No computation is queued.
WriteBaseline(d) ==
    /\ edits < MaxEdits
    /\ edits' = edits + 1
    /\ desired' = {d}
    /\ UNCHANGED <<requestVars, rowVars, lock, taskVars, localVars, missed, lapsed>>

-----------------------------------------------------------------------------
(* compute_drift, inside unique_task                                       *)

\* MUTANT of AcquireLock: SET without NX.
AcquireLockAnyway(t) ==
    /\ pc[t] = "queued"
    /\ lock' = {t}
    /\ Goto(t, "locked")
    /\ UNCHANGED <<requestVars, baselineVars, rowVars, tries, losses, localVars, missed,
                   lapsed>>

AcquireLock(t) ==
    /\ pc[t] = "queued"
    /\ lock = {}
    /\ lock' = {t}
    /\ Goto(t, "locked")
    /\ UNCHANGED <<requestVars, baselineVars, rowVars, tries, losses, localVars, missed,
                   lapsed>>

\* The key is set: the task returns at once, and its message is
\* acknowledged, whoever set the key and whatever has been read under it.
SkipDuplicate(t) ==
    /\ pc[t] = "queued"
    /\ lock # {}
    /\ Goto(t, "done")
    /\ missed' = TRUE
    /\ UNCHANGED <<requestVars, baselineVars, rowVars, lock, tries, losses, localVars, lapsed>>

\* MUTANT of ReadFact: .desc() is forgotten.
ReadFactOldest(t) ==
    /\ pc[t] = "locked"
    /\ IF Stored = {}
       THEN Goto(t, "returned") /\ UNCHANGED seen
       ELSE /\ \E r \in Stored : /\ \A q \in Stored : collected[r] <= collected[q]
                                 /\ seen' = [seen EXCEPT ![t] = {r}]
            /\ Goto(t, "read")
    /\ UNCHANGED <<requestVars, baselineVars, rowVars, lock, tries, losses, loaded, result,
                   missed, lapsed>>

\* The latest fact, if there is one ...
ReadFact(t) ==
    /\ pc[t] = "locked"
    /\ IF Stored = {}
       THEN Goto(t, "returned") /\ UNCHANGED seen
       ELSE Goto(t, "read") /\ seen' = [seen EXCEPT ![t] = {Latest}]
    /\ UNCHANGED <<requestVars, baselineVars, rowVars, lock, tries, losses, loaded, result,
                   missed, lapsed>>

\* ... then the node and its baseline, if it has one; the score follows.
ReadBaseline(t) ==
    /\ pc[t] = "read"
    /\ IF desired = {}
       THEN Goto(t, "returned") /\ missed' = TRUE /\ UNCHANGED <<loaded, result>>
       ELSE /\ \E r \in seen[t], d \in desired :
                  result' = [result EXCEPT ![t] =
                      {[fact |-> r, against |-> d, score |-> Score(report[r], d)]}]
            /\ loaded' = [loaded EXCEPT ![t] = nodeScore]
            /\ Goto(t, "computed")
            /\ UNCHANGED missed
    /\ UNCHANGED <<requestVars, baselineVars, rowVars, lock, tries, losses, seen, lapsed>>

\* MUTANT of CommitScore: record and score are committed apart, and the
\* second commit may fail.
CommitScoreApart(t) ==
    /\ pc[t] = "computed"
    /\ newest' = result[t]
    /\ \/ \E d \in result[t] : nodeScore' = d.score /\ Goto(t, "returned")
       \/ UNCHANGED nodeScore /\ Goto(t, "raised")
    /\ UNCHANGED <<requestVars, baselineVars, lock, tries, losses, localVars, missed, lapsed>>

\* One commit adds the record and sets the score.  The session sends no
\* UPDATE of a score that is the one it has read.  A computation on the
\* latest fact makes up for those that were missed.
CommitScore(t) ==
    /\ pc[t] = "computed"
    /\ newest' = result[t]
    /\ \E d \in result[t] :
          /\ nodeScore' = IF d.score = loaded[t] THEN nodeScore ELSE d.score
          /\ missed' = (missed /\ d.fact # Latest)
    /\ Goto(t, "returned")
    /\ UNCHANGED <<requestVars, baselineVars, lock, tries, losses, localVars, lapsed>>

\* An exception of the body, the soft time limit among them.
Raise(t) ==
    /\ pc[t] \in {"locked", "read", "computed"}
    /\ Goto(t, "raised")
    /\ UNCHANGED <<requestVars, baselineVars, rowVars, lock, tries, losses, localVars,
                   missed, lapsed>>

\* autoretry_for=(Exception,): the message is sent again, max_retries times.
Retry(t) ==
    IF tries[t] < MaxRetries
    THEN Goto(t, "queued") /\ tries' = [tries EXCEPT ![t] = @ + 1] /\ UNCHANGED missed
    ELSE Goto(t, "failed") /\ missed' = TRUE /\ UNCHANGED tries

\* Redis does not answer the SET.
LockFails(t) ==
    /\ pc[t] = "queued"
    /\ Retry(t)
    /\ UNCHANGED <<requestVars, baselineVars, rowVars, lock, losses, localVars, lapsed>>

\* finally: the key is deleted, whoever set it; an exception goes on.
Release(t) ==
    /\ pc[t] \in {"returned", "raised"}
    /\ lock' = {}
    /\ IF pc[t] = "raised" THEN Retry(t) ELSE Goto(t, "done") /\ UNCHANGED <<tries, missed>>
    /\ Forget(t)
    /\ UNCHANGED <<requestVars, baselineVars, rowVars, losses, lapsed>>

\* Redis does not answer the DELETE: an exception of its own.
ReleaseFails(t) ==
    /\ pc[t] \in {"returned", "raised"}
    /\ Retry(t)
    /\ Forget(t)
    /\ UNCHANGED <<requestVars, baselineVars, rowVars, lock, losses, lapsed>>

\* The worker is lost: the message is delivered again, and the key stays.
WorkerLost(t) ==
    /\ pc[t] \in Section
    /\ losses < MaxLosses
    /\ losses' = losses + 1
    /\ Goto(t, "queued")
    /\ Forget(t)
    /\ UNCHANGED <<requestVars, baselineVars, rowVars, lock, tries, missed, lapsed>>

\* _LOCK_TTL, which is far below the time limits of a task.
LockExpires ==
    /\ lock # {}
    /\ lock' = {}
    /\ lapsed' = (lapsed \/ \E t \in Requests : pc[t] \in Section)
    /\ UNCHANGED <<requestVars, baselineVars, rowVars, taskVars, localVars, missed>>

Init ==
    /\ request = [r \in Requests |-> "idle"]
    /\ collected = [r \in Requests |-> 0]
    /\ report \in [Requests -> Grains]
    /\ desired = {}
    /\ edits = 0
    /\ nodeScore = 0
    /\ newest = {}
    /\ lock = {}
    /\ pc = [t \in Requests |-> "none"]
    /\ tries = [t \in Requests |-> 0]
    /\ losses = 0
    /\ seen = [t \in Requests |-> {}]
    /\ loaded = [t \in Requests |-> 0]
    /\ result = [t \in Requests |-> {}]
    /\ missed = FALSE
    /\ lapsed = FALSE

Ingest(r) == Stamp(r) \/ CommitFact(r) \/ SendTask(r) \/ IngestFails(r)

Compute(t) ==
    \/ AcquireLock(t) \/ SkipDuplicate(t) \/ LockFails(t) \/ ReadFact(t) \/ ReadBaseline(t)
    \/ CommitScore(t) \/ Raise(t) \/ Release(t) \/ ReleaseFails(t)

Next ==
    \/ \E d \in DesiredStates : WriteBaseline(d)
    \/ \E t \in Requests : Ingest(t) \/ Trigger(t) \/ Compute(t) \/ WorkerLost(t)
    \/ LockExpires

Spec == Init /\ [][Next]_vars

\* A worker that took a message goes on until the task has ended.
FairSpec == Spec /\ \A t \in Requests : WF_vars(Compute(t))

-----------------------------------------------------------------------------
(* Properties                                                              *)

\* The values every variable keeps; a score is at most 100.
TypeOK ==
    /\ request \in [Requests -> RequestStep]
    /\ collected \in [Requests -> Nat]
    /\ report \in [Requests -> Grains]
    /\ desired \subseteq DesiredStates
    /\ edits \in 0 .. MaxEdits
    /\ nodeScore \in 0 .. 100
    /\ newest \subseteq Record
    /\ lock \subseteq Requests
    /\ pc \in [Requests -> TaskStep]
    /\ tries \in [Requests -> 0 .. MaxRetries]
    /\ losses \in 0 .. MaxLosses
    /\ seen \in [Requests -> SUBSET Requests]
    /\ loaded \in [Requests -> 0 .. 100]
    /\ result \in [Requests -> SUBSET Record]
    /\ missed \in BOOLEAN
    /\ lapsed \in BOOLEAN

\* The score the node list shows is the one of the node's newest drift
\* record, although a session that saw no change writes none, retries and
\* redeliveries included, unless the key expired under a running task.
ScoreIsNewest == ~lapsed => \A d \in newest : nodeScore = d.score

\* A later computation never falls back to older facts, in whichever order
\* the facts were committed and the tasks tried again, unless the key
\* expired under a running task.
NeverOlder ==
    [][~lapsed => \A d \in newest, e \in newest' :
                      collected[d.fact] <= collected[e.fact]]_vars

\* Nothing is under way: no fact waits for its task, no task for its end.
Quiet ==
    /\ \A r \in Requests : request[r] # "committed"
    /\ \A t \in Requests : pc[t] \in {"none", "done", "failed"}

\* When all is quiet the score is that of the latest fact: it is behind only
\* if a computation was skipped, failed for good, found no baseline or was
\* never sent, and none on the latest fact came after it.
QuietScoreIsCurrent ==
    Quiet /\ ~missed /\ ~lapsed /\ Stored # {} => \E d \in newest : d.fact = Latest

\* A record of score 0 means that the node conforms to the baseline it was
\* compared with; and a node that conforms gets 0 if no version it reports
\* has fewer parts than the one required.
ZeroMeansConforming ==
    \A d \in newest :
        LET g == report[d.fact]
            unabridged == \A p \in d.against.required :
                p.name \in DOMAIN g.pkgs => Len(g.pkgs[p.name]) >= Len(p.version)
        IN /\ d.score = 0 => Conforms(g, d.against)
           /\ Conforms(g, d.against) /\ unabridged => d.score = 0
=============================================================================
