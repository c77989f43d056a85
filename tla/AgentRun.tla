------------------------------ MODULE AgentRun ------------------------------
(***************************************************************************)
(* A run of the agent: the route that streams it                           *)
(* (run_agent_stream of api/routes/agent.py), the bounded loop             *)
(* (agent/loop.py), the dispatch of a tool call (agent/executor.py), its   *)
(* audit (agent/audit.py) and the proposal of an action for approval       *)
(* (create_proposal of services/agent_apply_svc.py).                       *)
(*                                                                         *)
(* What a model answers is arbitrary: a final text, a tool call, or an     *)
(* error.  The planner keeps the first tool call of an answer only.        *)
(*                                                                         *)
(* All of a run shares one database session.  When it is rolled back,      *)
(* every object it holds expires, and reading one in the route (endpoint,  *)
(* session) raises, because a load cannot be awaited there.                *)
(***************************************************************************)
EXTENDS TierRouter

CONSTANTS
    Runs,             \* runs of the agent
    Calls,            \* the tool calls models ask for
    MaxIterations,
    Workloads         \* bound: who runs and leaves, what is asked for and fails

\* A call the dispatch refuses at once (role, arguments), one that reads, a
\* dry run, a live one that needs a dry run first, one that needs approval
\* only; the last two may be on a guarded target.
Kind == {"refused", "read", "dryRun", "live", "direct"}

ASSUME CallsAssumption == Calls \subseteq [name : STRING, kind : Kind, guarded : BOOLEAN]
ASSUME RunsAssumption == IsFiniteSet(Runs)
ASSUME BoundsAssumption == MaxIterations \in Nat \ {0}
ASSUME RunWorkloadsAssumption ==
    \A w \in Workloads :
        /\ w.runs \subseteq Runs /\ w.leavers \subseteq Runs /\ w.calls \subseteq Calls
        /\ w.asked \subseteq Endpoints
        /\ w.restarts \in Nat /\ w.outages \in Nat

VARIABLES
    workload,      \* the workload of this behaviour
    step,          \* step of each run
    endpoint,      \* the endpoint it uses
    via,           \* how that was chosen
    used,          \* answers of the model: iterations, and tokens
    seenCalls,     \* calls made
    call,          \* the call to dispatch
    dryRunDone,    \* a dry run succeeded
    db,            \* its database session
    terminal,      \* the status to store at the end
    session,       \* column status of its AgentSession
    proposed,      \* runs with a PendingAction
    restarts,      \* how often the process started anew
    outages,       \* how often Redis stopped or came back
    billed,        \* history: answers of endpoints the router fell back to
    unbilled,      \* history: a run ended without recording its tokens
    together       \* history: most such runs in flight at a time

loopVars == <<seenCalls, call, dryRunDone>>
runVars == <<endpoint, via, used, loopVars, db, terminal>>
histories == <<billed, unbilled, together>>
vars == <<routerVars, workload, step, runVars, session, proposed, restarts, outages, histories>>

Leased == {"plan", "dispatch"}
InFlight == Leased \cup {"opened", "over", "save"}

Goto(r, s) == step' = [step EXCEPT ![r] = s]

AnEndpoint == CHOOSE e \in Endpoints : TRUE

\* The requests of the runs S are over, and what they kept is gone.
Over(S, s) ==
    /\ step' = [r \in Runs |-> IF r \in S THEN s ELSE step[r]]
    /\ endpoint' = [r \in Runs |-> IF r \in S THEN AnEndpoint ELSE endpoint[r]]
    /\ via' = [r \in Runs |-> IF r \in S THEN "none" ELSE via[r]]
    /\ used' = [r \in Runs |-> IF r \in S THEN 0 ELSE used[r]]
    /\ seenCalls' = [r \in Runs |-> IF r \in S THEN {} ELSE seenCalls[r]]
    /\ call' = [r \in Runs |-> IF r \in S THEN {} ELSE call[r]]
    /\ dryRunDone' = [r \in Runs |-> r \notin S /\ dryRunDone[r]]
    /\ db' = [r \in Runs |-> IF r \in S THEN "fine" ELSE db[r]]
    /\ terminal' = [r \in Runs |-> IF r \in S THEN "completed" ELSE terminal[r]]

-----------------------------------------------------------------------------
(* The route, up to the loop                                               *)

\* The endpoint asked for; or the one the router selects, else the default.
Choice(e, v, allowCloud) ==
    CASE v = "explicit" -> e \in workload.asked
      [] v = "local" -> e \in Local
      [] v = "cloud" -> e \in Fallback(allowCloud)
      [] v = "default" -> Local = {} /\ Fallback(allowCloud) = {} /\ e \in Default

CloudRuns == {r \in Runs : via[r] = "cloud" /\ step[r] \in InFlight \ {"save"}}

\* The session is committed before the stream begins.
Start(r, e, v) ==
    /\ r \in workload.runs
    /\ step[r] = "idle"
    /\ \E allowCloud \in BOOLEAN : Choice(e, v, allowCloud)
    /\ endpoint' = [endpoint EXCEPT ![r] = e]
    /\ via' = [via EXCEPT ![r] = v]
    /\ session' = [session EXCEPT ![r] = "active"]
    /\ Goto(r, "opened")
    /\ together' = LET n == Cardinality(CloudRuns) + 1 IN
                   IF v = "cloud" /\ n > together THEN n ELSE together
    /\ UNCHANGED <<routerVars, workload, used, loopVars, db, terminal, proposed, restarts, outages,
                   billed, unbilled>>

Lease(r) ==
    /\ step[r] = "opened"
    /\ Acquire(endpoint[r])
    /\ Goto(r, "plan")
    /\ UNCHANGED <<cooling, spend, spendHere, redis, workload, runVars, session, proposed, restarts,
                   outages, histories>>

-----------------------------------------------------------------------------
(* The loop                                                                *)

\* What the loop keeps: calls made, a call to dispatch, a dry run that succeeded.
Keeps(r, seen, c, dry) ==
    /\ seenCalls' = [seenCalls EXCEPT ![r] = seen]
    /\ call' = [call EXCEPT ![r] = c]
    /\ dryRunDone' = [dryRunDone EXCEPT ![r] = dry]

\* The loop ends, the lease with it.
Ends(r, t) ==
    /\ Release(endpoint[r])
    /\ terminal' = [terminal EXCEPT ![r] = t]
    /\ Keeps(r, {}, {}, FALSE)
    /\ Goto(r, "over")

\* The model answers.
Asked(r) ==
    /\ step[r] = "plan"
    /\ used' = [used EXCEPT ![r] = @ + 1]
    /\ billed' = IF via[r] = "cloud" /\ endpoint[r] \in Paid THEN billed + 1 ELSE billed
    /\ UNCHANGED <<cooling, spend, spendHere, redis, workload, endpoint, via, db, session,
                   proposed, restarts, outages, unbilled, together>>

PlanFinal(r) ==
    /\ Asked(r)
    /\ Ends(r, "completed")

\* A call made before is not made again, and ends the run.
PlanCall(r, c) ==
    /\ c \in workload.calls
    /\ Asked(r)
    /\ IF c \in seenCalls[r] THEN Ends(r, "aborted")
       ELSE /\ Keeps(r, seenCalls[r] \cup {c}, {c}, dryRunDone[r])
            /\ Goto(r, "dispatch")
            /\ UNCHANGED <<load, terminal>>

\* MUTANT of PlanRaises: the lease is not a finally block.
PlanRaisesLeased(r) ==
    /\ step[r] = "plan"
    /\ Over({r}, "done")
    /\ session' = [session EXCEPT ![r] = "aborted"]
    /\ UNCHANGED <<routerVars, workload, proposed, restarts, outages, histories>>

\* The call of the model fails: the endpoint is avoided for a minute.  Reading
\* its id raises when it has expired.
PlanRaises(r) ==
    /\ step[r] = "plan"
    /\ \/ /\ db[r] # "expired"
          /\ cooling' = cooling \cup {endpoint[r]}
          /\ Ends(r, "aborted")
          /\ UNCHANGED <<endpoint, via, used, db, unbilled>>
       \/ /\ db[r] = "expired"
          /\ Release(endpoint[r])
          /\ Over({r}, "crashed")
          /\ unbilled' = TRUE
          /\ UNCHANGED cooling
    /\ UNCHANGED <<spend, spendHere, redis, workload, session, proposed, restarts, outages, billed,
                   together>>

\* After a result that is not a proposal.
Continues(r, dry) ==
    IF used[r] = MaxIterations THEN Ends(r, "aborted")
    ELSE /\ Keeps(r, seenCalls[r], {}, dry)
         /\ Goto(r, "plan")
         /\ UNCHANGED <<load, terminal>>

\* The dispatch leaves all but these alone.
Dispatched(r) ==
    /\ step[r] = "dispatch"
    /\ UNCHANGED <<cooling, spend, spendHere, redis, workload, endpoint, via, used, session, restarts,
                   outages, histories>>

\* Refused by role, arguments or the dry-run gate.
NeedsDryRun(r, c) == c.kind = "live" /\ ~dryRunDone[r]

DispatchRefused(r) ==
    /\ Dispatched(r)
    /\ \E c \in call[r] : c.kind = "refused" \/ NeedsDryRun(r, c)
    /\ Continues(r, dryRunDone[r])
    /\ UNCHANGED <<db, proposed>>

\* An audit that cannot be written is rolled back.
Audited(r) ==
    \/ UNCHANGED db
    \/ db' = [db EXCEPT ![r] = "expired"]

\* A guard refuses the target.
NeedsApproval(r, c) == c.kind \in {"live", "direct"} /\ ~NeedsDryRun(r, c)

DispatchGuarded(r) ==
    /\ Dispatched(r)
    /\ \E c \in call[r] : NeedsApproval(r, c) /\ c.guarded
    /\ Audited(r)
    /\ Continues(r, dryRunDone[r])
    /\ UNCHANGED proposed

\* The handler of the tool succeeds or raises.
DispatchRuns(r) ==
    /\ Dispatched(r)
    /\ \E c \in call[r], ok \in BOOLEAN :
          /\ c.kind \in {"read", "dryRun"}
          /\ Continues(r, dryRunDone[r] \/ (ok /\ c.kind = "dryRun"))
    /\ Audited(r)
    /\ UNCHANGED proposed

\* create_proposal: a query before or after its commit fails and leaves a
\* failed transaction behind, or its commit does, which rolls back.  The id of
\* the session is read first.
DispatchProposes(r) ==
    /\ Dispatched(r)
    /\ \E c \in call[r] : NeedsApproval(r, c) /\ ~c.guarded
    /\ \/ /\ db[r] = "fine"
          /\ proposed' = proposed \cup {r}
          /\ UNCHANGED db
       \/ /\ db[r] = "fine"
          /\ \E d \in {"failed", "expired"} : db' = [db EXCEPT ![r] = d]
          /\ proposed' \in {proposed, proposed \cup {r}}
       \/ /\ db[r] = "expired"
          /\ UNCHANGED <<db, proposed>>
    /\ Ends(r, "awaiting_approval")

-----------------------------------------------------------------------------
(* The route, after the loop                                               *)

\* The provider of the endpoint is read, then the tokens are recorded.
Record(r) ==
    /\ step[r] = "over"
    /\ \/ /\ db[r] = "expired"
          /\ Over({r}, "crashed")
          /\ unbilled' = TRUE
          /\ UNCHANGED routerVars
       \/ /\ db[r] # "expired"
          /\ RecordTokens(endpoint[r], used[r])
          /\ Goto(r, "save")
          /\ UNCHANGED <<load, runVars, unbilled>>
    /\ UNCHANGED <<workload, session, proposed, restarts, outages, billed, together>>

\* MUTANT of Save: a failed transaction is rolled back first.
SaveAnyway(r) ==
    /\ step[r] = "save"
    /\ session' = [session EXCEPT ![r] = terminal[r]]
    /\ Over({r}, "done")
    /\ UNCHANGED <<routerVars, workload, proposed, restarts, outages, histories>>

\* The session gets its status; when the commit fails it is rolled back, and
\* reading the session's id for the last frame raises.
Save(r) ==
    /\ step[r] = "save"
    /\ \/ /\ db[r] = "fine"
          /\ session' = [session EXCEPT ![r] = terminal[r]]
          /\ Over({r}, "done")
       \/ /\ Over({r}, "crashed")
          /\ UNCHANGED session
    /\ UNCHANGED <<routerVars, workload, proposed, restarts, outages, histories>>

-----------------------------------------------------------------------------
(* What may happen at any time                                             *)

\* The client goes away: the stream is cancelled, the lease given back.
Leaves(r) ==
    /\ r \in workload.leavers
    /\ step[r] \in InFlight
    /\ IF step[r] \in Leased THEN Release(endpoint[r]) ELSE UNCHANGED load
    /\ Over({r}, "left")
    /\ unbilled' = (unbilled \/ step[r] # "save")
    /\ UNCHANGED <<cooling, spend, spendHere, redis, workload, session, proposed, restarts, outages,
                   billed, together>>

Restart ==
    /\ restarts < workload.restarts
    /\ restarts' = restarts + 1
    /\ Over({r \in Runs : step[r] \in InFlight}, "left")
    /\ unbilled' = (unbilled \/ \E r \in Runs : step[r] \in InFlight \ {"save"})
    /\ RouterRestarts
    /\ UNCHANGED <<workload, session, proposed, outages, billed, together>>

Outage ==
    /\ outages < workload.outages
    /\ outages' = outages + 1
    /\ RedisTurns
    /\ UNCHANGED <<workload, step, runVars, session, proposed, restarts, histories>>

Cools(e) ==
    /\ CooldownEnds(e)
    /\ UNCHANGED <<workload, step, runVars, session, proposed, restarts, outages, histories>>

-----------------------------------------------------------------------------
Init ==
    /\ workload \in Workloads
    /\ InitRouter
    /\ step = [r \in Runs |-> "idle"]
    /\ endpoint = [r \in Runs |-> AnEndpoint]
    /\ via = [r \in Runs |-> "none"]
    /\ used = [r \in Runs |-> 0]
    /\ seenCalls = [r \in Runs |-> {}]
    /\ call = [r \in Runs |-> {}]
    /\ dryRunDone = [r \in Runs |-> FALSE]
    /\ db = [r \in Runs |-> "fine"]
    /\ terminal = [r \in Runs |-> "completed"]
    /\ session = [r \in Runs |-> "absent"]
    /\ proposed = {}
    /\ restarts = 0
    /\ outages = 0
    /\ billed = 0
    /\ unbilled = FALSE
    /\ together = 0

Dispatch(r) == DispatchRefused(r) \/ DispatchGuarded(r) \/ DispatchRuns(r) \/ DispatchProposes(r)

Plan(r) == PlanFinal(r) \/ (\E c \in Calls : PlanCall(r, c)) \/ PlanRaises(r)

Goes(r) == Lease(r) \/ Plan(r) \/ Dispatch(r) \/ Record(r) \/ Save(r)

Next ==
    \/ \E r \in Runs, e \in Endpoints, v \in {"explicit", "local", "cloud", "default"} : Start(r, e, v)
    \/ \E r \in Runs : Goes(r) \/ Leaves(r)
    \/ \E e \in Endpoints : Cools(e)
    \/ Restart \/ Outage

Spec == Init /\ [][Next]_vars

\* Calls of models and tools are bounded by timeouts.
FairSpec == Spec /\ \A r \in Runs : WF_vars(Goes(r))

-----------------------------------------------------------------------------
(* Properties                                                              *)

\* Who holds a lease of an endpoint.
Holders(e) == {r \in Runs : step[r] \in Leased /\ endpoint[r] = e}

\* The values every variable keeps, and the load the router sees is the
\* number of runs in their loop: a lease is given back however a run ends.
TypeOK ==
    /\ \A e \in Endpoints : load[e] = Cardinality(Holders(e))
    /\ cooling \subseteq Endpoints
    /\ step \in [Runs -> InFlight \cup {"idle", "done", "crashed", "left"}]
    /\ session \in [Runs -> {"absent", "active", "completed", "aborted", "awaiting_approval"}]
    /\ used \in [Runs -> 0 .. MaxIterations]

\* Together the runs that the router sends to the cloud exceed the day's
\* budget by what those in flight at a time may use, at most ("must not run
\* up an unbounded bill"): as long as Redis keeps the count, and every run
\* ends so that its tokens are recorded.
CapHolds ==
    outages = 0 /\ ~unbilled =>
        billed <= (IF DailyCap = 0 THEN 0 ELSE DailyCap - 1) + MaxIterations * together

\* A session that waits for an approval has an action to approve, although
\* an error while the action is proposed is passed over.
AwaitingHasAction == \A r \in Runs : session[r] = "awaiting_approval" => r \in proposed

\* A session does not stay active, whatever models, tools and guards do
\* ("always emit a terminal frame"): unless the client went away, the process
\* stopped or the database failed.  And every lease is given back, whatever
\* happened: an endpoint that nobody uses is not taken for a busy one.
RunSettles ==
    <>[](/\ \A r \in Runs : session[r] = "active" => step[r] \in {"left", "crashed"}
         /\ \A e \in Endpoints : load[e] = 0)
=============================================================================
