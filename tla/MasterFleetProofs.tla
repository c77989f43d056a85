------------------------- MODULE MasterFleetProofs -------------------------
(***************************************************************************)
(* Theorems about MasterFleet, for any masters, nodes, requests, sweeps,   *)
(* attachments, polls, tests and provisionings, and any workloads.         *)
(*                                                                         *)
(* That the registry stays usable follows from what a request knows while  *)
(* no other one has committed since it began (Fresh): the guards it passed *)
(* still hold when it commits.                                             *)
(***************************************************************************)
EXTENDS MasterFleet, FiniteSetTheorems, TLAPS

Shape ==
    /\ DOMAIN pc = Requests
    /\ DOMAIN target = Requests
    /\ DOMAIN body = Requests
    /\ DOMAIN saw = Requests
    /\ DOMAIN cleared = Requests

\* What a request that nobody overtook knows.
Fresh(r) ==
    /\ pc[r] = "create" /\ body[r].is_default # "yes" => cleared[r] = {}
    /\ r \notin stale =>
          /\ pc[r] \in {"others", "patch"} /\ Disables(r) => ~LastEnabled
          /\ pc[r] \in {"deleteNodes", "delete"} /\ target[r] \in enabled => ~LastEnabled
          /\ pc[r] \in {"deleteCount", "deleteNodes", "delete"} => target[r] \notin isDefault

IInv == Shape /\ \A r \in Requests : Fresh(r)

\* Where more than one master is enabled, one stays when one goes.
LEMMA OneStays ==
    ASSUME ~LastEnabled, NEW m
    PROVE  enabled \ {m} # {}
<1> SUFFICES ASSUME enabled \ {m} = {} PROVE FALSE
    OBVIOUS
<1>1. enabled \in SUBSET {m}
    OBVIOUS
<1>2. IsFiniteSet({m}) /\ Cardinality({m}) = 1
    BY FS_Singleton
<1>3. Cardinality(enabled) <= 1
    BY <1>1, <1>2, FS_Subset
<1> QED
    BY <1>3 DEF LastEnabled

\* A request knows the same as long as its own columns and the registry stay.
LEMMA FreshKept ==
    ASSUME NEW r \in Requests, Fresh(r), UNCHANGED <<registryVars, stale>>,
           pc'[r] = pc[r], target'[r] = target[r], body'[r] = body[r],
           saw'[r] = saw[r], cleared'[r] = cleared[r]
    PROVE  Fresh(r)'
BY DEF Fresh, Disables, LastEnabled, registryVars

\* A request that ended, or has not begun, needs to know nothing.
LEMMA FreshAtRest ==
    ASSUME NEW r \in Requests, pc'[r] \notin InFlight
    PROVE  Fresh(r)'
BY DEF Fresh, InFlight

\* A request that another one overtook knows nothing; a creation knows
\* nothing of others anyway.
LEMMA FreshOvertaken ==
    ASSUME Shape, NEW r \in Requests, NEW s \in Requests \ {r}, Fresh(s), Commits(r)
    PROVE  Fresh(s)'
<1>1. /\ pc'[s] = pc[s] /\ body'[s] = body[s] /\ cleared'[s] = cleared[s]
      /\ stale' = stale \cup {q \in Requests \ {r} : pc[q] \in InFlight}
    BY DEF Commits, Ends, Goto, Shape
<1>2. CASE pc[s] \in InFlight
    <2>1. s \in stale'
        BY <1>1, <1>2
    <2> QED
        BY <1>1, <2>1 DEF Fresh
<1>3. CASE pc[s] \notin InFlight
    BY <1>1, <1>3, FreshAtRest
<1> QED
    BY <1>2, <1>3

\* What a request does to itself is nothing to the others.
Alone(r) ==
    /\ Shape'
    /\ \A s \in Requests \ {r} :
          /\ pc'[s] = pc[s] /\ target'[s] = target[s] /\ body'[s] = body[s]
          /\ saw'[s] = saw[s] /\ cleared'[s] = cleared[s]

\* A request that reads: the others know what they knew.
LEMMA ReadingStep ==
    ASSUME IInv, NEW r \in Requests, Alone(r), UNCHANGED <<registryVars, stale>>, Fresh(r)'
    PROVE  IInv'
<1>1. ASSUME NEW s \in Requests PROVE Fresh(s)'
    BY FreshKept DEF IInv, Alone
<1> QED
    BY <1>1 DEF IInv, Alone

\* A request that fails.
LEMMA FailingStep ==
    ASSUME IInv, NEW r \in Requests, NEW l, l \notin InFlight, Fails(r, l)
    PROVE  IInv'
<1>1. Alone(r)
    BY DEF IInv, Shape, Alone, Fails, Ends, Goto
<1>2. pc'[r] = l
    BY DEF IInv, Shape, Fails, Ends, Goto
<1> QED
    BY <1>1, <1>2, FreshAtRest, ReadingStep DEF Fails

\* A request that commits.
LEMMA CommittingStep ==
    ASSUME IInv, NEW r \in Requests, Commits(r)
    PROVE  IInv'
<1>1. Shape'
    BY DEF IInv, Shape, Commits, Ends, Goto
<1>2. pc'[r] = "done"
    BY DEF IInv, Shape, Commits, Ends, Goto
<1>3. ASSUME NEW s \in Requests PROVE Fresh(s)'
    <2>1. CASE s = r
        BY <1>2, <2>1, FreshAtRest DEF InFlight
    <2>2. CASE s # r
        BY <2>2, FreshOvertaken DEF IInv
    <2> QED
        BY <2>1, <2>2
<1> QED
    BY <1>1, <1>3 DEF IInv

-----------------------------------------------------------------------------
(* Steps                                                                   *)

\* Every step of a creation.
LEMMA CreateStep ==
    ASSUME IInv, NEW r \in Requests, Create(r)
    PROVE  IInv'
<1>1. ASSUME NEW m \in Masters, NEW b \in Bodies, CreateStart(r, m, b) PROVE IInv'
    <2>1. Alone(r)
        BY <1>1 DEF CreateStart, Goto, Alone, IInv, Shape
    <2>2. Fresh(r)'
        BY <1>1 DEF CreateStart, Goto, Fresh, IInv, Shape
    <2> QED
        BY <1>1, <2>1, <2>2, ReadingStep DEF CreateStart
<1>2. CASE CreateCommit(r)
    BY <1>2, CommittingStep DEF CreateCommit
<1>3. CASE CreateFails(r)
    BY <1>3, FailingStep DEF CreateFails, InFlight
<1> QED
    BY <1>1, <1>2, <1>3 DEF Create

\* Every step of an update.
LEMMA PatchStep ==
    ASSUME IInv, NEW r \in Requests, Patch(r)
    PROVE  IInv'
<1>1. ASSUME NEW m \in Masters, NEW b \in Bodies, PatchLoad(r, m, b) PROVE IInv'
    <2>1. Alone(r)
        BY <1>1 DEF PatchLoad, Goto, Alone, IInv, Shape
    <2>2. Fresh(r)'
        BY <1>1 DEF PatchLoad, Goto, Fresh, Disables, IInv, Shape
    <2> QED
        BY <1>1, <2>1, <2>2, ReadingStep DEF PatchLoad
<1>2. CASE PatchCount(r)
    <2>1. CASE LastEnabled
        BY <1>2, <2>1, FailingStep DEF PatchCount, InFlight
    <2>2. CASE ~LastEnabled
        <3>1. Alone(r)
            BY <1>2, <2>2 DEF PatchCount, Reads, Goto, Alone, IInv, Shape
        <3>2. Fresh(r)'
            BY <1>2, <2>2 DEF PatchCount, Reads, Goto, Fresh, LastEnabled, registryVars, IInv, Shape
        <3> QED
            BY <1>2, <2>2, <3>1, <3>2, ReadingStep DEF PatchCount, Reads
    <2> QED
        BY <2>1, <2>2
<1>3. CASE PatchOthers(r)
    <2>1. Alone(r)
        BY <1>3 DEF PatchOthers, Goto, Alone, IInv, Shape
    <2>2. Fresh(r)'
        BY <1>3 DEF PatchOthers, Goto, Fresh, Disables, LastEnabled, registryVars, IInv, Shape
    <2> QED
        BY <1>3, <2>1, <2>2, ReadingStep DEF PatchOthers
<1>4. CASE PatchCommit(r)
    BY <1>4, CommittingStep DEF PatchCommit
<1>5. CASE PatchFails(r)
    BY <1>5, FailingStep DEF PatchFails, InFlight
<1> QED
    BY <1>1, <1>2, <1>3, <1>4, <1>5 DEF Patch

\* Every step of a deletion.
LEMMA DeleteStep ==
    ASSUME IInv, NEW r \in Requests, Delete(r)
    PROVE  IInv'
<1>1. ASSUME NEW m \in Masters, DeleteLoad(r, m) PROVE IInv'
    <2>1. Alone(r)
        BY <1>1 DEF DeleteLoad, Goto, Alone, IInv, Shape
    <2>2. Fresh(r)'
        BY <1>1 DEF DeleteLoad, Goto, Fresh, registryVars, IInv, Shape
    <2> QED
        BY <1>1, <2>1, <2>2, ReadingStep DEF DeleteLoad
<1>2. CASE DeleteCount(r)
    <2>1. CASE LastEnabled
        BY <1>2, <2>1, FailingStep DEF DeleteCount, InFlight
    <2>2. CASE ~LastEnabled
        <3>1. Alone(r)
            BY <1>2, <2>2 DEF DeleteCount, Reads, Goto, Alone, IInv, Shape
        <3>2. Fresh(r)'
            BY <1>2, <2>2 DEF DeleteCount, Reads, Goto, Fresh, LastEnabled, registryVars, IInv, Shape
        <3> QED
            BY <1>2, <2>2, <3>1, <3>2, ReadingStep DEF DeleteCount, Reads
    <2> QED
        BY <2>1, <2>2
<1>3. CASE DeleteNodes(r)
    <2>1. CASE Fails(r, "refused")
        BY <2>1, FailingStep DEF InFlight
    <2>2. CASE ~Fails(r, "refused")
        <3>1. /\ Goto(r, "delete") /\ pc[r] = "deleteNodes"
              /\ UNCHANGED <<registryVars, target, body, saw, cleared, stale>>
            BY <1>3, <2>2 DEF DeleteNodes, Reads
        <3>2. Alone(r)
            BY <3>1 DEF Goto, Alone, IInv, Shape
        <3>3. Fresh(r)'
            BY <3>1 DEF Goto, Fresh, LastEnabled, registryVars, IInv, Shape
        <3> QED
            BY <3>1, <3>2, <3>3, ReadingStep
    <2> QED
        BY <2>1, <2>2
<1>4. CASE DeleteCommit(r)
    BY <1>4, CommittingStep DEF DeleteCommit
<1>5. CASE DeleteFails(r)
    BY <1>5, FailingStep DEF DeleteFails, InFlight
<1> QED
    BY <1>1, <1>2, <1>3, <1>4, <1>5 DEF Delete

\* The registry is left alone by everything but its requests.
LEMMA OthersLeaveRegistry ==
    ASSUME [Next]_vars, ~ \E r \in Requests : Request(r)
    PROVE  UNCHANGED <<registryVars, requestVars, stale, raced>>
<1>1. CASE Presence
    <2>1. ASSUME NEW s \in Sweeps, Sweep(s) PROVE UNCHANGED <<registryVars, requestVars, stale, raced>>
        BY <2>1 DEF Sweep, SweepStart, SweepPoll, SweepLoad, SweepCommit, masterVars
    <2>2. ASSUME NEW a \in Attachments, Attach(a)
          PROVE  UNCHANGED <<registryVars, requestVars, stale, raced>>
        BY <2>2 DEF Attach, AttachMinions, AttachLoad, AttachRun, AttachAccept, AttachOwn, masterVars
    <2>3. ASSUME NEW g \in Reports, Ingest(g) PROVE UNCHANGED <<registryVars, requestVars, stale, raced>>
        BY <2>3 DEF Ingest, IngestLoad, IngestCommit, masterVars
    <2> QED
        BY <1>1, <2>1, <2>2, <2>3 DEF Presence, TimePasses, EnableNode, SetMaintenanceMode, MinionTurns,
           MasterTurns, MarkStaleNodes, masterVars
<1>2. CASE UNCHANGED masterVars
    BY <1>2 DEF masterVars
<1> QED
    BY <1>1, <1>2 DEF Next, vars

\* The initial states satisfy the inductive invariant.
LEMMA InitIInv == Init => IInv
BY DEF Init, InitMasters, IInv, Shape, Fresh

\* Every step preserves it.
LEMMA NextIInv == IInv /\ [Next]_vars => IInv'
<1> SUFFICES ASSUME IInv, [Next]_vars PROVE IInv'
    OBVIOUS
<1>1. ASSUME NEW r \in Requests, Request(r) PROVE IInv'
    BY <1>1, CreateStep, PatchStep, DeleteStep DEF Request
<1>2. CASE ~ \E r \in Requests : Request(r)
    <2>1. UNCHANGED <<registryVars, pc, target, body, saw, cleared, stale>>
        BY <1>2, OthersLeaveRegistry DEF requestVars
    <2> QED
        BY <2>1 DEF IInv, Shape, Fresh, Disables, LastEnabled, registryVars
<1> QED
    BY <1>1, <1>2

-----------------------------------------------------------------------------
(* Theorems                                                                *)

\* While no request commits on what another one changed meanwhile, the guards
\* of update_salt_master and delete_salt_master keep an enabled master, and
\* the default one but for a request that clears its flag.
THEOREM UsableRegistry == Spec => RegistryStaysUsable
<1> DEFINE Usable == ~raced' => EnabledRemains /\ DefaultRemains
<1>1. ASSUME IInv, [Next]_vars PROVE [Usable]_vars
    <2>1. ASSUME NEW r \in Requests, CreateCommit(r) PROVE Usable
        <3>1. CASE body[r].is_default = "yes"
            BY <2>1, <3>1 DEF CreateCommit, EnabledRemains, DefaultRemains
        <3>2. CASE body[r].is_default # "yes"
            BY <2>1, <3>2, <1>1 DEF CreateCommit, EnabledRemains, DefaultRemains, IInv, Fresh
        <3> QED
            BY <3>1, <3>2
    <2>2. ASSUME NEW r \in Requests, PatchCommit(r) PROVE Usable
        <3>1. pc[r] = "patch" /\ pc'[r] = "done"
            BY <2>2, <1>1 DEF PatchCommit, Commits, Ends, Goto, IInv, Shape
        <3>2. DefaultRemains
            BY <2>2, <3>1 DEF PatchCommit, DefaultRemains
        <3>3. ~raced' => r \notin stale
            BY <2>2 DEF PatchCommit, Commits
        <3>4. ~raced' /\ Disables(r) => enabled \ {target[r]} # {}
            BY <1>1, <3>1, <3>3, OneStays DEF IInv, Fresh
        <3>5. ~raced' => EnabledRemains
            BY <2>2, <3>4 DEF PatchCommit, EnabledRemains
        <3> QED
            BY <3>2, <3>5
    <2>3. ASSUME NEW r \in Requests, DeleteCommit(r) PROVE Usable
        <3>1. ~raced' => r \notin stale
            BY <2>3 DEF DeleteCommit, Commits
        <3>2. ~raced' => target[r] \notin isDefault
            BY <1>1, <2>3, <3>1 DEF DeleteCommit, IInv, Fresh
        <3>3. ~raced' /\ target[r] \in enabled => enabled \ {target[r]} # {}
            BY <1>1, <2>3, <3>1, OneStays DEF DeleteCommit, IInv, Fresh
        <3> QED
            BY <2>3, <3>2, <3>3 DEF DeleteCommit, EnabledRemains, DefaultRemains
    <2>4. CASE UNCHANGED registryVars
        BY <2>4 DEF EnabledRemains, DefaultRemains, registryVars
    <2>5. ASSUME NEW r \in Requests, Request(r)
          PROVE  \/ CreateCommit(r) \/ PatchCommit(r) \/ DeleteCommit(r)
                 \/ UNCHANGED registryVars
        BY <2>5 DEF Request, Create, CreateStart, CreateFails, Patch, PatchLoad, PatchCount, PatchOthers,
           PatchFails, Delete, DeleteLoad, DeleteCount, DeleteNodes, DeleteFails, Fails, Reads
    <2> QED
        BY <1>1, <2>1, <2>2, <2>3, <2>4, <2>5, OthersLeaveRegistry
<1>2. IInv /\ [Next]_vars => IInv'
    BY NextIInv
<1> QED
    BY <1>1, <1>2, InitIInv, PTL DEF Spec, RegistryStaysUsable

-----------------------------------------------------------------------------
(* Type correctness: the registry and the column that refers to it         *)

Stages == InFlight \cup {"idle", "done", "refused", "failed"}

OneDefault == \A m, o \in isDefault : m = o

RegistryTyped ==
    /\ registered \subseteq Masters /\ enabled \subseteq registered /\ isDefault \subseteq registered
    /\ OneDefault
    /\ owner \in [Nodes -> registered \cup {NoMaster}]

RequestsTyped ==
    /\ pc \in [Requests -> Stages]
    /\ DOMAIN target = Requests
    /\ heir \in [Requests -> Masters \cup {NoMaster}]
    /\ \A r \in Requests : /\ pc[r] \in InFlight => target[r] \in Masters /\ heir[r] # target[r]
                           /\ pc[r] # "delete" => heir[r] = NoMaster

\* Ending, a request has a stage and no heir.
LEMMA EndsTyped ==
    ASSUME RequestsTyped, NEW r \in Requests, NEW l \in {"done", "refused", "failed"}, Ends(r, l)
    PROVE  RequestsTyped'
BY MastersAssumption DEF RequestsTyped, Ends, Goto, Stages, InFlight

\* Every step of a request keeps the types of the requests.
LEMMA RequestsTypedStep ==
    ASSUME RegistryTyped, RequestsTyped, NEW r \in Requests, Request(r)
    PROVE  RequestsTyped'
<1>1. CASE \E l \in {"done", "refused", "failed"} : Ends(r, l)
    BY <1>1, EndsTyped
<1> USE MastersAssumption DEF RegistryTyped, RequestsTyped, Goto, Stages, InFlight
<1>2. CASE \E l \in InFlight : Reads(r, l) /\ pc[r] \in InFlight \ {"delete"}
    BY <1>2 DEF Reads
<1>3. ASSUME NEW m \in Masters, NEW b \in Bodies, CreateStart(r, m, b) PROVE RequestsTyped'
    BY <1>3 DEF CreateStart
<1>4. ASSUME NEW m \in Masters, NEW b \in Bodies, PatchLoad(r, m, b) PROVE RequestsTyped'
    BY <1>4 DEF PatchLoad
<1>5. CASE PatchOthers(r)
    BY <1>5 DEF PatchOthers
<1>6. ASSUME NEW m \in Masters, DeleteLoad(r, m) PROVE RequestsTyped'
    BY <1>6 DEF DeleteLoad
<1>7. CASE DeleteNodes(r)
    <2>1. ASSUME NEW h \in isDefault \ {target[r]}, heir' = [heir EXCEPT ![r] = h],
                 Goto(r, "delete"), pc[r] = "deleteNodes", UNCHANGED target
          PROVE  RequestsTyped'
        BY <2>1
    <2> QED
        BY <1>1, <1>2, <1>7, <2>1 DEF DeleteNodes, Fails
<1> QED
    BY <1>1, <1>2, <1>3, <1>4, <1>5, <1>6, <1>7 DEF Request, Create, CreateCommit, CreateFails,
       Patch, PatchCount, PatchCommit, PatchFails, Delete, DeleteCount, DeleteCommit, DeleteFails,
       Fails, Commits

\* The database's own rules and the requests keep the registry sound.
LEMMA RegistryTypedStep ==
    ASSUME RegistryTyped, RequestsTyped, NEW r \in Requests, Request(r)
    PROVE  RegistryTyped'
<1> USE MastersAssumption DEF RegistryTyped, OneDefault
<1>1. CASE UNCHANGED <<registryVars, owner>>
    BY <1>1 DEF registryVars
<1>2. CASE CreateCommit(r)
    <2>1. target[r] \in Masters
        BY <1>2 DEF CreateCommit, RequestsTyped, InFlight
    <2>2. owner' \in [Nodes -> registered' \cup {NoMaster}]
        BY <1>2 DEF CreateCommit
    <2> QED
        BY <1>2, <2>1, <2>2 DEF CreateCommit, CreateAllowed
<1>3. CASE PatchCommit(r)
    BY <1>3 DEF PatchCommit, PatchAllowed
<1>4. CASE DeleteCommit(r)
    <2>1. heir[r] \in Masters \cup {NoMaster} /\ heir[r] # target[r]
        BY <1>4 DEF DeleteCommit, RequestsTyped, InFlight
    <2>2. ASSUME NEW n \in Nodes PROVE owner'[n] \in registered' \cup {NoMaster}
        <3>1. CASE owner[n] = target[r]
            <4>1. n \in NodesOf(target[r])
                BY <3>1 DEF NodesOf
            <4> QED
                BY <1>4, <2>1, <3>1, <4>1 DEF DeleteCommit, DeleteAllowed
        <3>2. CASE owner[n] # target[r]
            BY <1>4, <3>2 DEF DeleteCommit
        <3> QED
            BY <3>1, <3>2
    <2>3. owner' \in [Nodes -> registered' \cup {NoMaster}]
        BY <1>4, <2>2 DEF DeleteCommit
    <2> QED
        BY <1>4, <2>3 DEF DeleteCommit
<1> QED
    BY <1>1, <1>2, <1>3, <1>4 DEF Request, Create, CreateStart, CreateFails, Patch, PatchLoad,
       PatchCount, PatchOthers, PatchFails, Delete, DeleteLoad, DeleteCount, DeleteNodes, DeleteFails,
       Fails, Reads, registryVars

-----------------------------------------------------------------------------
(* Type correctness: presence, health, provisioning                        *)

PresenceTyped ==
    /\ status \in [Nodes -> NodeStatus]
    /\ seen \in [Nodes -> Age]

Found == MasterStatus \cup {"none"}

HealthTyped ==
    /\ mstatus \in [Masters -> MasterStatus]
    /\ poller \in [Pollers -> [step : {"idle", "probe"}, left : SUBSET Masters,
                               was : [Masters -> MasterStatus], result : [Masters -> Found]]]
    /\ test \in [Tests -> [step : {"idle", "probe", "commit", "done"}, of : Masters \cup {NoMaster},
                           was : MasterStatus, result : Found]]
    /\ \A t \in Tests : test[t].step = "commit" => test[t].result # "none"

ProvisionTyped ==
    /\ pstatus \in [Masters -> ProvisionStatus]
    /\ step \in [Provisions -> Step]
    /\ run \in [Provisions -> RunStatus]
    /\ probed \in [Provisions -> Found]

\* A probe finds one of three results.
LEMMA ProbeTyped == \A m : Probe(m) \in MasterStatus
BY DEF Probe, Aggregate, MasterStatus

\* Sweeps, attachments and reports attribute nodes to masters that exist, as
\* the foreign key has it.
LEMMA PresenceOwner ==
    ASSUME RegistryTyped, Presence
    PROVE  RegistryTyped'
<1> USE DEF RegistryTyped, OneDefault
<1>1. CASE UNCHANGED <<registryVars, owner>>
    BY <1>1 DEF registryVars
<1>2. ASSUME NEW s \in Sweeps, SweepCommit(s) PROVE RegistryTyped'
    <2>1. UNCHANGED registryVars
        BY <1>2 DEF SweepCommit
    <2>2. CASE UNCHANGED owner
        BY <2>1, <2>2 DEF registryVars
    <2>3. ASSUME NEW chosen \in [Nodes -> Masters \cup {NoMaster}], owner' = chosen,
                 \A n \in Nodes \ Reassigned(s) : chosen[n] = owner[n],
                 \A n \in Reassigned(s) : chosen[n] \in registered
          PROVE  RegistryTyped'
        <3>1. chosen \in [Nodes -> registered \cup {NoMaster}]
            BY <2>3
        <3> QED
            BY <2>1, <2>3, <3>1 DEF registryVars
    <2> QED
        BY <1>2, <2>2, <2>3 DEF SweepCommit
<1>3. ASSUME NEW a \in Attachments, AttachOwn(a) PROVE RegistryTyped'
    BY <1>3 DEF AttachOwn, MayOwn, registryVars
<1> QED
    BY <1>1, <1>2, <1>3 DEF Presence, Sweep, SweepStart, SweepPoll, SweepLoad, Attach, AttachMinions,
       AttachLoad, AttachRun, AttachAccept, Ingest, IngestLoad, IngestCommit, TimePasses, EnableNode,
       SetMaintenanceMode, MinionTurns, MasterTurns, MarkStaleNodes, masterVars

\* What presence writes of a node.
LEMMA PresenceStep ==
    ASSUME PresenceTyped, Presence
    PROVE  PresenceTyped'
<1> USE DEF PresenceTyped, NodeStatus, Age, Flush
<1>1. CASE UNCHANGED <<status, seen>>
    BY <1>1
<1>2. ASSUME NEW s \in Sweeps, SweepCommit(s) PROVE PresenceTyped'
    BY <1>2 DEF SweepCommit
<1>3. CASE MarkStaleNodes
    BY <1>3 DEF MarkStaleNodes
<1>4. ASSUME NEW n \in Nodes, TimePasses(n) \/ EnableNode(n) PROVE PresenceTyped'
    BY <1>4 DEF TimePasses, EnableNode, worldVars
<1>5. ASSUME NEW g \in Reports, IngestCommit(g) PROVE PresenceTyped'
    BY <1>5 DEF IngestCommit
<1> QED
    BY <1>1, <1>2, <1>3, <1>4, <1>5 DEF Presence, Sweep, SweepStart, SweepPoll, SweepLoad, Attach,
       AttachMinions, AttachLoad, AttachRun, AttachAccept, AttachOwn, Ingest, IngestLoad,
       SetMaintenanceMode, MinionTurns, MasterTurns, nodeVars

\* What polls and tests write of a master.
LEMMA HealthStep ==
    ASSUME RegistryTyped, HealthTyped, Health
    PROVE  HealthTyped'
<1> USE ProbeTyped DEF HealthTyped, Found, MasterStatus
<1>1. ASSUME NEW p \in Pollers, PollStart(p) PROVE HealthTyped'
    BY <1>1 DEF PollStart, NoPoll, RegistryTyped
<1>2. ASSUME NEW p \in Pollers, NEW m \in Masters, PollProbe(p, m) PROVE HealthTyped'
    <2> DEFINE new == [poller[p].result EXCEPT ![m] = Probe(m)]
               row == [step |-> "probe", left |-> poller[p].left \ {m}, was |-> poller[p].was, result |-> new]
    <2>1. poller' = [poller EXCEPT ![p] = row]
        BY <1>2 DEF PollProbe
    <2>2. new \in [Masters -> Found]
        OBVIOUS
    <2> HIDE DEF new
    <2>3. row \in [step : {"idle", "probe"}, left : SUBSET Masters,
                   was : [Masters -> MasterStatus], result : [Masters -> Found]]
        BY <2>2
    <2> HIDE DEF row
    <2> QED
        BY <1>2, <2>1, <2>3 DEF PollProbe
<1>3. ASSUME NEW p \in Pollers, PollCommit(p) PROVE HealthTyped'
    <2>1. NoPoll \in [step : {"idle", "probe"}, left : SUBSET Masters,
                      was : [Masters -> MasterStatus], result : [Masters -> Found]]
        BY DEF NoPoll
    <2>2. \A m \in Masters : m \in Polled(p) => Written(p, m) \in MasterStatus
        BY DEF Polled, Written
    <2>3. mstatus' \in [Masters -> MasterStatus]
        BY <1>3, <2>2 DEF PollCommit
    <2> QED
        BY <1>3, <2>1, <2>3 DEF PollCommit
<1>4. ASSUME NEW t \in Tests, NEW m \in Masters, TestLoad(t, m) PROVE HealthTyped'
    BY <1>4 DEF TestLoad
<1>5. ASSUME NEW t \in Tests, TestProbe(t) PROVE HealthTyped'
    <2>1. PICK f \in {Probe(test[t].of), "unreachable"} :
                  test' = [test EXCEPT ![t] =
                             [step |-> "commit", of |-> test[t].of, was |-> test[t].was, result |-> f]]
        BY <1>5 DEF TestProbe
    <2>2. f \in MasterStatus
        BY <2>1
    <2> DEFINE row == [step |-> "commit", of |-> test[t].of, was |-> test[t].was, result |-> f]
    <2>3. test' = [test EXCEPT ![t] = row]
        BY <2>1
    <2>4. row \in [step : {"idle", "probe", "commit", "done"}, of : Masters \cup {NoMaster},
                   was : MasterStatus, result : Found] /\ row.result # "none"
        BY <2>2
    <2> HIDE DEF row
    <2> QED
        BY <1>5, <2>3, <2>4 DEF TestProbe
<1>6. ASSUME NEW t \in Tests, TestCommit(t) PROVE HealthTyped'
    <2>1. test[t].result \in MasterStatus
        BY <1>6 DEF TestCommit
    <2>2. mstatus' \in [Masters -> MasterStatus]
        <3>1. CASE UNCHANGED mstatus
            BY <3>1
        <3>2. CASE ~UNCHANGED mstatus
            <4>1. PICK f \in MasterStatus : mstatus' = [mstatus EXCEPT ![test[t].of] = f]
                BY <1>6, <2>1, <3>2 DEF TestCommit
            <4> QED
                BY <4>1
        <3> QED
            BY <3>1, <3>2
    <2> QED
        BY <1>6, <2>2 DEF TestCommit
<1>7. ASSUME NEW m \in Masters, CheckAges(m) \/ ConditionChanges(m) PROVE HealthTyped'
    BY <1>7 DEF CheckAges, ConditionChanges
<1> QED
    BY <1>1, <1>2, <1>3, <1>4, <1>5, <1>6, <1>7 DEF Health, Poll, Test

\* What a provisioning writes.
LEMMA ProvisionStep ==
    ASSUME HealthTyped, ProvisionTyped, Provision
    PROVE  HealthTyped' /\ ProvisionTyped'
<1> USE ProbeTyped
    DEF HealthTyped, ProvisionTyped, Found, MasterStatus, ProvisionStatus, Step, RunStatus, SetStatus,
        SetRun, AtStep
<1>1. ASSUME NEW v \in Provisions, NEW m \in Masters, TriggerProvision(v, m)
      PROVE  ProvisionTyped' /\ mstatus' = mstatus
    BY <1>1 DEF TriggerProvision
<1>2. ASSUME NEW v \in Provisions, ProvisionStart(v) PROVE ProvisionTyped' /\ mstatus' = mstatus
    <2>1. pstatus' \in [Masters -> ProvisionStatus]
        <3>1. CASE UNCHANGED pstatus
            BY <3>1
        <3>2. CASE ~UNCHANGED pstatus
            <4>1. PICK f \in ProvisionStatus : pstatus' = [pstatus EXCEPT ![master[v]] = f]
                BY <1>2, <3>2 DEF ProvisionStart
            <4> QED
                BY <4>1
        <3> QED
            BY <3>1, <3>2
    <2>3. step' \in [Provisions -> Step]
        BY <1>2 DEF ProvisionStart
    <2>2. run' \in [Provisions -> RunStatus]
        BY <1>2 DEF ProvisionStart
    <2> QED
        BY <1>2, <2>1, <2>2, <2>3 DEF ProvisionStart
<1>3. ASSUME NEW v \in Provisions, PreflightFails(v) PROVE ProvisionTyped' /\ mstatus' = mstatus
    BY <1>3 DEF PreflightFails
<1>4. ASSUME NEW v \in Provisions, PlaybookEnds(v) PROVE ProvisionTyped' /\ mstatus' = mstatus
    BY <1>4 DEF PlaybookEnds
<1>5. ASSUME NEW v \in Provisions, ProvisionProbe(v) PROVE ProvisionTyped' /\ mstatus' = mstatus
    <2>1. PICK f \in {"none"} \cup {Probe(m) : m \in {master[v]} \cap registered} :
                  probed' = [probed EXCEPT ![v] = f]
        BY <1>5 DEF ProvisionProbe
    <2>2. f \in Found
        BY <2>1
    <2> QED
        BY <1>5, <2>1, <2>2 DEF ProvisionProbe
<1>6. ASSUME NEW v \in Provisions, ProvisionFinish(v)
      PROVE  ProvisionTyped' /\ mstatus' \in [Masters -> MasterStatus]
    BY <1>6 DEF ProvisionFinish
<1>7. ASSUME NEW v \in Provisions, ProvisionReturns(v) \/ ProvisionRaises(v) \/ ProvisionLost(v)
      PROVE  ProvisionTyped' /\ mstatus' = mstatus
    <2>1. step' \in [Provisions -> Step] /\ UNCHANGED <<run, probed, mstatus>>
        BY <1>7 DEF ProvisionReturns, ProvisionRaises, ProvisionLost
    <2>2. pstatus' \in [Masters -> ProvisionStatus]
        BY <1>7 DEF ProvisionReturns, ProvisionRaises, ProvisionLost
    <2> QED
        BY <2>1, <2>2
<1>8. ASSUME NEW v \in Provisions, ProvisionCleanup(v) PROVE ProvisionTyped' /\ mstatus' = mstatus
    BY <1>8 DEF ProvisionCleanup
<1>9. ASSUME NEW v \in Provisions, RunAges(v) PROVE ProvisionTyped' /\ mstatus' = mstatus
    BY <1>9 DEF RunAges
<1>10. CASE ReapOrphans
    <2>1. ProvisionTyped' /\ mstatus' = mstatus
        BY <1>10 DEF ReapOrphans
    <2> QED
        BY <1>10, <2>1 DEF Provision
<1>11. ProvisionTyped' /\ mstatus' \in [Masters -> MasterStatus]
    BY <1>1, <1>2, <1>3, <1>4, <1>5, <1>6, <1>7, <1>8, <1>9, <1>10 DEF Provision, ProvisionEnds
<1> QED
    BY <1>11 DEF Provision

Typed ==
    RegistryTyped /\ RequestsTyped /\ PresenceTyped /\ HealthTyped /\ ProvisionTyped

\* The workloads start from a sound registry.
LEMMA InitTyped == Init => Typed
<1> SUFFICES ASSUME Init PROVE Typed
    OBVIOUS
<1> USE MastersAssumption DEF Init
<1>1. RegistryTyped
    BY WorkloadsAssumption DEF InitMasters, RegistryTyped, OneDefault
<1>2. RequestsTyped
    BY DEF InitMasters, RequestsTyped, Stages, InFlight
<1>3. PresenceTyped
    BY DEF InitPresence, PresenceTyped, NodeStatus, Age
<1>4. HealthTyped
    BY DEF InitHealth, HealthTyped, NoPoll, Found, MasterStatus
<1>5. ProvisionTyped
    BY DEF InitProvision, ProvisionTyped, ProvisionStatus, Step, RunStatus, Found
<1> QED
    BY <1>1, <1>2, <1>3, <1>4, <1>5 DEF Typed

\* Every step keeps the types.
LEMMA NextTyped == Typed /\ [Next]_vars => Typed'
<1> SUFFICES ASSUME Typed, [Next]_vars PROVE Typed'
    OBVIOUS
<1>1. ASSUME NEW r \in Requests, Request(r), RunsFollow, UNCHANGED <<presenceVars, healthVars>>
      PROVE  Typed'
    <2>1. RegistryTyped' /\ RequestsTyped'
        BY <1>1, RegistryTypedStep, RequestsTypedStep DEF Typed
    <2>2. PresenceTyped' /\ HealthTyped'
        BY <1>1 DEF Typed, PresenceTyped, HealthTyped, presenceVars, nodeVars, healthVars
    <2>3. ProvisionTyped'
        BY <1>1 DEF Typed, ProvisionTyped, RunsFollow, RunStatus
    <2> QED
        BY <2>1, <2>2, <2>3 DEF Typed
<1>2. CASE Presence /\ UNCHANGED <<healthVars, provisionVars>>
    <2>1. RegistryTyped' /\ PresenceTyped'
        BY <1>2, PresenceOwner, PresenceStep DEF Typed
    <2>2. UNCHANGED requestVars
        BY <1>2 DEF Presence, Sweep, SweepStart, SweepPoll, SweepLoad, SweepCommit, Attach, AttachMinions,
           AttachLoad, AttachRun, AttachAccept, AttachOwn, Ingest, IngestLoad, IngestCommit, TimePasses,
           EnableNode, SetMaintenanceMode, MinionTurns, MasterTurns, MarkStaleNodes, masterVars
    <2>3. RequestsTyped' /\ HealthTyped' /\ ProvisionTyped'
        BY <1>2, <2>2 DEF Typed, RequestsTyped, HealthTyped, ProvisionTyped, requestVars, healthVars,
           provisionVars
    <2> QED
        BY <2>1, <2>3 DEF Typed
<1>3. CASE Health /\ UNCHANGED <<masterVars, presenceVars, provisionVars>>
    <2>1. HealthTyped'
        BY <1>3, HealthStep DEF Typed
    <2> QED
        BY <1>3, <2>1 DEF Typed, RegistryTyped, OneDefault, RequestsTyped, PresenceTyped, ProvisionTyped,
           masterVars, registryVars, requestVars, presenceVars, nodeVars, provisionVars
<1>4. CASE Provision /\ UNCHANGED <<masterVars, presenceVars>>
    <2>1. HealthTyped' /\ ProvisionTyped'
        BY <1>4, ProvisionStep DEF Typed
    <2> QED
        BY <1>4, <2>1 DEF Typed, RegistryTyped, OneDefault, RequestsTyped, PresenceTyped,
           masterVars, registryVars, requestVars, presenceVars, nodeVars
<1>5. CASE UNCHANGED vars
    BY <1>5 DEF vars, Typed, RegistryTyped, OneDefault, RequestsTyped, PresenceTyped, HealthTyped,
       ProvisionTyped, masterVars, registryVars, requestVars, presenceVars, nodeVars, healthVars,
       provisionVars
<1> QED
    BY <1>1, <1>2, <1>3, <1>4, <1>5 DEF Next

\* The tables keep to their types and to each other: one default master at
\* most, and no node attributed to a master that is gone.
THEOREM TypeCorrect == Spec => []TypeOK
<1>1. Typed => TypeOK
    <2> SUFFICES ASSUME Typed PROVE TypeOK
        OBVIOUS
    <2>1. Cardinality(isDefault) <= 1
        <3>1. CASE isDefault = {}
            BY <3>1, FS_EmptySet
        <3>2. ASSUME NEW m \in isDefault PROVE Cardinality(isDefault) <= 1
            <4>1. isDefault = {m}
                BY DEF Typed, RegistryTyped, OneDefault
            <4> QED
                BY <4>1, FS_Singleton
        <3> QED
            BY <3>1, <3>2
    <2> QED
        BY <2>1 DEF Typed, RegistryTyped, RequestsTyped, PresenceTyped, HealthTyped, ProvisionTyped,
           Stages, TypeOK
<1> QED
    BY <1>1, InitTyped, NextTyped, PTL DEF Spec
=============================================================================
