---------------------------- MODULE MasterFleet ----------------------------
(***************************************************************************)
(* The Salt masters of the fleet: their registry, their health, their      *)
(* provisioning, and the nodes attributed to them, all on the same rows.   *)
(***************************************************************************)
EXTENDS NodePresence, MasterProvision

vars == <<masterVars, presenceVars, healthVars, provisionVars>>

Init == InitMasters /\ InitPresence /\ InitHealth /\ InitProvision

Next ==
    \/ /\ \E r \in Requests : Request(r)
       /\ RunsFollow
       /\ UNCHANGED <<presenceVars, healthVars>>
    \/ Presence /\ UNCHANGED <<healthVars, provisionVars>>
    \/ Health /\ UNCHANGED <<masterVars, presenceVars, provisionVars>>
    \/ Provision /\ UNCHANGED <<masterVars, presenceVars>>

Spec == Init /\ [][Next]_vars

FairSpec == Spec /\ PresenceFairness /\ HealthFairness /\ ProvisionFairness

-----------------------------------------------------------------------------
(* Properties                                                              *)

\* Columns hold the values they may hold, at most one master is the default
\* one, and no node refers to a master that is gone.
TypeOK ==
    /\ registered \subseteq Masters /\ enabled \subseteq registered /\ isDefault \subseteq registered
    /\ Cardinality(isDefault) <= 1
    /\ owner \in [Nodes -> registered \cup {NoMaster}]
    /\ pc \in [Requests -> InFlight \cup {"idle", "done", "refused", "failed"}]
    /\ status \in [Nodes -> NodeStatus]
    /\ seen \in [Nodes -> Age]
    /\ mstatus \in [Masters -> MasterStatus]
    /\ pstatus \in [Masters -> ProvisionStatus]
    /\ step \in [Provisions -> Step]
    /\ run \in [Provisions -> RunStatus]

\* As long as no request on the registry commits on what another one has
\* changed meanwhile: a fleet that has an enabled master keeps one ("at least
\* one must remain enabled"), and its default master ("cannot remove the
\* DEFAULT master") goes only when a request says so.
EnabledRemains == enabled # {} => enabled' # {}

DefaultRemains ==
    isDefault # {} /\ isDefault' = {} =>
        \E r \in Requests : pc[r] = "patch" /\ pc'[r] = "done" /\ Demotes(r)

RegistryStaysUsable == [][~raced' => EnabledRemains /\ DefaultRemains]_vars

\* A node whose minion is connected to an enabled master that answers keeps
\* coming back online; one whose minion is silent does not stay online or
\* stale.  (Sweeps act in this behaviour, and the node is not in maintenance.)
Swept == Sweeps \cap workload.actors # {}
Connected(n) == Reaching(n) \cap enabled # {} /\ n \notin maint
Silent(n) == n \notin alive /\ n \notin maint

StatusFollows ==
    \A n \in Nodes :
        /\ Swept /\ <>[]Connected(n) => []<>(status[n] = "online")
        /\ <>[]Silent(n) => <>[](status[n] \notin {"online", "stale"})

\* The master a connected node is attributed to is in the end one that
\* reaches it, whatever deletions, attachments and stale sweeps wrote.
AttributionFollows ==
    \A n \in Nodes : Swept /\ <>[]Connected(n) => <>[](owner[n] \in Reaching(n) \cap enabled)

\* What the platform shows of a node is in the end what the node does: both
\* its status and its master, whose rows the same sweeps write.
PresenceFollows == StatusFollows /\ AttributionFollows

\* The status of an enabled master is in the end what it answers: unreachable
\* if its salt-api does not let the platform in, healthy if all is well.
ShouldBe(c) ==
    IF ~c.configured \/ c.auth # "ok" THEN "unreachable"
    ELSE IF {c.dns, c.publish, c.ret, c.keys, c.versions, c.minions} = {"ok"} /\ c.token # "ingestWithoutUrl"
    THEN "healthy"
    ELSE "degraded"

HealthFollows ==
    \A m \in Masters :
        Pollers \cap workload.actors # {} /\ <>[](m \in enabled)
            => <>[](mstatus[m] = ShouldBe(condition[m]))

\* A master does not stay provisioning for ever, whatever happens to its
\* tasks, unless a finally clause settled the run of another task.
ProvisioningEnds ==
    \A m \in Masters :
        pstatus[m] = "provisioning" ~> pstatus[m] # "provisioning" \/ m \notin registered \/ misfiled
=============================================================================
