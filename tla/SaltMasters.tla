---------------------------- MODULE SaltMasters ----------------------------
(***************************************************************************)
(* The registry of Salt masters: create, update and delete of              *)
(* api/routes/salt_masters.py on the table salt_masters, and the column    *)
(* salt_master_id of the nodes.                                            *)
(*                                                                         *)
(* Every request is one database transaction at READ COMMITTED: each       *)
(* SELECT sees what is committed by then, takes no lock, and the changes   *)
(* are sent and committed at its end, the UPDATEs in the order of primary  *)
(* keys and before an INSERT.  Three things the database itself refuses:   *)
(* a second default master (the partial unique index                       *)
(* uq_salt_masters_one_default, checked row by row), a node that refers to *)
(* a master that is gone (foreign key), and, in SQLAlchemy, an UPDATE of a *)
(* row that is gone (StaleDataError).  The request then changes nothing.   *)
(*                                                                         *)
(* A master is named by its primary key, a random uuid: a number here,     *)
(* because the order of the keys matters.                                  *)
(***************************************************************************)
EXTENDS Naturals, FiniteSets

CONSTANTS
    Masters,     \* the primary keys a master may get
    Nodes,
    NoMaster,    \* NULL in a column that refers to a master
    Requests,    \* requests of administrators
    Bodies,      \* bound: the PATCH bodies
    Workloads    \* bound: a registry to start from, and who acts on it

ASSUME MastersAssumption == Masters \subseteq Nat /\ IsFiniteSet(Masters) /\ NoMaster \notin Masters
ASSUME NonEmpty == Masters # {} /\ Bodies # {}

\* What a PATCH body says of a flag: nothing, true or false.
Flag == {"unset", "yes", "no"}
ASSUME BodiesAssumption == Bodies \subseteq [enabled : Flag, is_default : Flag]

\* A behaviour starts from one of a few registries, and only some of the
\* processes of the modules that extend this one act in it.
ASSUME WorkloadsAssumption ==
    \A w \in Workloads :
        /\ w.enabled \subseteq Masters /\ w.disabled \subseteq Masters
        /\ w.isDefault \subseteq w.enabled \cup w.disabled
        /\ \A m, o \in w.isDefault : m = o
        /\ w.owner \in [Nodes -> w.enabled \cup w.disabled \cup {NoMaster}]
        /\ w.changes \in Nat

VARIABLES
    workload,      \* the workload of this behaviour
    registered,    \* the masters in the table
    enabled,       \* those whose column enabled is true
    isDefault,     \* those whose column is_default is true
    owner,         \* salt_master_id of each node
    pc,            \* step of each request
    target,        \* the master it is about
    body,          \* its body; of a creation, the columns of the new row
    saw,           \* the flags of the row it loaded
    cleared,       \* the other default masters it loaded to clear their flag
    heir,          \* the default master a deletion gives the nodes to
    stale,         \* history: requests under way when another change committed
    raced          \* history: such a request committed all the same

registryVars == <<registered, enabled, isDefault>>
requestVars == <<pc, target, body, saw, cleared, heir>>
masterVars == <<workload, registryVars, owner, requestVars, stale, raced>>

Row == [enabled : BOOLEAN, is_default : BOOLEAN]

InFlight == {"create", "count", "others", "patch", "deleteCount", "deleteNodes", "delete"}

Goto(r, l) == pc' = [pc EXCEPT ![r] = l]

\* It goes on with what it has read.
Reads(r, l) ==
    /\ Goto(r, l)
    /\ UNCHANGED <<workload, registryVars, owner, target, body, saw, cleared, heir, stale, raced>>

NoBody == CHOOSE b \in Bodies : TRUE
NoRow == [enabled |-> FALSE, is_default |-> FALSE]

\* A request ends at l, and with it what it had read.
Ends(r, l) ==
    /\ Goto(r, l)
    /\ body' = [body EXCEPT ![r] = NoBody]
    /\ saw' = [saw EXCEPT ![r] = NoRow]
    /\ cleared' = [cleared EXCEPT ![r] = {}]
    /\ heir' = [heir EXCEPT ![r] = NoMaster]
    /\ UNCHANGED <<workload, target>>

\* It ends without an effect: 409, or an error of the database.
Fails(r, l) == Ends(r, l) /\ UNCHANGED <<registryVars, owner, stale, raced>>

\* Its changes are committed: the other requests under way decide on what
\* they read before.
Commits(r) ==
    /\ Ends(r, "done")
    /\ stale' = stale \cup {s \in Requests \ {r} : pc[s] \in InFlight}
    /\ raced' = (raced \/ r \in stale)

-----------------------------------------------------------------------------
(* POST /masters                                                           *)

\* Name and endpoint are new.  A default master clears the flag of the
\* others it finds.
CreateStart(r, m, b) ==
    /\ pc[r] = "idle"
    /\ m \notin registered /\ \A s \in Requests : target[s] # m
    /\ b.enabled # "unset" /\ b.is_default # "unset"
    /\ target' = [target EXCEPT ![r] = m]
    /\ body' = [body EXCEPT ![r] = b]
    /\ cleared' = [cleared EXCEPT ![r] = IF b.is_default = "yes" THEN isDefault ELSE {}]
    /\ Goto(r, "create")
    /\ UNCHANGED <<workload, registryVars, owner, saw, heir, stale, raced>>

\* The flags are cleared before the new row is inserted.
CreateAllowed(r) ==
    /\ cleared[r] \subseteq registered
    /\ body[r].is_default = "yes" => isDefault \subseteq cleared[r]

CreateCommit(r) ==
    LET m == target[r] IN
    /\ pc[r] = "create"
    /\ CreateAllowed(r)
    /\ registered' = registered \cup {m}
    /\ enabled' = IF body[r].enabled = "yes" THEN enabled \cup {m} ELSE enabled
    /\ isDefault' = (isDefault \ cleared[r])
                      \cup (IF body[r].is_default = "yes" THEN {m} ELSE {})
    /\ Commits(r)
    /\ UNCHANGED owner

CreateFails(r) ==
    /\ pc[r] = "create"
    /\ ~CreateAllowed(r)
    /\ Fails(r, "failed")

-----------------------------------------------------------------------------
(* PATCH /masters/{id}                                                     *)

PatchLoad(r, m, b) ==
    /\ pc[r] = "idle"
    /\ m \in registered
    /\ target' = [target EXCEPT ![r] = m]
    /\ body' = [body EXCEPT ![r] = b]
    /\ saw' = [saw EXCEPT ![r] = [enabled |-> m \in enabled, is_default |-> m \in isDefault]]
    /\ Goto(r, IF b.enabled = "no" /\ m \in enabled THEN "count" ELSE "others")
    /\ UNCHANGED <<workload, registryVars, owner, cleared, heir, stale, raced>>

\* MUTANT of LastEnabled: off by one.
NoneEnabled == Cardinality(enabled) < 1

\* Nothing but one master is enabled.
LastEnabled == Cardinality(enabled) <= 1

\* The guard of the last enabled master.
PatchCount(r) ==
    /\ pc[r] = "count"
    /\ IF LastEnabled THEN Fails(r, "refused")
       ELSE Reads(r, "others")

Promotes(r) == body[r].is_default = "yes" /\ ~saw[r].is_default

\* A promotion clears the flag of the others.
PatchOthers(r) ==
    /\ pc[r] = "others"
    /\ cleared' = [cleared EXCEPT ![r] = IF Promotes(r) THEN isDefault \ {target[r]} ELSE {}]
    /\ Goto(r, "patch")
    /\ UNCHANGED <<workload, registryVars, owner, target, body, saw, heir, stale, raced>>

\* The session sends an UPDATE only for the columns that differ from the row
\* it loaded.
Disables(r) == body[r].enabled = "no" /\ saw[r].enabled
Enables(r) == body[r].enabled = "yes" /\ ~saw[r].enabled
Demotes(r) == body[r].is_default = "no" /\ saw[r].is_default

\* Every row it updates is still there; and when the flag of the promoted
\* row is set, every other flag is cleared: the UPDATEs of rows with a
\* smaller key went before, those of rows with a greater one come after.
PatchAllowed(r) ==
    /\ cleared[r] \subseteq registered
    /\ Disables(r) \/ Enables(r) \/ Promotes(r) \/ Demotes(r) => target[r] \in registered
    /\ Promotes(r) => \A o \in isDefault \ {target[r]} : o \in cleared[r] /\ o < target[r]

PatchCommit(r) ==
    LET m == target[r] IN
    /\ pc[r] = "patch"
    /\ PatchAllowed(r)
    /\ enabled' = IF Disables(r) THEN enabled \ {m}
                  ELSE IF Enables(r) THEN enabled \cup {m} ELSE enabled
    /\ isDefault' = IF Promotes(r) THEN (isDefault \ cleared[r]) \cup {m}
                    ELSE IF Demotes(r) THEN isDefault \ {m} ELSE isDefault
    /\ Commits(r)
    /\ UNCHANGED <<registered, owner>>

PatchFails(r) ==
    /\ pc[r] = "patch"
    /\ ~PatchAllowed(r)
    /\ Fails(r, "failed")

-----------------------------------------------------------------------------
(* DELETE /masters/{id}                                                    *)

\* The default master is never deleted.
DeleteLoad(r, m) ==
    /\ pc[r] = "idle"
    /\ m \in registered
    /\ target' = [target EXCEPT ![r] = m]
    /\ Goto(r, IF m \in isDefault THEN "refused"
               ELSE IF m \in enabled THEN "deleteCount" ELSE "deleteNodes")
    /\ UNCHANGED <<workload, registryVars, owner, body, saw, cleared, heir, stale, raced>>

DeleteCount(r) ==
    /\ pc[r] = "deleteCount"
    /\ IF LastEnabled THEN Fails(r, "refused")
       ELSE Reads(r, "deleteNodes")

NodesOf(m) == {n \in Nodes : owner[n] = m}

\* Its nodes go to the default master; without one, only a master without
\* nodes is deleted.
DeleteNodes(r) ==
    /\ pc[r] = "deleteNodes"
    /\ \/ /\ NodesOf(target[r]) = {}
          /\ Reads(r, "delete")
       \/ /\ NodesOf(target[r]) # {}
          /\ \E h \in isDefault \ {target[r]} : heir' = [heir EXCEPT ![r] = h]
          /\ Goto(r, "delete")
          /\ UNCHANGED <<workload, registryVars, owner, target, body, saw, cleared, stale, raced>>
       \/ /\ NodesOf(target[r]) # {}
          /\ isDefault \subseteq {target[r]}
          /\ Fails(r, "refused")

\* The foreign key refuses an heir that is gone; ON DELETE SET NULL frees
\* the nodes that came after they were counted.
DeleteAllowed(r) == NodesOf(target[r]) # {} /\ heir[r] # NoMaster => heir[r] \in registered

DeleteCommit(r) ==
    LET m == target[r] IN
    /\ pc[r] = "delete"
    /\ DeleteAllowed(r)
    /\ owner' = [n \in Nodes |-> IF owner[n] = m THEN heir[r] ELSE owner[n]]
    /\ registered' = registered \ {m}
    /\ enabled' = enabled \ {m}
    /\ isDefault' = isDefault \ {m}
    /\ Commits(r)

DeleteFails(r) ==
    /\ pc[r] = "delete"
    /\ ~DeleteAllowed(r)
    /\ Fails(r, "failed")

-----------------------------------------------------------------------------
InitMasters ==
    /\ workload \in Workloads
    /\ enabled = workload.enabled
    /\ registered = enabled \cup workload.disabled
    /\ isDefault = workload.isDefault
    /\ owner = workload.owner
    /\ pc = [r \in Requests |-> "idle"]
    /\ target = [r \in Requests |-> NoMaster]
    /\ body = [r \in Requests |-> NoBody]
    /\ saw = [r \in Requests |-> NoRow]
    /\ cleared = [r \in Requests |-> {}]
    /\ heir = [r \in Requests |-> NoMaster]
    /\ stale = {}
    /\ raced = FALSE

Create(r) ==
    \/ \E m \in Masters, b \in Bodies : CreateStart(r, m, b)
    \/ CreateCommit(r) \/ CreateFails(r)

Patch(r) ==
    \/ \E m \in Masters, b \in Bodies : PatchLoad(r, m, b)
    \/ PatchCount(r) \/ PatchOthers(r) \/ PatchCommit(r) \/ PatchFails(r)

Delete(r) ==
    \/ \E m \in Masters : DeleteLoad(r, m)
    \/ DeleteCount(r) \/ DeleteNodes(r) \/ DeleteCommit(r) \/ DeleteFails(r)

\* A step of request r.
Request(r) == r \in workload.actors /\ (Create(r) \/ Patch(r) \/ Delete(r))
=============================================================================
