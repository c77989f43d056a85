---------------------------- MODULE NodePresence ----------------------------
(***************************************************************************)
(* What the fleet shows of a node's presence: its status, when it was last *)
(* seen, and the master it is attributed to.  Written by the presence      *)
(* sweep (workers/salt_presence_tasks.py), mark_stale_nodes                *)
(* (workers/maintenance.py), the ingest of grains, the agent's tool        *)
(* enable_node, the maintenance switch and the attachment of minions to a  *)
(* master (reconfigure_minions of workers/ansible_tasks.py).               *)
(*                                                                         *)
(* The world they look at: the minions that run, the masters each of them  *)
(* is connected to (they are in its configuration and accepted its key),   *)
(* and the masters whose salt-api answers.                                 *)
(***************************************************************************)
EXTENDS SaltMasters

CONSTANTS
    Sweeps,        \* presence sweeps, which may overlap
    Attachments,   \* reconfigure_minions, one node each
    Reports        \* requests that ingest grains

VARIABLES
    alive,      \* the minions that run
    listens,    \* the masters each minion is connected to while it runs
    running,    \* the masters whose salt-api answers
    status,     \* column status of each node
    seen,       \* age of its last_seen_at
    maint,      \* the nodes in maintenance
    sweep,      \* what each sweep has read
    attach,     \* what each attachment has read
    report,     \* what each report has read
    changes     \* how often the world and the operators changed something

worldVars == <<alive, listens, running, changes>>
nodeVars == <<status, seen, maint>>
presenceVars == <<worldVars, nodeVars, sweep, attach, report>>

NodeStatus == {"unknown", "online", "stale", "offline", "active"}

\* last_seen_at: NULL, less than 15 minutes ago, more, more than four hours.
Age == {"null", "recent", "stale", "offline"}

\* The masters that report the minion up.
Reaching(n) == IF n \in alive THEN listens[n] \cap running ELSE {}

\* What a session sends for a column: nothing, when the value is the one it
\* loaded, even if the row has changed since.
Flush(loaded, value, column) == IF value = loaded THEN column ELSE value

Loaded(n) == [status |-> status[n], owner |-> owner[n], maint |-> n \in maint]

NoNode == [status |-> "unknown", owner |-> NoMaster, maint |-> FALSE]

NoSweep == [step |-> "idle", left |-> {}, first |-> {}, up |-> [n \in Nodes |-> {}],
            row |-> [n \in Nodes |-> NoNode]]

-----------------------------------------------------------------------------
(* sync_minion_presence                                                    *)

\* The masters to poll, and which of them is the default one, are read once.
SweepStart(s) ==
    /\ s \in workload.actors
    /\ sweep[s].step = "idle"
    /\ enabled # {}
    /\ sweep' = [sweep EXCEPT ![s] =
                   [@ EXCEPT !.step = "poll", !.left = enabled, !.first = isDefault \cap enabled]]
    /\ UNCHANGED <<masterVars, worldVars, nodeVars, attach, report>>

\* manage.up of one master; one that does not answer is passed over.
SweepPoll(s, m) ==
    /\ sweep[s].step = "poll"
    /\ m \in sweep[s].left
    /\ sweep' = [sweep EXCEPT ![s] =
                   [@ EXCEPT !.left = sweep[s].left \ {m},
                             !.up = [n \in Nodes |-> sweep[s].up[n] \cup ({m} \cap Reaching(n))]]]
    /\ UNCHANGED <<masterVars, worldVars, nodeVars, attach, report>>

\* The SELECT of the nodes reported up; no minion up, or no master that
\* answered, and the sweep ends here.
SweepLoad(s) ==
    /\ sweep[s].step = "poll"
    /\ sweep[s].left = {}
    /\ sweep' = [sweep EXCEPT ![s] =
                   IF \A n \in Nodes : @.up[n] = {} THEN NoSweep
                   ELSE [@ EXCEPT !.step = "commit", !.row = [n \in Nodes |-> Loaded(n)]]]
    /\ UNCHANGED <<masterVars, worldVars, nodeVars, attach, report>>

\* The nodes the sweep updates.
Updated(s) == {n \in Nodes : sweep[s].up[n] # {} /\ ~sweep[s].row[n].maint}

\* MUTANT of Reassigned: only nodes without a master get one.
ReassignedUnset(s) == {n \in Updated(s) : sweep[s].row[n].owner = NoMaster}

\* Those attributed to a master that did not report them.
Reassigned(s) == {n \in Updated(s) : sweep[s].row[n].owner \notin sweep[s].up[n]}

\* The masters they may be attributed to: the default one if it reported
\* them, else any that did.
Chosen(s, n) ==
    IF sweep[s].up[n] \cap sweep[s].first # {} THEN sweep[s].up[n] \cap sweep[s].first
    ELSE sweep[s].up[n]

\* A node attributed to a master deleted since violates the foreign key, and
\* nothing of the sweep is committed.
SweepCommit(s) ==
    /\ sweep[s].step = "commit"
    /\ \E chosen \in [Nodes -> Masters \cup {NoMaster}] :
          /\ \A n \in Nodes : IF n \in Reassigned(s) THEN chosen[n] \in Chosen(s, n)
                              ELSE chosen[n] = owner[n]
          /\ IF \A n \in Reassigned(s) : chosen[n] \in registered
             THEN /\ owner' = chosen
                  /\ status' = [n \in Nodes |->
                                  IF n \in Updated(s)
                                  THEN Flush(sweep[s].row[n].status, "online", status[n])
                                  ELSE status[n]]
                  /\ seen' = [n \in Nodes |-> IF n \in Updated(s) THEN "recent" ELSE seen[n]]
             ELSE UNCHANGED <<owner, status, seen>>
    /\ sweep' = [sweep EXCEPT ![s] = NoSweep]
    /\ UNCHANGED <<workload, registryVars, requestVars, stale, raced, worldVars, maint, attach, report>>

-----------------------------------------------------------------------------
(* mark_stale_nodes and the clock                                          *)

\* MUTANT of GoesOffline: a node that is stale already stays so.
GoesOfflineFromOnline(n) == seen[n] = "offline" /\ status[n] = "online" /\ n \notin maint

GoesStale(n) == seen[n] = "stale" /\ status[n] = "online" /\ n \notin maint
GoesOffline(n) == seen[n] = "offline" /\ status[n] \in {"online", "stale"} /\ n \notin maint

MarkStaleNodes ==
    /\ status' = [n \in Nodes |-> CASE GoesStale(n) -> "stale"
                                    [] GoesOffline(n) -> "offline"
                                    [] OTHER -> status[n]]
    /\ UNCHANGED <<masterVars, worldVars, seen, maint, sweep, attach, report>>

TimePasses(n) ==
    /\ seen[n] \in {"recent", "stale"}
    /\ seen' = [seen EXCEPT ![n] = IF @ = "recent" THEN "stale" ELSE "offline"]
    /\ UNCHANGED <<masterVars, worldVars, status, maint, sweep, attach, report>>

-----------------------------------------------------------------------------
(* The other writers                                                       *)

\* ingest_grains: loads the node to check its token; the updates, with
\* status online, are committed at the end of the request.
IngestLoad(g, n) ==
    /\ g \in workload.actors
    /\ report[g].step = "idle"
    /\ n \in alive
    /\ report' = [report EXCEPT ![g] = [step |-> "commit", node |-> n, status |-> status[n]]]
    /\ UNCHANGED <<masterVars, worldVars, nodeVars, sweep, attach>>

IngestCommit(g) ==
    LET n == report[g].node IN
    /\ report[g].step = "commit"
    /\ status' = [status EXCEPT ![n] = Flush(report[g].status, "online", @)]
    /\ seen' = [seen EXCEPT ![n] = "recent"]
    /\ report' = [report EXCEPT ![g].step = "done"]
    /\ UNCHANGED <<masterVars, worldVars, maint, sweep, attach>>

\* One more change of the world or by an operator.
Changes == changes < workload.changes /\ changes' = changes + 1

\* The tool enable_node.
EnableNode(n) ==
    /\ Changes
    /\ status' = [status EXCEPT ![n] = "active"]
    /\ UNCHANGED <<masterVars, alive, listens, running, seen, maint, sweep, attach, report>>

\* set_maintenance_mode, on or off.
SetMaintenanceMode(n) ==
    /\ Changes
    /\ maint' = IF n \in maint THEN maint \ {n} ELSE maint \cup {n}
    /\ UNCHANGED <<masterVars, alive, listens, running, status, seen, sweep, attach, report>>

\* A minion, or the salt-api of a master, stops or starts.
MinionTurns(n) ==
    /\ Changes
    /\ alive' = IF n \in alive THEN alive \ {n} ELSE alive \cup {n}
    /\ UNCHANGED <<masterVars, listens, running, nodeVars, sweep, attach, report>>

MasterTurns(m) ==
    /\ Changes
    /\ running' = IF m \in running THEN running \ {m} ELSE running \cup {m}
    /\ UNCHANGED <<masterVars, alive, listens, nodeVars, sweep, attach, report>>

-----------------------------------------------------------------------------
(* reconfigure_minions, for one node                                       *)

\* attach_minions checks the target and sends the task.
AttachMinions(a, n, m) ==
    /\ a \in workload.actors
    /\ attach[a].step = "idle"
    /\ m \in registered
    /\ attach' = [attach EXCEPT ![a] = [step |-> "queued", node |-> n, to |-> m, from |-> NoMaster]]
    /\ UNCHANGED <<masterVars, worldVars, nodeVars, sweep, report>>

\* The task loads the target, the node and the node's current master; it
\* passes over a node whose target is gone, or that it cannot log in to.
AttachLoad(a) ==
    /\ attach[a].step = "queued"
    /\ \/ /\ attach[a].to \in registered
          /\ attach' = [attach EXCEPT ![a].step = "run", ![a].from = owner[attach[a].node]]
       \/ attach' = [attach EXCEPT ![a].step = "done"]
    /\ UNCHANGED <<masterVars, worldVars, nodeVars, sweep, report>>

\* _additive_master_list: the current master and the target, no other one.
AdditiveMasterList(a) == {attach[a].from, attach[a].to} \ {NoMaster}

\* The playbook gives the minion this list; a failed one may have done so.
\* The minion's key is not accepted yet.
AttachRun(a) ==
    LET n == attach[a].node IN
    /\ attach[a].step = "run"
    /\ \E ran, worked \in BOOLEAN :
          /\ worked => ran
          /\ listens' = IF ran THEN [listens EXCEPT ![n] = @ \cap AdditiveMasterList(a)]
                        ELSE listens
          /\ attach' = [attach EXCEPT ![a].step = IF worked THEN "accept" ELSE "done"]
    /\ UNCHANGED <<masterVars, alive, running, changes, nodeVars, sweep, report>>

\* key.accept on the target, whose failure is passed over.
AttachAccept(a) ==
    LET n == attach[a].node IN
    /\ attach[a].step = "accept"
    /\ \/ listens' = [listens EXCEPT ![n] = @ \cup {attach[a].to}]
       \/ UNCHANGED listens
    /\ attach' = [attach EXCEPT ![a].step = "own"]
    /\ UNCHANGED <<masterVars, alive, running, changes, nodeVars, sweep, report>>

\* The foreign key holds.
MayOwn(a) == attach[a].to \in registered

\* The target becomes the node's master, if it was not deleted meanwhile.
AttachOwn(a) ==
    /\ attach[a].step = "own"
    /\ owner' = IF MayOwn(a) THEN [owner EXCEPT ![attach[a].node] = attach[a].to] ELSE owner
    /\ attach' = [attach EXCEPT ![a].step = "done"]
    /\ UNCHANGED <<workload, registryVars, requestVars, stale, raced, worldVars, nodeVars, sweep, report>>

-----------------------------------------------------------------------------
InitPresence ==
    /\ alive = Nodes
    /\ listens = [n \in Nodes |-> workload.listens]
    /\ running = Masters
    /\ status = [n \in Nodes |-> "unknown"]
    /\ seen = [n \in Nodes |-> "null"]
    /\ maint = {}
    /\ sweep = [s \in Sweeps |-> NoSweep]
    /\ attach = [a \in Attachments |->
                   [step |-> "idle", node |-> CHOOSE n \in Nodes : TRUE, to |-> NoMaster, from |-> NoMaster]]
    /\ report = [g \in Reports |->
                   [step |-> "idle", node |-> CHOOSE n \in Nodes : TRUE, status |-> "unknown"]]
    /\ changes = 0

Sweep(s) == SweepStart(s) \/ (\E m \in Masters : SweepPoll(s, m)) \/ SweepLoad(s) \/ SweepCommit(s)

Attach(a) ==
    \/ \E n \in Nodes, m \in Masters : AttachMinions(a, n, m)
    \/ AttachLoad(a) \/ AttachRun(a) \/ AttachAccept(a) \/ AttachOwn(a)

Ingest(g) == (\E n \in Nodes : IngestLoad(g, n)) \/ IngestCommit(g)

Presence ==
    \/ \E s \in Sweeps : Sweep(s)
    \/ \E a \in Attachments : Attach(a)
    \/ \E g \in Reports : Ingest(g)
    \/ \E n \in Nodes : TimePasses(n) \/ EnableNode(n) \/ SetMaintenanceMode(n) \/ MinionTurns(n)
    \/ \E m \in Masters : MasterTurns(m)
    \/ MarkStaleNodes

\* Beat runs the sweep every 90 seconds and mark_stale_nodes every five
\* minutes; polling a master is bounded by a timeout; the clock advances.
PresenceFairness ==
    /\ \A s \in Sweeps : WF_presenceVars(Sweep(s))
    /\ \A n \in Nodes : WF_seen(TimePasses(n))
    /\ WF_status(MarkStaleNodes)
=============================================================================
