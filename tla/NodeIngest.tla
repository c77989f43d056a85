----------------------------- MODULE NodeIngest -----------------------------
(***************************************************************************)
(* What a node reports and the token it reports with: POST /ingest/grains  *)
(* and /ingest/executions (api/routes/ingest.py), and the two tasks that   *)
(* mint a new token and push grains with it, collect_node_grains and       *)
(* bootstrap_node (workers/ansible_tasks.py).  One node; what its facts    *)
(* do to the drift score is in DriftCompute, to its status in              *)
(* NodePresence.  A token is named after the one who minted it.            *)
(***************************************************************************)
EXTENDS Naturals, FiniteSets

CONSTANTS
    Collections,   \* deliveries of collect_node_grains
    Bootstraps,    \* deliveries of bootstrap_node
    Heartbeats,    \* pushes of the node itself
    Returns,       \* requests that report the return of a Salt job
    Jid,           \* the job each of them reports
    Grain,         \* what each push says about the node, for one of its columns
    RateLimit,     \* _INGEST_RATE_LIMIT
    Registered,    \* the token given out when the node was registered
    Unknown        \* what the row says before the first facts

Minters == Collections \cup Bootstraps
Pushes == Minters \cup Heartbeats
Jids == {Jid[p] : p \in Returns}

ASSUME IngestAssumption ==
    /\ Registered \notin Pushes
    /\ Minters \cap Heartbeats = {} /\ Collections \cap Bootstraps = {}
    /\ DOMAIN Jid = Returns /\ DOMAIN Grain = Pushes
    /\ RateLimit \in Nat \ {0}

VARIABLES
    reporting,    \* the pushes and returns of this behaviour
    token,        \* whose token the node's row has the hash of
    push,         \* where each push of grains is
    column,       \* what a column of the node's row says of it
    loaded,       \* what it said when a push loaded the row
    latest,       \* the push whose facts were stored last
    outdated,     \* history: pushes that others overtook after they loaded the row
    count,        \* the counter of the rate limiter
    posted,       \* where each report of a return is
    recorded      \* the reports whose job and result are stored

ingestVars == <<reporting, token, push, column, loaded, latest, outdated, count, posted, recorded>>
grainVars == <<column, loaded, latest, outdated, count>>

PushStep == {"idle", "minted", "sent", "known", "admitted", "stored", "refused", "limited",
             "unavailable", "throttled", "lost"}
ReturnStep == {"idle", "known", "checked", "inserted", "acknowledged", "failed", "throttled", "lost"}

PushTo(g, l) == push' = [push EXCEPT ![g] = l]
ReturnTo(p, l) == posted' = [posted EXCEPT ![p] = l]

-----------------------------------------------------------------------------
(* Those who push                                                          *)

\* MUTANT of Mint: the grains are sent before the hash is committed.
MintUncommitted(m) ==
    /\ m \in reporting \cap Minters
    /\ push[m] = "idle"
    /\ PushTo(m, "minted")
    /\ UNCHANGED <<reporting, token, grainVars, posted, recorded>>

\* A new token takes the place of the one before, whoever still uses it.
Mint(m) ==
    /\ m \in reporting \cap Minters
    /\ push[m] = "idle"
    /\ token' = m
    /\ PushTo(m, "minted")
    /\ UNCHANGED <<reporting, grainVars, posted, recorded>>

\* The grains are collected and sent with the token that was minted.  The
\* salt-api and the SSH fallback may both fail, the playbook may not get so
\* far, and the worker may be lost; a redelivery is another delivery.
SendGrains(m) ==
    /\ m \in Minters /\ push[m] = "minted"
    /\ \E l \in {"sent", "lost"} : PushTo(m, l)
    /\ UNCHANGED <<reporting, token, grainVars, posted, recorded>>

\* The node's own report, with the token of its pillar.
SendHeartbeat(b) ==
    /\ b \in reporting \cap Heartbeats
    /\ push[b] = "idle"
    /\ PushTo(b, "sent")
    /\ UNCHANGED <<reporting, token, grainVars, posted, recorded>>

TokenOf(g) == IF g \in Minters THEN g ELSE Registered

-----------------------------------------------------------------------------
(* ingest_grains                                                           *)

\* The limit per address comes first: others may push from the same one,
\* through a proxy or for other nodes, so that it may be reached at any time.
ThrottlePush(g) ==
    /\ push[g] = "sent"
    /\ PushTo(g, "throttled")
    /\ UNCHANGED <<reporting, token, grainVars, posted, recorded>>

\* _resolve_node loads the row; the token is compared with the hash in it.
ResolvePush(g) ==
    /\ push[g] = "sent"
    /\ loaded' = [loaded EXCEPT ![g] = column]
    /\ PushTo(g, IF TokenOf(g) = token THEN "known" ELSE "refused")
    /\ UNCHANGED <<reporting, token, column, latest, outdated, count, posted, recorded>>

\* _check_ingest_rate_limit: the counter is raised and its expiry renewed in
\* one transaction; without Redis nothing is let in.
CheckRateLimit(g) ==
    /\ push[g] = "known"
    /\ \/ /\ count' = count + 1
          /\ PushTo(g, IF count' <= RateLimit THEN "admitted" ELSE "limited")
       \/ PushTo(g, "unavailable") /\ UNCHANGED count
    /\ UNCHANGED <<reporting, token, column, loaded, latest, outdated, posted, recorded>>

\* MUTANT of Flushed: a column is only filled in, as bootstrap_ip fills ip_address.
FlushedOnce(g) == IF loaded[g] = Unknown THEN Grain[g] ELSE column

\* The session writes the attributes that differ from what was loaded.
Flushed(g) == IF loaded[g] # Grain[g] THEN Grain[g] ELSE column

\* The row is updated and locked before the tags are read (the query flushes
\* the session), so that pushes follow each other from there to the commit of
\* row, facts and tags.
StoreGrains(g) ==
    /\ push[g] = "admitted"
    /\ column' = Flushed(g)
    /\ latest' = g
    /\ outdated' = outdated \cup {h \in Pushes \ {g} : push[h] \in {"known", "admitted"}}
    /\ PushTo(g, "stored")
    /\ UNCHANGED <<reporting, token, loaded, count, posted, recorded>>

\* The process of the API dies with the request.
PushLost(g) ==
    /\ push[g] \in {"sent", "known", "admitted"}
    /\ PushTo(g, "lost")
    /\ UNCHANGED <<reporting, token, grainVars, posted, recorded>>

\* A minute without a push: the counter expires.
WindowPasses ==
    /\ count > 0
    /\ count' = 0
    /\ UNCHANGED <<reporting, token, push, column, loaded, latest, outdated, posted, recorded>>

-----------------------------------------------------------------------------
(* ingest_executions                                                       *)

\* The limit per address.
ThrottleReturn(p) ==
    /\ p \in reporting \cap Returns
    /\ posted[p] = "idle"
    /\ ReturnTo(p, "throttled")
    /\ UNCHANGED <<reporting, token, push, grainVars, recorded>>

\* The returner of the node posts with the token of its pillar, and does not
\* try again; Salt may deliver one return twice.
ResolveReturn(p) ==
    /\ p \in reporting \cap Returns
    /\ posted[p] = "idle"
    /\ ReturnTo(p, IF token = Registered THEN "known" ELSE "failed")
    /\ UNCHANGED <<reporting, token, push, grainVars, recorded>>

Known(p) == \E q \in recorded : Jid[q] = Jid[p]

\* A job that is already there is answered at once.
CheckReturn(p) ==
    /\ posted[p] = "known"
    /\ ReturnTo(p, IF Known(p) THEN "acknowledged" ELSE "checked")
    /\ UNCHANGED <<reporting, token, push, grainVars, recorded>>

Inserting(p) == {q \in Returns : posted[q] = "inserted" /\ Jid[q] = Jid[p]}

\* MUTANT of InsertJob: there is no unique index.
InsertJobAnyway(p) ==
    /\ posted[p] = "checked"
    /\ ReturnTo(p, "inserted")
    /\ UNCHANGED <<reporting, token, push, grainVars, recorded>>

\* flush() inserts the job.  The unique index on (salt_jid, target_id) waits
\* for a transaction that has inserted the same one; when that has committed,
\* flush() raises, and the request answers with an error.
InsertJob(p) ==
    /\ posted[p] = "checked"
    /\ Inserting(p) = {}
    /\ ReturnTo(p, IF Known(p) THEN "failed" ELSE "inserted")
    /\ UNCHANGED <<reporting, token, push, grainVars, recorded>>

\* Job and result are committed together; the answer may still be lost.
CommitReturn(p) ==
    /\ posted[p] = "inserted"
    /\ recorded' = recorded \cup {p}
    /\ \E l \in {"acknowledged", "lost"} : ReturnTo(p, l)
    /\ UNCHANGED <<reporting, token, push, grainVars>>

ReturnLost(p) ==
    /\ posted[p] \in {"known", "checked", "inserted"}
    /\ ReturnTo(p, "lost")
    /\ UNCHANGED <<reporting, token, push, grainVars, recorded>>

InitIngest(who) ==
    /\ reporting = who
    /\ token = Registered
    /\ push = [g \in Pushes |-> "idle"]
    /\ column = Unknown
    /\ loaded = [g \in Pushes |-> Unknown]
    /\ latest = Registered
    /\ outdated = {}
    /\ count = 0
    /\ posted = [p \in Returns |-> "idle"]
    /\ recorded = {}

Ingest ==
    \/ \E m \in Minters : Mint(m) \/ SendGrains(m)
    \/ \E b \in Heartbeats : SendHeartbeat(b)
    \/ \E g \in Pushes :
          ThrottlePush(g) \/ ResolvePush(g) \/ CheckRateLimit(g) \/ StoreGrains(g) \/ PushLost(g)
    \/ \E p \in Returns :
          \/ ThrottleReturn(p) \/ ResolveReturn(p) \/ CheckReturn(p)
          \/ InsertJob(p) \/ CommitReturn(p) \/ ReturnLost(p)
    \/ WindowPasses
=============================================================================
