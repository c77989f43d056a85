-------------------------- MODULE PlaybookLibrary --------------------------
(***************************************************************************)
(* The library of playbooks: sources (local directories and clones of git  *)
(* repositories), and the catalog of what administrators enabled of them   *)
(* (routes/ansible/sources.py, routes/playbook_library.py,                 *)
(* services/playbook_sources.py, services/playbook_catalog_svc.py).        *)
(*                                                                         *)
(* A directory that exists is taken for the source: nobody asks whether it *)
(* is being cloned or pulled, was left by a git that was killed, or is the *)
(* point at which a disk is not mounted.                                   *)
(***************************************************************************)
EXTENDS Naturals, Sequences

CONSTANTS
    Order,         \* the list of sources, as stored
    Locals,        \* those that are directories
    Files,         \* the playbooks there may be, by name
    Syncs,         \* POST /sources/sync
    BulkEnables,   \* POST /enable-source, each for the source of its name
    Enables,       \* POST /enable of an entry somebody was shown
    Disables,      \* POST /disable
    Wanted,        \* the source of each bulk request
    MaxChanges     \* bound: how often the world changes

Sources == {Order[i] : i \in 1 .. Len(Order)}
Gits == Sources \ Locals
Requests == Syncs \cup BulkEnables \cup Enables \cup Disables
Entries == Sources \X Files

ASSUME LibraryAssumption ==
    /\ Locals \subseteq Sources /\ Files # {}
    /\ Wanted \in [BulkEnables -> Sources]
    /\ MaxChanges \in Nat

VARIABLES
    curating,      \* the requests of this behaviour
    origin,        \* the playbooks that each source has where it comes from
    dir,           \* the directory of each source: whether it is there, and what is in it
    catalog,       \* the status of an entry's row
    req,           \* where each request is, and what it has read
    changes,       \* how often the world changed
    held,          \* history: entries that a source has had all the time
    misread        \* history: sources whose directory was not what it was taken for

libraryVars == <<curating, origin, dir, catalog, req, changes, held, misread>>
worldVars == <<curating, origin, changes, held>>

\* "gone": disabled by a sync.
CatalogStatus == {"none", "enabled", "disabled", "gone"}
DirState == {"absent", "cloning", "pulling", "broken", "complete"}

Rows(status) == {e \in Entries : catalog[e] = status}
RequestTo(q, r) == req' = [req EXCEPT ![q] = r]

Asked == [step |-> "asked", todo |-> {}, got |-> {}, at |-> <<>>, found |-> {}, rows |-> {}]

There == {s \in Sources : dir[s].state # "absent"}

\* The directory that a source is paired with, when the directories got are
\* matched in order with the sources present.
Paired(s, present, got) ==
    LET keys == SelectSeq(Order, LAMBDA x : x \in present)
        dirs == SelectSeq(Order, LAMBDA x : x \in got)
    IN {dirs[i] : i \in {n \in 1 .. Len(dirs) : n <= Len(keys) /\ keys[n] = s}}

-----------------------------------------------------------------------------
(* Getting the repositories                                                *)

\* A sync goes through the repositories, and who wants something to enable
\* through all sources (in the order of the list, on which nothing depends).
BeginFetch(q) ==
    /\ q \in (Syncs \cup BulkEnables \cup Enables) \cap curating
    /\ req[q].step = "asked"
    /\ RequestTo(q, [Asked EXCEPT !.step = "fetch", !.todo = IF q \in Syncs THEN Gits ELSE Sources])
    /\ UNCHANGED <<worldVars, dir, catalog, misread>>

\* git makes the directory first and checks out last.
CloneBegins(q, s) ==
    /\ req[q].step = "fetch" /\ s \in req[q].todo \ Locals
    /\ dir[s].state = "absent"
    /\ dir' = [dir EXCEPT ![s] = [state |-> "cloning", files |-> {}]]
    /\ RequestTo(q, [req[q] EXCEPT !.step = "cloning", !.at = s])
    /\ UNCHANGED <<worldVars, catalog, misread>>

\* A clone is done, fails and is removed, or is killed when its time is over
\* and stays.  What is done is taken next.
CloneEnds(q) ==
    /\ req[q].step = "cloning"
    /\ LET s == req[q].at
           Ends(state, files, todo) ==
               /\ dir' = [dir EXCEPT ![s] = [state |-> state, files |-> files]]
               /\ RequestTo(q, [req[q] EXCEPT !.step = "fetch", !.todo = todo])
       IN \/ Ends("complete", origin[s], req[q].todo)
          \/ Ends("absent", {}, req[q].todo \ {s})
          \/ Ends("broken", {}, req[q].todo \ {s})
    /\ UNCHANGED <<worldVars, catalog, misread>>

\* A local directory may not be there.
Skip(q, s) ==
    /\ req[q].step = "fetch" /\ s \in req[q].todo \cap Locals
    /\ dir[s].state = "absent"
    /\ RequestTo(q, [req[q] EXCEPT !.todo = @ \ {s}])
    /\ UNCHANGED <<worldVars, dir, catalog, misread>>

\* Others take what is there as it is, and so does a sync where git refuses
\* to pull: it does not look at how that went.
Take(q, s) ==
    /\ req[q].step = "fetch" /\ s \in req[q].todo
    /\ dir[s].state # "absent"
    /\ RequestTo(q, [req[q] EXCEPT !.todo = @ \ {s}, !.got = @ \cup {s}])
    /\ UNCHANGED <<worldVars, dir, catalog, misread>>

\* A sync pulls what is there.  git replaces the files that changed one by
\* one, and removes each before it writes the new version: at worst, who
\* reads meanwhile finds none.
PullBegins(q, s) ==
    /\ q \in Syncs
    /\ req[q].step = "fetch" /\ s \in req[q].todo
    /\ dir[s].state \in {"broken", "complete"}
    /\ dir' = [dir EXCEPT ![s] = [state |-> "pulling", files |-> {}]]
    /\ RequestTo(q, [req[q] EXCEPT !.step = "pulling", !.at = s])
    /\ UNCHANGED <<worldVars, catalog, misread>>

\* A pull is done, or is killed when its time is over: then git's own lock
\* may stay in the clone, and every later pull fail on it.
PullEnds(q) ==
    /\ req[q].step = "pulling"
    /\ LET s == req[q].at
           Ends(state, files) == dir' = [dir EXCEPT ![s] = [state |-> state, files |-> files]]
       IN /\ Ends("complete", origin[s]) \/ Ends("broken", {})
          /\ RequestTo(q, [req[q] EXCEPT !.step = "fetch", !.todo = @ \ {s}, !.got = @ \cup {s}])
    /\ UNCHANGED <<worldVars, catalog, misread>>

-----------------------------------------------------------------------------
(* A sync disables what is missing                                         *)

BeginScan(q) ==
    /\ q \in Syncs
    /\ req[q].step = "fetch" /\ req[q].todo = {}
    /\ RequestTo(q, [Asked EXCEPT !.step = "scan", !.todo = Sources])
    /\ UNCHANGED <<worldVars, dir, catalog, misread>>

\* MUTANT of Scanned: the directories there are, by position in the list.
ScannedByPosition(s) == Paired(s, Sources, There)

\* The directory that is scanned for a source, if it is there.
Scanned(s) == {s} \cap There

Scan(q, s) ==
    /\ req[q].step = "scan" /\ s \in req[q].todo
    /\ LET rest == [req[q] EXCEPT !.todo = @ \ {s}] IN
       \/ /\ Scanned(s) = {}
          /\ RequestTo(q, rest)
          /\ UNCHANGED misread
       \/ \E d \in Scanned(s) :
             /\ RequestTo(q, [rest EXCEPT !.step = "load", !.at = s, !.found = dir[d].files])
             /\ misread' = misread \cup {x \in {s} : dir[d].state # "complete"}
    /\ UNCHANGED <<worldVars, dir, catalog>>

\* auto_disable_missing: the rows are read after the directory.
LoadEnabled(q) ==
    /\ req[q].step = "load"
    /\ LET missing == {e \in Rows("enabled") : e[1] = req[q].at /\ e[2] \notin req[q].found} IN
       RequestTo(q, [req[q] EXCEPT !.step = "scan", !.rows = @ \cup missing])
    /\ UNCHANGED <<worldVars, dir, catalog, misread>>

DisableMissing(q) ==
    /\ q \in Syncs
    /\ req[q].step = "scan" /\ req[q].todo = {}
    /\ catalog' = [e \in Entries |-> IF e \in req[q].rows THEN "gone" ELSE catalog[e]]
    /\ RequestTo(q, [Asked EXCEPT !.step = "done"])
    /\ UNCHANGED <<worldVars, dir, misread>>

-----------------------------------------------------------------------------
(* What administrators enable and disable                                  *)

\* _dir_source_pairs: the directories that were got are matched with the
\* sources that have a directory now, which may be one that was not got.
Shown(q) == {e \in Entries : \E d \in Paired(e[1], There, req[q].got) : e[2] \in dir[d].files}

\* What is discovered in the directory of one source ...
Discover(q) ==
    /\ q \in BulkEnables
    /\ req[q].step = "fetch" /\ req[q].todo = {}
    /\ RequestTo(q, [req[q] EXCEPT !.step = "enable", !.rows = {e \in Shown(q) : e[1] = Wanted[q]}])
    /\ UNCHANGED <<worldVars, dir, catalog, misread>>

\* ... or one entry of those on a page.
Show(q) ==
    /\ q \in Enables
    /\ req[q].step = "fetch" /\ req[q].todo = {}
    /\ \E e \in Shown(q) : RequestTo(q, [Asked EXCEPT !.step = "enable", !.rows = {e}])
    /\ UNCHANGED <<worldVars, dir, catalog, misread>>

\* INSERT ... ON CONFLICT DO UPDATE.
EnableRows(q) ==
    /\ req[q].step = "enable"
    /\ catalog' = [e \in Entries |-> IF e \in req[q].rows THEN "enabled" ELSE catalog[e]]
    /\ RequestTo(q, [Asked EXCEPT !.step = "done"])
    /\ UNCHANGED <<worldVars, dir, misread>>

\* The row is loaded with the entry enabled: else nothing will be written.
LoadRow(q) ==
    /\ q \in Disables \cap curating
    /\ req[q].step = "asked"
    /\ \E e \in Rows("enabled") : RequestTo(q, [Asked EXCEPT !.step = "disable", !.rows = {e}])
    /\ UNCHANGED <<worldVars, dir, catalog, misread>>

\* auto_disabled_at is left as it was, so a row that a sync has disabled
\* meanwhile still says so.
DisableRow(q) ==
    /\ req[q].step = "disable"
    /\ catalog' = [e \in Entries |->
                     IF e \in req[q].rows /\ catalog[e] # "gone" THEN "disabled" ELSE catalog[e]]
    /\ RequestTo(q, [Asked EXCEPT !.step = "done"])
    /\ UNCHANGED <<worldVars, dir, misread>>

-----------------------------------------------------------------------------
(* The world                                                               *)

\* A playbook is added to a source or removed from it.
Revise(s) ==
    /\ changes < MaxChanges
    /\ changes' = changes + 1
    /\ \E f \in Files :
          /\ origin' = [origin EXCEPT ![s] = IF f \in @ THEN @ \ {f} ELSE @ \cup {f}]
          /\ held' = held \ {<<s, f>>}
    /\ dir' = IF s \in Locals /\ dir[s].state = "complete"
              THEN [dir EXCEPT ![s].files = origin'[s]] ELSE dir
    /\ UNCHANGED <<curating, catalog, req, misread>>

\* A disk is taken away, with its mount point or without; it comes back.
Mount(s) ==
    /\ s \in Locals
    /\ changes < MaxChanges
    /\ changes' = changes + 1
    /\ \E state \in {"absent", "broken", "complete"} \ {dir[s].state} :
          dir' = [dir EXCEPT ![s] =
                    [state |-> state, files |-> IF state = "complete" THEN origin[s] ELSE {}]]
    /\ UNCHANGED <<curating, origin, catalog, req, held, misread>>

\* The volume with a clone is lost.
LoseClone(s) ==
    /\ s \in Gits /\ dir[s].state \in {"broken", "complete"}
    /\ changes < MaxChanges
    /\ changes' = changes + 1
    /\ dir' = [dir EXCEPT ![s] = [state |-> "absent", files |-> {}]]
    /\ UNCHANGED <<curating, origin, catalog, req, held, misread>>

-----------------------------------------------------------------------------

\* Every source has a playbook, which is enabled.
InitLibrary(who) ==
    /\ curating = who
    /\ origin = [s \in Sources |-> {CHOOSE f \in Files : TRUE}]
    /\ catalog = [e \in Entries |-> IF e[2] \in origin[e[1]] THEN "enabled" ELSE "none"]
    /\ dir = [s \in Sources |-> [state |-> "complete", files |-> origin[s]]]
    /\ req = [q \in Requests |-> Asked]
    /\ changes = 0
    /\ held = {e \in Entries : e[2] \in origin[e[1]]}
    /\ misread = {}

Fetch(q) ==
    \/ BeginFetch(q) \/ CloneEnds(q) \/ PullEnds(q)
    \/ \E s \in Sources : CloneBegins(q, s) \/ Skip(q, s) \/ Take(q, s) \/ PullBegins(q, s)

Curate(q) ==
    \/ Fetch(q)
    \/ BeginScan(q) \/ LoadEnabled(q) \/ DisableMissing(q)
    \/ \E s \in Sources : Scan(q, s)
    \/ Discover(q) \/ Show(q) \/ EnableRows(q)
    \/ LoadRow(q) \/ DisableRow(q)

Library ==
    \/ \E q \in Requests : Curate(q)
    \/ \E s \in Sources : Revise(s) \/ Mount(s) \/ LoseClone(s)
=============================================================================
