--------------------------- MODULE KnowledgeIndex ---------------------------
(***************************************************************************)
(* The index of what the platform knows (table fleet_embeddings), rebuilt  *)
(* by periodic tasks from nodes, playbooks and Salt states                 *)
(* (workers/embedding_tasks.py, services/embedding_svc.py).  Tasks take    *)
(* longer than their period and overlap.                                   *)
(*                                                                         *)
(* A source is a number, as nodes are read in the order of their keys, one *)
(* page after another; playbooks and states are one page.  Its text is the *)
(* hash of it.  Transactions are READ COMMITTED: a DELETE finds the rows   *)
(* committed when it starts and waits for those that others delete.        *)
(***************************************************************************)
EXTENDS Naturals, FiniteSets

CONSTANTS
    Docs,          \* the sources: nodes, plays, states
    Hashes,        \* what a source may say
    Gone,          \* said by one that does not exist
    Indexers,      \* deliveries of a reindexing task, each of which recurs
    PageSize,      \* NODE_REINDEX_BATCH_SIZE
    MaxEdits,      \* bound: how often sources change
    MaxErrors      \* bound: how often a task fails

ASSUME IndexAssumption ==
    /\ Docs \subseteq Nat /\ IsFiniteSet(Docs) /\ Gone \notin Hashes /\ Hashes # {}
    /\ PageSize \in Nat \ {0} /\ MaxEdits \in Nat /\ MaxErrors \in Nat

VARIABLES
    indexing,      \* the tasks of this behaviour
    content,       \* what each source says
    rows,          \* the committed rows, each with the task that inserted it
    task,          \* what each task has read, and the rows it has locked
    edits,         \* how often a source changed
    errors,        \* how often a task failed
    overlapped     \* history: a task read the index while another one changed it

indexVars == <<indexing, content, rows, task, edits, errors, overlapped>>

Idle == [step |-> "idle", offset |-> 0, current |-> {}, insert |-> {}, drop |-> {},
         doomed |-> {}, locked |-> {}, after |-> "idle"]

Present == {d \in Docs : content[d] # Gone}

\* The hashes that are stored for a source.
Stored(d) == {r.hash : r \in {q \in rows : q.doc = d}}

DocsOf(chunks) == {c.doc : c \in chunks}

BeginReindex(i) ==
    /\ i \in indexing
    /\ task[i].step = "idle"
    /\ task' = [task EXCEPT ![i] = [Idle EXCEPT !.step = "read"]]
    /\ UNCHANGED <<indexing, content, rows, edits, errors, overlapped>>

-----------------------------------------------------------------------------
(* One page                                                                *)

\* LIMIT and OFFSET count the nodes there are now.
Page(offset) ==
    LET Before(d) == Cardinality({e \in Present : e < d})
    IN {[doc |-> d, hash |-> content[d]] :
          d \in {e \in Present : Before(e) \in offset .. offset + PageSize - 1}}

\* MUTANT of Spared: the sources of this page only.
SparedOfPage(i, page) == DocsOf(page)

\* The sources a sweep will spare.
Spared(i, page) == task[i].current \cup DocsOf(page)

\* A page that is not full is the last one.
ReadPage(i) ==
    /\ task[i].step = "read"
    /\ LET page == Page(task[i].offset) IN
       task' = [task EXCEPT ![i] =
                  [@ EXCEPT !.step = IF page = {} THEN "sweep" ELSE "plan",
                            !.insert = page,
                            !.current = Spared(i, page),
                            !.offset = task[i].offset + PageSize,
                            !.after = IF Cardinality(page) < PageSize THEN "sweep" ELSE "read"]]
    /\ UNCHANGED <<indexing, content, rows, edits, errors, overlapped>>

Writing == {"delete", "lock", "commit"}

\* MUTANT of Replaced: what is stored of a source that changed stays.
ReplacedNone(changed) == {}

\* The sources whose rows are deleted before the new ones are inserted.
Replaced(changed) == DocsOf(changed)

\* plan_upsert: what is stored is compared as a set of hashes.
PlanUpsert(i) ==
    /\ task[i].step = "plan"
    /\ LET changed == {c \in task[i].insert : Stored(c.doc) # {c.hash}} IN
       task' = [task EXCEPT ![i] =
                  [@ EXCEPT !.step = IF changed = {} THEN task[i].after ELSE "delete",
                            !.insert = changed,
                            !.drop = Replaced(changed)]]
    /\ overlapped' = (overlapped \/ \E j \in indexing \ {i} : task[j].step \in Writing)
    /\ UNCHANGED <<indexing, content, rows, edits, errors>>

\* The rows a DELETE finds ...
Delete(i) ==
    /\ task[i].step = "delete"
    /\ task' = [task EXCEPT ![i] =
                  [@ EXCEPT !.step = "lock", !.doomed = {r \in rows : r.doc \in task[i].drop}]]
    /\ UNCHANGED <<indexing, content, rows, edits, errors, overlapped>>

\* ... and deletes, once nobody else has deleted them without a commit.
Lock(i) ==
    /\ task[i].step = "lock"
    /\ \A j \in indexing \ {i} : task[i].doomed \cap task[j].locked = {}
    /\ task' = [task EXCEPT ![i] =
                  [@ EXCEPT !.step = "commit", !.doomed = {}, !.locked = task[i].doomed \cap rows]]
    /\ UNCHANGED <<indexing, content, rows, edits, errors, overlapped>>

\* The texts are embedded, the rows inserted, and the page is committed.
Commit(i) ==
    /\ task[i].step = "commit"
    /\ rows' = (rows \ task[i].locked)
                 \cup {[doc |-> c.doc, hash |-> c.hash, by |-> i] : c \in task[i].insert}
    /\ task' = [task EXCEPT ![i] =
                  IF task[i].after = "idle" THEN Idle
                  ELSE [@ EXCEPT !.step = task[i].after, !.insert = {}, !.drop = {}, !.locked = {}]]
    /\ UNCHANGED <<indexing, content, edits, errors, overlapped>>

-----------------------------------------------------------------------------
(* The sweep, and failures                                                 *)

\* sweep_deleted_sources: what is stored of sources that were not read.
Sweep(i) ==
    /\ task[i].step = "sweep"
    /\ LET orphans == DocsOf(rows) \ task[i].current IN
       task' = [task EXCEPT ![i] =
                  IF orphans = {} THEN Idle
                  ELSE [@ EXCEPT !.step = "delete", !.drop = orphans, !.insert = {},
                                 !.after = "idle"]]
    /\ UNCHANGED <<indexing, content, rows, edits, errors, overlapped>>

\* The endpoint fails after its retries or returns vectors of another length,
\* the worker is lost or out of time, or the database breaks a deadlock: what
\* is not committed is undone.
Fails(i) ==
    /\ task[i].step # "idle"
    /\ errors < MaxErrors
    /\ errors' = errors + 1
    /\ task' = [task EXCEPT ![i] = Idle]
    /\ UNCHANGED <<indexing, content, rows, edits, overlapped>>

\* A node, a play or a state is added, changed or removed.
Edit(d) ==
    /\ indexing # {}
    /\ edits < MaxEdits
    /\ edits' = edits + 1
    /\ \E h \in (Hashes \cup {Gone}) \ {content[d]} : content' = [content EXCEPT ![d] = h]
    /\ UNCHANGED <<indexing, rows, task, errors, overlapped>>

-----------------------------------------------------------------------------

\* Every source is there, and the index is empty.
InitIndex(who) ==
    /\ indexing = who
    /\ content = [d \in Docs |-> CHOOSE h \in Hashes : TRUE]
    /\ rows = {}
    /\ task = [i \in Indexers |-> Idle]
    /\ edits = 0
    /\ errors = 0
    /\ overlapped = FALSE

\* A task: its pages, each of which replaces what changed, and the sweep.  The
\* tasks for playbooks and states are those of one page.
Reindex(i) ==
    \/ BeginReindex(i)
    \/ ReadPage(i) \/ PlanUpsert(i)
    \/ Delete(i) \/ Lock(i) \/ Commit(i)
    \/ Sweep(i)

Index ==
    \/ \E i \in Indexers : Reindex(i) \/ Fails(i)
    \/ \E d \in Docs : Edit(d)

\* Beat starts the tasks again and again, and every call they make ends.
IndexFairness == \A i \in Indexers : WF_indexVars(Reindex(i))
=============================================================================
