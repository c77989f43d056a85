---------------------------- MODULE PillarFiles ----------------------------
(***************************************************************************)
(* The secrets of nodes and groups and the pillar files that hand them to  *)
(* the Salt master (services/node_secrets_svc.py, group_secrets_svc.py,    *)
(* and the routes that call them).  A value that is set is named after the *)
(* request that sets it; encryption and descriptions are left out.         *)
(***************************************************************************)
EXTENDS Naturals, Sequences, SequencesExt

CONSTANTS
    NodeScopes, GroupScopes,  \* the nodes and the groups that have secrets
    SecretKeys,
    Writers,                  \* requests that set or delete a secret
    Change,                   \* what each does: a scope, a key, and a value or Absent
    Old,                      \* a value from before
    Block,                    \* the key fleet_platform in the file of a node
    Absent

Scopes == NodeScopes \cup GroupScopes
FileKeys == SecretKeys \cup {Block}

ASSUME PillarAssumption ==
    /\ NodeScopes \cap GroupScopes = {}
    /\ Absent # Block /\ Block \notin SecretKeys
    /\ \A w \in Writers : Change[w].scope \in Scopes /\ Change[w].key \in SecretKeys

VARIABLES
    writing,     \* the requests of this behaviour
    wstep,       \* where each request is
    exists,      \* the requests that saw the row they want to change
    secrets,     \* the rows: a value or Absent, for each scope and key
    snapshot,    \* the secrets each request has read for the file
    file,        \* the pillar file of each scope
    listing,     \* the groups with secrets each request has found
    listed,      \* the groups that top.sls hands out
    reads,       \* history: who read which part for the files, in order
    wrote,       \* history: who wrote which part
    late,        \* history: parts overwritten by one who had read them before
    torn         \* history: parts that a request left unwritten or half-written

pillarVars ==
    <<writing, wstep, exists, secrets, snapshot, file, listing, listed, reads, wrote, late, torn>>

WriterStep == {"idle", "looked", "committed", "refreshed", "read", "listing", "done", "refused",
               "failed", "lost"}
Ended == {"done", "refused", "failed", "lost"}

WriterTo(w, l) == wstep' = [wstep EXCEPT ![w] = l]
Scope(w) == Change[w].scope
Row(w) == secrets[Scope(w)][Change[w].key]
Deletes(w) == Change[w].value = Absent
FileOf(x) == <<"file", x>>
TopOf(g) == <<"top", g>>
HasSecrets(x) == \E k \in SecretKeys : secrets[x][k] # Absent

-----------------------------------------------------------------------------
(* The row                                                                 *)

\* Deleting what is not there is refused.
Look(w) ==
    /\ w \in writing /\ wstep[w] = "idle"
    /\ exists' = IF Row(w) # Absent THEN exists \cup {w} ELSE exists
    /\ WriterTo(w, IF Deletes(w) /\ Row(w) = Absent THEN "refused" ELSE "looked")
    /\ UNCHANGED <<writing, secrets, snapshot, file, listing, listed, reads, wrote, late, torn>>

\* The update of a row that is gone, and the insertion of one that another
\* request has inserted (the unique index on scope and key), are errors; the
\* deletion of a row that is gone is not.
CommitRow(w) ==
    /\ wstep[w] = "looked"
    /\ IF Deletes(w) \/ (w \in exists <=> Row(w) # Absent)
       THEN /\ secrets' = [secrets EXCEPT ![Scope(w)][Change[w].key] = Change[w].value]
            /\ WriterTo(w, IF Deletes(w) THEN "refreshed" ELSE "committed")
       ELSE WriterTo(w, "failed") /\ UNCHANGED secrets
    /\ UNCHANGED <<writing, exists, snapshot, file, listing, listed, reads, wrote, late, torn>>

\* db.refresh() fails if the row was deleted meanwhile.  The audit event that
\* is added next is part of no commit, and goes with the session.
Refresh(w) ==
    /\ wstep[w] = "committed"
    /\ WriterTo(w, IF Row(w) = Absent THEN "failed" ELSE "refreshed")
    /\ UNCHANGED <<writing, exists, secrets, snapshot, file, listing, listed, reads, wrote, late, torn>>

-----------------------------------------------------------------------------
(* The files                                                               *)

\* get_decrypted_secrets, before the lock of the file is asked for.
ReadSecrets(w) ==
    /\ wstep[w] = "refreshed"
    /\ snapshot' = [snapshot EXCEPT ![w] = secrets[Scope(w)]]
    /\ reads' = Append(reads, <<w, FileOf(Scope(w))>>)
    /\ WriterTo(w, "read")
    /\ UNCHANGED <<writing, exists, secrets, file, listing, listed, wrote, late, torn>>

\* MUTANT of Contents: the file of a node is written like that of a group.
ContentsReplaced(w) == [k \in FileKeys |-> IF k \in SecretKeys THEN snapshot[w][k] ELSE Absent]

\* The file of a group is what was read; the file of a node keeps what is in
\* it and was not read, a secret that was deleted included.
Contents(w) ==
    [k \in FileKeys |->
       IF k \in SecretKeys /\ (Scope(w) \in GroupScopes \/ snapshot[w][k] # Absent)
       THEN snapshot[w][k]
       ELSE IF Scope(w) \in GroupScopes THEN Absent ELSE file[Scope(w)][k]]

\* The parts that w writes and that someone who read them later has written.
Overtaken(w, parts) ==
    {part \in parts :
       \E i, j \in 1 .. Len(reads) :
           /\ i < j /\ reads[i] = <<w, part>> /\ reads[j][2] = part
           /\ reads[j] \in wrote}

Written(w, parts) ==
    /\ late' = late \cup Overtaken(w, parts)
    /\ wrote' = wrote \cup {<<w, part>> : part \in parts}

\* Read, merge and write under the lock.  The request of a group goes on.
WriteFile(w) ==
    /\ wstep[w] = "read"
    /\ file' = [file EXCEPT ![Scope(w)] = Contents(w)]
    /\ Written(w, {FileOf(Scope(w))})
    /\ WriterTo(w, IF Scope(w) \in GroupScopes THEN "listing" ELSE "done")
    /\ UNCHANGED <<writing, exists, secrets, snapshot, listing, listed, reads, torn>>

\* rebuild_top_sls asks for the secrets of one group after the other.
ReadGroup(w, g) ==
    /\ wstep[w] = "listing"
    /\ ~Contains(reads, <<w, TopOf(g)>>)
    /\ listing' = IF HasSecrets(g) THEN [listing EXCEPT ![w] = @ \cup {g}] ELSE listing
    /\ reads' = Append(reads, <<w, TopOf(g)>>)
    /\ UNCHANGED <<writing, wstep, exists, secrets, snapshot, file, listed, wrote, late, torn>>

HasRead(w) == wstep[w] = "listing" /\ \A g \in GroupScopes : Contains(reads, <<w, TopOf(g)>>)

WriteTop(w) ==
    /\ HasRead(w)
    /\ listed' = listing[w]
    /\ Written(w, {TopOf(g) : g \in GroupScopes})
    /\ WriterTo(w, "done")
    /\ UNCHANGED <<writing, exists, secrets, snapshot, file, listing, reads, torn>>

\* A directory that cannot be written and a database that does not answer are
\* ignored; or the API process dies between two steps.
Abandon(w) ==
    /\ wstep[w] \in {"looked", "committed", "refreshed", "read", "listing"}
    /\ WriterTo(w, "lost")
    /\ torn' = torn \cup (CASE wstep[w] = "looked" -> {}
                          [] wstep[w] = "listing" -> {TopOf(Scope(w))}
                          [] OTHER -> {FileOf(Scope(w)), TopOf(Scope(w))})
    /\ UNCHANGED <<writing, exists, secrets, snapshot, file, listing, listed, reads, wrote, late>>

\* write_text empties a file and then fills it.
DieWriting(w) ==
    /\ WriterTo(w, "lost")
    /\ \/ /\ wstep[w] = "read"
          /\ \E kept \in SUBSET FileKeys :
                file' = [file EXCEPT ![Scope(w)] =
                           [k \in FileKeys |-> IF k \in kept THEN Contents(w)[k] ELSE Absent]]
          /\ torn' = torn \cup {FileOf(Scope(w)), TopOf(Scope(w))}
          /\ UNCHANGED listed
       \/ /\ HasRead(w)
          /\ listed' \in SUBSET listing[w]
          /\ torn' = torn \cup {TopOf(g) : g \in GroupScopes}
          /\ UNCHANGED file
    /\ UNCHANGED <<writing, exists, secrets, snapshot, listing, reads, wrote, late>>

\* Files agree with the rows to begin with, and a node's file has its block.
InitPillar(who) ==
    /\ writing = who
    /\ wstep = [w \in Writers |-> "idle"]
    /\ exists = {}
    /\ secrets \in {rows \in [Scopes -> [SecretKeys -> {Old, Absent}]] :
                      \A x \in Scopes \ {Scope(w) : w \in who} : \A k \in SecretKeys : rows[x][k] = Absent}
    /\ snapshot = [w \in Writers |-> [k \in SecretKeys |-> Absent]]
    /\ file = [x \in Scopes |-> [k \in FileKeys |->
                 IF k \in SecretKeys THEN secrets[x][k] ELSE IF x \in NodeScopes THEN Block ELSE Absent]]
    /\ listing = [w \in Writers |-> {}]
    /\ listed = {g \in GroupScopes : HasSecrets(g)}
    /\ reads = <<>>
    /\ wrote = {}
    /\ late = {}
    /\ torn = {}

Pillar ==
    \E w \in Writers :
        \/ Look(w) \/ CommitRow(w) \/ Refresh(w)
        \/ ReadSecrets(w) \/ WriteFile(w)
        \/ \E g \in GroupScopes : ReadGroup(w, g)
        \/ WriteTop(w)
        \/ Abandon(w) \/ DieWriting(w)
=============================================================================
