--------------------------- MODULE FleetServices ---------------------------
(***************************************************************************)
(* What the platform keeps beside the nodes themselves: consoles opened on *)
(* them, reports they send, secrets handed to them, the index of what is   *)
(* known of them, the library of what may be run on them, questions to     *)
(* models about them.  They share no state but the processes that serve    *)
(* them; a behaviour is about one of them.                                 *)
(***************************************************************************)
EXTENDS Consoles, NodeIngest, PillarFiles, KnowledgeIndex, PlaybookLibrary,
        ModelQueries

CONSTANT Workloads   \* the sets of actors that act, each in its own behaviours

vars == <<consoleVars, ingestVars, pillarVars, indexVars, libraryVars, queryVars>>

Init ==
    \E who \in Workloads :
        /\ InitConsoles(who \cap Sessions)
        /\ InitIngest(who \cap (Pushes \cup Returns))
        /\ InitPillar(who \cap Writers)
        /\ InitIndex(who \cap Indexers)
        /\ InitLibrary(who \cap Requests)
        /\ InitQueries(who \cap (Questions \cup Changes))

Next ==
    \/ /\ opened # {} /\ Console
       /\ UNCHANGED <<ingestVars, pillarVars, indexVars, libraryVars, queryVars>>
    \/ /\ reporting # {} /\ Ingest
       /\ UNCHANGED <<consoleVars, pillarVars, indexVars, libraryVars, queryVars>>
    \/ /\ writing # {} /\ Pillar
       /\ UNCHANGED <<consoleVars, ingestVars, indexVars, libraryVars, queryVars>>
    \/ /\ indexing # {} /\ Index
       /\ UNCHANGED <<consoleVars, ingestVars, pillarVars, libraryVars, queryVars>>
    \/ /\ curating # {} /\ Library
       /\ UNCHANGED <<consoleVars, ingestVars, pillarVars, indexVars, queryVars>>
    \/ /\ asking # {} /\ Queries
       /\ UNCHANGED <<consoleVars, ingestVars, pillarVars, indexVars, libraryVars>>

Spec == Init /\ [][Next]_vars

FairSpec == Spec /\ ConsoleFairness /\ IndexFairness

-----------------------------------------------------------------------------
(* Properties                                                              *)

\* The cache of connections leaks none (what is open can be found again and
\* is bounded), keeps one for each key, and hands a shell only a connection
\* made with its credential.
ConnectionsAreKept ==
    /\ open \subseteq cache /\ Cardinality(cache) <= MaxCached
    /\ \A c, d \in cache : CacheKey(c) = CacheKey(d) => c = d
    /\ \A s \in Shells : conn[s] # None => Credential[conn[s]] = Credential[s]

\* No session's row stays active for ever when its handler could end it: the
\* handler ends with the row, or was cut off.  A shell ends by itself, for it
\* has a time limit; a screen ends when the browser or the node does.
SessionIsEnded ==
    <>[](\A s \in Sessions :
            record[s] = "active" => s \in cut \/ (s \in Screens /\ at[s] = "live"))

\* A report of grains is not turned away for nothing, whatever tokens are
\* minted meanwhile: another minter's token has taken the place of the one it
\* came with, or the limiter had let RateLimit others pass.
Admitted == {h \in Pushes : push[h] \in {"admitted", "stored", "lost"}}

RefusalHasACause ==
    \A g \in Pushes :
        /\ push[g] = "refused" => token \in Minters \ {g}
        /\ push[g] = "limited" => Cardinality(Admitted) >= RateLimit

\* The row of the node says what its newest facts say, unless these were
\* stored by a push that another one had overtaken.
RowFollowsFacts ==
    latest \in Pushes \ outdated => column = Grain[latest]

\* The return of a Salt job is recorded once, however often it is reported,
\* and before anyone is told so.
AcknowledgedOnce ==
    /\ \A p, q \in recorded : Jid[p] = Jid[q] => p = q
    /\ \A p \in Returns : posted[p] = "acknowledged" => \E q \in recorded : Jid[q] = Jid[p]

\* When no request is at work, each pillar file says what the rows say (the
\* file of a node, of the secrets there are), the block of a node is kept,
\* and top.sls hands out the groups that have secrets; but for what a request
\* abandoned, or overwrote with what it had read too early.
PillarFollows ==
    (\A w \in writing : wstep[w] \in Ended) =>
        /\ \A x \in {y \in Scopes : FileOf(y) \notin torn \cup late} :
              /\ \A k \in SecretKeys :
                    x \in GroupScopes \/ secrets[x][k] # Absent => file[x][k] = secrets[x][k]
              /\ x \in NodeScopes => file[x][Block] = Block
        /\ \A g \in GroupScopes :
              TopOf(g) \notin torn \cup late => (g \in listed <=> HasSecrets(g))

\* When sources no longer change, the index comes to say what they say, and
\* keeps doing so: whichever tasks overlapped, failed midway, missed a page
\* or swept what they should not have, later ones repair it.
IndexFollows ==
    <>[](indexing # {} => \A d \in Docs : Stored(d) = {content[d]} \ {Gone})

\* A source has one row in the index, however often it changed, if no task
\* looked at the index while another was replacing rows of it.
OneRowSet == ~overlapped => \A r, s \in rows : r.doc = s.doc => r = s

\* A sync disables no entry that its source has had all the time, whatever
\* other sources are missing and whoever clones and enables meanwhile; unless
\* what it scanned was a clone or a pull under way, one that was killed, or a
\* disk that was not mounted.
AutoDisabledIsGone == \A e \in Rows("gone") \cap held : e[1] \in misread

\* What is sent to a model fits into its window, answer included, unless the
\* question is so long, or the window so small, that the least every part is
\* given is too much; and the rules at the end of the system prompt are whole
\* if they are no longer than that least, whatever else there is to send.
PromptFits ==
    \A q \in {x \in Questions : sent[x] # <<>>} :
        LET p == sent[q][1]
            s == sent[q][2]
            total == s.system + s.history + s.user
        IN /\ \/ total <= Budget!Ceiling(p)
              \/ total < p.user + 2 * Budget!Floor
           /\ p.rules <= Budget!Floor => s.rules = p.rules

\* The log names the model that gave the last answer, or the last error, and
\* says which of both it was; nobody asks the model again that has just
\* failed, whoever finds it healthy meanwhile.
LogIsTrue ==
    \A q \in Questions :
        /\ log[q] # <<>> => log[q] = <<tried[q][Len(tried[q])]>>
        /\ \A i, j \in 1 .. Len(tried[q]) : tried[q][i].model = tried[q][j].model => i = j

\* There is one default endpoint at most, so that a question which names none
\* has one to go to, unless two changes of the default overlapped.
OneDefault == Cardinality(preferred) <= 1 \/ crossed
=============================================================================
