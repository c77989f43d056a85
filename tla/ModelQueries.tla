---------------------------- MODULE ModelQueries ----------------------------
(***************************************************************************)
(* Questions to the models (routes/llm.py, services/llm_caller.py), what   *)
(* is known of the models' health (services/model_health_cache.py,         *)
(* services/model_discovery.py), and the changes that administrators make  *)
(* to the endpoints meanwhile (services/llm_svc.py).                       *)
(*                                                                         *)
(* All endpoints of the model have one base URL and one provider, so they  *)
(* share the entries of the cache.  An entry that is too old counts as     *)
(* none.  The API is one process: what it does between two awaits is one   *)
(* step.  A question waits for its model with its transaction open.        *)
(***************************************************************************)
EXTENDS Naturals, Sequences

CONSTANTS
    Places,        \* endpoints (rows of llm_endpoints)
    Models,        \* what they serve
    FirstDefault,  \* the default of them at first
    ModelOf,       \* the model of an endpoint, or
    AutoModel,     \* '__auto__': the best of those that are healthy
    Questions,     \* requests of POST /query
    Streamed,      \* those of them of POST /query/stream
    AskedOf,       \* the endpoint that each names, or
    TheDefault,    \* none
    Prompts,       \* what each may ask: see PromptBudget
    Changes,       \* requests that change an endpoint
    ChangeTo,      \* what each changes: [what, place]
    MaxTurns       \* bound: how often what a model does changes, or what is
                   \* known of it, but by questions

Budget == INSTANCE PromptBudget

ASSUME QueriesAssumption ==
    /\ FirstDefault \in Places
    /\ ModelOf \in [Places -> Models \cup {AutoModel}] /\ AutoModel \notin Models
    /\ Streamed \subseteq Questions
    /\ AskedOf \in [Questions -> Places \cup {TheDefault}] /\ TheDefault \notin Places
    /\ \A q \in Questions : Prompts[q] \subseteq Budget!Prompt
    /\ \A c \in Changes :
          /\ ChangeTo[c].what \in {"create", "promote", "disable", "delete"}
          /\ ChangeTo[c].place \in Places
          /\ ChangeTo[c].what = "create" => ChangeTo[c].place # FirstDefault
    /\ MaxTurns \in Nat

VARIABLES
    asking,        \* the requests of this behaviour
    saying,        \* what a model does when asked: it is well, mute, or down
    health,        \* the cache
    registered,    \* rows of llm_endpoints
    serving,       \* those that are enabled
    preferred,     \* those that are the default
    question,      \* where a question is
    sent,          \* its prompt, and what of it models were sent
    log,           \* its rows of llm_query_log
    change,        \* where a change is, and what it has read
    turns,         \* see MaxTurns
    tried,         \* history: the models that were asked, and how they answered
    crossed        \* history: two changes of the default overlapped

endpointVars == <<registered, serving, preferred, change, crossed>>
queryVars == <<asking, saying, health, endpointVars, question, sent, log, turns, tried>>
askVars == <<asking, saying, endpointVars, turns>>

\* A question goes to an endpoint, and to a model of it; its transaction is
\* aborted once a statement failed.  It is answered or failed until that is
\* logged; refused, or cut off, it never is.
NewQuestion == [step |-> "asked", at |-> TheDefault, model |-> AutoModel, todo |-> {}, aborted |-> FALSE]

Goes(q, r) == question' = [question EXCEPT ![q] = r]

Healthy == {m \in Models : health[m] = "healthy"}

Stale == \A m \in Models : health[m] = "unknown"

-----------------------------------------------------------------------------
(* Up to the model                                                         *)

\* The default endpoint is read as the one row that is enabled and default:
\* that there are two is an error.
PickEndpoint(q) ==
    /\ q \in asking
    /\ question[q].step = "asked"
    /\ LET candidates == IF AskedOf[q] = TheDefault THEN preferred \cap serving
                         ELSE {AskedOf[q]} \cap registered \cap serving
       IN \/ \E e \in Places :
                /\ candidates = {e}
                /\ Goes(q, [question[q] EXCEPT !.step = "context", !.at = e])
          \/ /\ \A e \in Places : candidates # {e}
             /\ Goes(q, [question[q] EXCEPT !.step = "refused"])
    /\ UNCHANGED <<askVars, health, sent, log, tried>>

\* When the context of the fleet cannot be read, the question is asked
\* without it, but nobody rolls the transaction back.
BuildContext(q) ==
    /\ question[q].step = "context"
    /\ \E failed \in BOOLEAN :
          Goes(q, [question[q] EXCEPT !.step = "resolve", !.aborted = failed])
    /\ UNCHANGED <<askVars, health, sent, log, tried>>

\* The model is the endpoint's; else one that is known to be healthy, and
\* when nothing is known, all are probed first.
ResolveModel(q) ==
    /\ question[q].step = "resolve"
    /\ LET m == ModelOf[question[q].at]
           r == question[q]
       IN \/ m # AutoModel /\ Goes(q, [r EXCEPT !.step = "call", !.model = m])
          \/ /\ m = AutoModel /\ Stale
             /\ \E listed \in {{}, Models} : Goes(q, [r EXCEPT !.step = "probe", !.todo = listed])
          \/ /\ m = AutoModel /\ ~Stale
             /\ Goes(q, [r EXCEPT !.step = "choose"])
    /\ UNCHANGED <<askVars, health, sent, log, tried>>

\* A timeout does not count as unhealthy: the model may be loading.
Probed(m) ==
    CASE saying[m] = "well" -> {"healthy"}
      [] saying[m] = "mute" -> {"unhealthy"}
      [] saying[m] = "down" -> {"healthy", "unhealthy"}

Probe(q, m) ==
    /\ question[q].step = "probe" /\ m \in question[q].todo
    /\ \E h \in Probed(m) : health' = [health EXCEPT ![m] = h]
    /\ Goes(q, [question[q] EXCEPT !.todo = @ \ {m}])
    /\ UNCHANGED <<askVars, sent, log, tried>>

ChooseModel(q) ==
    /\ \/ question[q].step = "choose"
       \/ question[q].step = "probe" /\ question[q].todo = {}
    /\ \/ \E m \in Healthy : Goes(q, [question[q] EXCEPT !.step = "call", !.model = m])
       \/ Healthy = {} /\ Goes(q, [question[q] EXCEPT !.step = "refused"])
    /\ UNCHANGED <<askVars, health, sent, log, tried>>

-----------------------------------------------------------------------------
(* The call                                                                *)

\* What comes back: a text, nothing, or an error, of which the callers know
\* most kinds (LLMCallError) but not all.
Replies(m) ==
    CASE saying[m] = "well" -> {"text", "error", "surprise"}
      [] saying[m] = "mute" -> {"nothing"}
      [] saying[m] = "down" -> {"error"}

\* An empty reply of no tokens is an error.
IsAnswer(reply) == reply = "text"

Send(q) ==
    /\ question[q].step = "call"
    /\ \E p \in Prompts[q] :
          LET recent == [p EXCEPT !.history = Budget!Recent(p.history)] IN
          sent' = [sent EXCEPT ![q] = <<recent, Budget!Budgeted(recent)>>]
    /\ Goes(q, [question[q] EXCEPT !.step = "called"])
    /\ UNCHANGED <<askVars, health, log, tried>>

Answer(q) ==
    /\ question[q].step \in {"called", "retried"}
    /\ \E reply \in Replies(question[q].model) : IsAnswer(reply)
    /\ tried' = [tried EXCEPT ![q] = Append(@, [model |-> question[q].model, ok |-> TRUE])]
    /\ Goes(q, [question[q] EXCEPT !.step = "answered"])
    /\ UNCHANGED <<askVars, health, sent, log>>

\* What a failed call leaves in the cache.  The model of an endpoint that has
\* one is unhealthy (a stream says so of any error); one that was chosen is
\* forgotten, but not by a stream.
AfterFailure(q, reply) ==
    LET m == question[q].model
        chosen == ModelOf[question[q].at] = AutoModel
    IN CASE chosen /\ q \notin Streamed -> [health EXCEPT ![m] = "unknown"]
         [] ~chosen /\ (q \in Streamed \/ reply # "surprise") -> [health EXCEPT ![m] = "unhealthy"]
         [] OTHER -> health

\* MUTANT of Others: one tries the model again that has just failed.
OthersOrSame(q) == {m \in Models : health[m] = "healthy"}

\* Models to fall back to: those that are healthy when the one that was
\* chosen has been forgotten.
Others(q) == {m \in Models : health'[m] = "healthy"}

Fail(q) ==
    /\ question[q].step \in {"called", "retried"}
    /\ \E reply \in Replies(question[q].model) :
          /\ ~IsAnswer(reply)
          /\ health' = AfterFailure(q, reply)
    /\ tried' = [tried EXCEPT ![q] = Append(@, [model |-> question[q].model, ok |-> FALSE])]
    /\ LET again == /\ ModelOf[question[q].at] = AutoModel /\ q \notin Streamed
                    /\ question[q].step = "called"
       IN \/ /\ again
             /\ \E m \in Others(q) : Goes(q, [question[q] EXCEPT !.step = "retried", !.model = m])
          \/ /\ ~again \/ Others(q) = {}
             /\ Goes(q, [question[q] EXCEPT !.step = "failed"])
    /\ UNCHANGED <<askVars, sent, log>>

-----------------------------------------------------------------------------
(* Its end                                                                 *)

\* The row refers to the endpoint, which must still be there.
WriteLog(q) ==
    /\ question[q].step \in {"answered", "failed"}
    /\ LET r == question[q] IN
       \/ /\ ~r.aborted /\ r.at \in registered
          /\ log' = [log EXCEPT ![q] = Append(@, [model |-> r.model, ok |-> r.step = "answered"])]
          /\ Goes(q, [r EXCEPT !.step = "logged"])
       \/ /\ r.aborted \/ r.at \notin registered
          /\ Goes(q, [r EXCEPT !.step = "lost"])
          /\ UNCHANGED log
    /\ UNCHANGED <<askVars, health, sent, tried>>

\* The browser goes away: a stream is cancelled where it waits.
Disconnect(q) ==
    /\ q \in Streamed
    /\ question[q].step \in {"called", "answered", "failed"}
    /\ Goes(q, [question[q] EXCEPT !.step = "left"])
    /\ UNCHANGED <<askVars, health, sent, log, tried>>

Ask(q) ==
    \/ PickEndpoint(q) \/ BuildContext(q) \/ ResolveModel(q) \/ ChooseModel(q)
    \/ \E m \in Models : Probe(q, m)
    \/ Send(q) \/ Answer(q) \/ Fail(q)
    \/ WriteLog(q) \/ Disconnect(q)

-----------------------------------------------------------------------------
(* Changes of the endpoints                                                *)

\* The row that is to be changed is loaded.
LoadEndpoint(c) ==
    /\ c \in asking /\ change[c].step = "asked"
    /\ ChangeTo[c].what # "create"
    /\ LET e == ChangeTo[c].place IN
       change' = [change EXCEPT ![c] =
                    IF e \in registered
                    THEN [step |-> "loaded", wasDefault |-> e \in preferred, cleared |-> {}]
                    ELSE [@ EXCEPT !.step = "refused"]]
    /\ UNCHANGED <<asking, saying, health, registered, serving, preferred, question, sent,
                   log, turns, tried, crossed>>

\* MUTANT of Demoted: no other endpoint loses the default.
DemotedNone == {}

\* The UPDATE that takes the default from all endpoints: those there are when
\* it begins.  Whoever else wants one of these rows waits for the commit.
Demoted == registered

ClearDefaults(c) ==
    /\ c \in asking
    /\ \/ ChangeTo[c].what = "create" /\ change[c].step = "asked"
       \/ ChangeTo[c].what = "promote" /\ change[c].step = "loaded"
    /\ change' = [change EXCEPT ![c] = [@ EXCEPT !.step = "cleared", !.cleared = Demoted]]
    /\ crossed' = (crossed \/ \E d \in Changes \ {c} : change[d].step = "cleared")
    /\ UNCHANGED <<asking, saying, health, registered, serving, preferred, question, sent,
                   log, turns, tried>>

\* Only what differs from what was loaded is written; a row that is gone
\* makes the commit fail.
CommitChange(c) ==
    /\ \/ change[c].step = "cleared"
       \/ change[c].step = "loaded" /\ ChangeTo[c].what \in {"disable", "delete"}
    /\ LET e == ChangeTo[c].place
           what == ChangeTo[c].what
           Done(rows, enabled, defaults) ==
               /\ registered' = rows
               /\ serving' = enabled
               /\ preferred' = defaults
               /\ change' = [change EXCEPT ![c].step = "done"]
       IN \/ /\ what = "create"
             /\ Done(registered \cup {e}, serving \cup {e}, (preferred \ change[c].cleared) \cup {e})
          \/ /\ what = "promote" /\ e \in registered
             /\ Done(registered, serving, (preferred \ change[c].cleared) \cup {e})
          \/ /\ what = "disable" /\ e \in registered
             /\ Done(registered, serving \ {e},
                     IF change[c].wasDefault THEN preferred \ {e} ELSE preferred)
          \/ /\ what = "delete" /\ e \in registered
             /\ Done(registered \ {e}, serving \ {e}, preferred \ {e})
          \/ /\ what # "create" /\ e \notin registered
             /\ change' = [change EXCEPT ![c].step = "refused"]
             /\ UNCHANGED <<registered, serving, preferred>>
    /\ UNCHANGED <<asking, saying, health, question, sent, log, turns, tried, crossed>>

-----------------------------------------------------------------------------
(* The rest                                                                *)

\* An entry of the cache becomes too old, or somebody refreshes it.
RefreshHealth(m) ==
    /\ turns < MaxTurns
    /\ turns' = turns + 1
    /\ \E h \in Probed(m) \cup {"unknown"} : health' = [health EXCEPT ![m] = h]
    /\ UNCHANGED <<asking, saying, endpointVars, question, sent, log, tried>>

Turn(m) ==
    /\ turns < MaxTurns
    /\ turns' = turns + 1
    /\ \E s \in {"well", "mute", "down"} \ {saying[m]} : saying' = [saying EXCEPT ![m] = s]
    /\ UNCHANGED <<asking, health, endpointVars, question, sent, log, tried>>

\* Endpoints that are to be created are not there yet.
InitQueries(who) ==
    /\ asking = who
    /\ saying = [m \in Models |-> "well"]
    /\ health = [m \in Models |-> "unknown"]
    /\ registered = Places \ {ChangeTo[c].place : c \in {d \in Changes : ChangeTo[d].what = "create"}}
    /\ serving = registered
    /\ preferred = {FirstDefault}
    /\ question = [q \in Questions |-> NewQuestion]
    /\ sent = [q \in Questions |-> <<>>]
    /\ log = [q \in Questions |-> <<>>]
    /\ change = [c \in Changes |-> [step |-> "asked", wasDefault |-> FALSE, cleared |-> {}]]
    /\ turns = 0
    /\ tried = [q \in Questions |-> <<>>]
    /\ crossed = FALSE

Queries ==
    \/ \E q \in Questions : Ask(q)
    \/ \E c \in Changes : LoadEndpoint(c) \/ ClearDefaults(c) \/ CommitChange(c)
    \/ \E m \in Models : RefreshHealth(m) \/ Turn(m)
=============================================================================
