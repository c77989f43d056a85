---------------------------- MODULE PromptBudget ----------------------------
(***************************************************************************)
(* How much of a prompt is sent to a model (_budget_inputs and             *)
(* _truncate_system_prompt of services/llm_caller.py, and the cut of the   *)
(* history in api/routes/llm.py).  Texts are their lengths in characters.  *)
(*                                                                         *)
(* A prompt is [context, maxTokens, system, rules, history, user]: the     *)
(* window of the model and the length of its answer in tokens; the length  *)
(* of the system prompt and of the rules at its end (0 if there are none); *)
(* those of the messages so far, the oldest first; that of the question.   *)
(***************************************************************************)
EXTENDS Integers, Sequences

CharsPerToken == 4
Slack == 200
Floor == 1000          \* no part is given less
Marker == 40           \* the text that says something was left out
MaxMessages == 10
HistoryLimit == 6000 * CharsPerToken

Prompt == [context : Nat, maxTokens : Nat, system : Nat, rules : Nat, history : Seq(Nat), user : Nat]

Larger(a, b) == IF a > b THEN a ELSE b
Smaller(a, b) == IF a < b THEN a ELSE b

\* The length of the last k messages of h.
LastMessages(h, k) ==
    LET Sum[n \in 0 .. k] == IF n = 0 THEN 0 ELSE Sum[n - 1] + h[Len(h) + 1 - n]
    IN Sum[k]

\* The most of the last n messages of h that are together at most limit long.
Fitting(h, n, limit) ==
    CHOOSE k \in 0 .. n :
        /\ LastMessages(h, k) <= limit
        /\ \A j \in k + 1 .. n : LastMessages(h, j) > limit

\* What the route keeps of a history: the oldest messages are dropped first.
Recent(h) == SubSeq(h, Len(h) + 1 - Fitting(h, Len(h), HistoryLimit), Len(h))

\* The answer is given no more than the whole window.
Reserved(p) == Smaller(p.maxTokens, p.context)

\* What there is for all inputs.
Ceiling(p) == Larger(Floor, (p.context - Reserved(p)) * CharsPerToken - Slack)

\* What the question leaves to the others.
Remaining(p) == Larger(Floor, Ceiling(p) - p.user)

\* MUTANT of HistoryShare: the history has a budget of its own.
HistoryOfItsOwn(p) == HistoryLimit

\* The history gets at most half of that.
HistoryShare(p) == Remaining(p) \div 2

KeptMessages(p) ==
    Fitting(p.history, Smaller(MaxMessages, Len(p.history)), HistoryShare(p))

SentHistory(p) == LastMessages(p.history, KeptMessages(p))

SystemBudget(p) == Larger(Floor, Remaining(p) - SentHistory(p))

\* What is left of a system prompt of which budget may be sent: its middle is
\* left out, the rules at its end are cut only if they alone are too long.
Truncated(p, budget) ==
    LET head == budget - p.rules - Marker IN
    CASE p.system <= budget -> [length |-> p.system, rules |-> p.rules]
      [] p.system > budget /\ head > 0 -> [length |-> budget, rules |-> p.rules]
      [] p.system > budget /\ head <= 0 /\ p.rules > 0 ->
            [length |-> budget, rules |-> Smaller(p.rules, budget)]
      [] OTHER -> [length |-> budget + Marker, rules |-> 0]

\* What is sent.
Budgeted(p) ==
    LET s == Truncated(p, SystemBudget(p))
    IN [system |-> s.length, rules |-> s.rules, history |-> SentHistory(p), user |-> p.user]
=============================================================================
