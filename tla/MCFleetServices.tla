--------------------------- MODULE MCFleetServices ---------------------------
(***************************************************************************)
(* Instances of FleetServices: shells of one credential or two, and a       *)
(* screen; two tasks and the node; returns of one job; changes to the      *)
(* secrets of a node, of a group and of two; two tasks that rebuild the    *)
(* index, a page for each of two sources; syncs of the library and what    *)
(* administrators enable and disable meanwhile; questions to models, and    *)
(* changes of their endpoints meanwhile.                                   *)
(***************************************************************************)
EXTENDS FleetServices, TLC

CONSTANTS s1, s2, s3, v1, c1, b1, h1, r1, r2, r3, w1, w2, w3, w4, w5, w6, i1, i2, site, repo, y1, y2, n1, p1, d1,
    fixed, best, new, newer, m1, m2, q0, q1, q2, q3, q4, q5, k1, k2, k3, k4, k5

CredentialOf == s1 :> "password" @@ s2 :> "password" @@ s3 :> "key"
GrainOf == c1 :> "14.1" @@ b1 :> "14.0" @@ h1 :> "14.0"
JidOf == r1 :> "job" @@ r2 :> "job" @@ r3 :> "other"

Put(x, k, v) == [scope |-> x, key |-> k, value |-> v]
ChangeOf ==
    w1 :> Put("node", "user", w1) @@ w2 :> Put("node", "user", Absent) @@
    w3 :> Put("node", "password", w3) @@
    w4 :> Put("ml", "user", w4) @@ w5 :> Put("ml", "user", Absent) @@ w6 :> Put("web", "user", w6)

Listed == <<repo, site>>
WantedOf == n1 :> repo

Serves == fixed :> m1 @@ best :> AutoModel @@ new :> m2 @@ newer :> m2
Names ==
    q0 :> fixed @@ q1 :> best @@ q2 :> best @@ q3 :> best @@ q4 :> fixed @@ q5 :> TheDefault
To(what, place) == [what |-> what, place |-> place]
Changed ==
    k1 :> To("create", new) @@ k2 :> To("create", newer) @@ k3 :> To("promote", fixed) @@
    k4 :> To("disable", fixed) @@ k5 :> To("delete", fixed)

\* Windows and answers of usual sizes, and those where one takes all of the
\* other; the rules are as long as those the code has, or as the least budget.
AllPrompts ==
    {p \in [context : {2048, 4096, 8192}, maxTokens : {1024, 4096}, system : {500, 20000},
            rules : {0, 946, 1000}, history : {<<4000, 1>>, <<4000, 400, 600, 3000>>},
            user : {1, 3000}] : p.rules <= p.system}
Brief == [context |-> 8192, maxTokens |-> 4096, system |-> 2000, rules |-> 946, history |-> <<>>,
          user |-> 100]
Asks == [q \in Questions |-> IF q = q0 THEN AllPrompts ELSE {Brief}]

AllWorkloads ==
    {{s1, s2}, {s1, s3}, {s1, v1}, {c1, b1, h1}, {r1, r2, r3, c1}, {w1, w2, w3}, {w4, w5}, {w5, w6},
     {i1, i2}, {y1, y2}, {y1, n1}, {y1, p1}, {y1, d1},
     {q0}, {q1, q2}, {q3}, {q4, k5}, {q5, k1, k2}, {q5, k3, k4}, {k3, k5}}
=============================================================================
