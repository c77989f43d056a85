---------------------------- MODULE MCActionGate ----------------------------
(* A small instance of ActionGate for TLC. *)
EXTENDS ActionGate

\* Losses of workers are combined with one request less: what they add is a
\* second delivery and a second callback of one command.
SmallWithLosses == losses > 0 => \E r \in Requests : pc[r] = "idle"

MCNext == Next /\ SmallWithLosses'

MCSpec == Init /\ [][MCNext]_vars /\ Fairness
=============================================================================
