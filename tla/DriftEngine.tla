----------------------------- MODULE DriftEngine -----------------------------
(***************************************************************************)
(* The drift score of a node: compute_drift of services/drift_engine.py, a *)
(* pure function of the grains a node reports and of the desired state its *)
(* baseline holds.                                                         *)
(*                                                                         *)
(* Grains are [pkgs, services]: the version of each installed package and  *)
(* the running services.  A desired state is [required, forbidden,         *)
(* stopped, running], where required holds [name, version] records.  A     *)
(* version is a sequence of at most three numbers, as _parse_version makes *)
(* it; <<>> stands for a constraint that is absent or not a ">=" one.      *)
(***************************************************************************)
EXTENDS Integers, Sequences, FiniteSets

IsVersion(v) == v \in Seq(Nat) /\ Len(v) <= 3

\* What a node reports: each package with a version, as _parse_version
\* never returns an empty tuple.
IsGrains(g) == \A n \in DOMAIN g.pkgs : IsVersion(g.pkgs[n]) /\ g.pkgs[n] # <<>>

IsDesiredState(d) ==
    /\ IsFiniteSet(d.required) /\ \A p \in d.required : IsVersion(p.version)
    /\ IsFiniteSet(d.forbidden) /\ IsFiniteSet(d.stopped) /\ IsFiniteSet(d.running)

\* MUTANT of VersionLess: the operands are swapped.
VersionLessSwapped(v, w) ==
    \E i \in 1 .. Len(v) :
        /\ Len(w) >= i - 1
        /\ \A j \in 1 .. i - 1 : v[j] = w[j]
        /\ Len(w) >= i => w[i] < v[i]

\* Tuples compare as in Python: the first difference decides, and a proper
\* prefix is the smaller one.
VersionLess(v, w) ==
    \E i \in 1 .. Len(w) :
        /\ Len(v) >= i - 1
        /\ \A j \in 1 .. i - 1 : v[j] = w[j]
        /\ Len(v) >= i => v[i] < w[i]

Missing(g, d) == {p \in d.required : p.name \notin DOMAIN g.pkgs}

Extra(g, d) == d.forbidden \cap DOMAIN g.pkgs

Mismatched(g, d) ==
    {p \in d.required : /\ p.name \in DOMAIN g.pkgs
                        /\ VersionLess(g.pkgs[p.name], p.version)}

Major(g, d) == {p \in Mismatched(g, d) : g.pkgs[p.name][1] < p.version[1]}

ServiceDrift(g, d) == (d.stopped \cap g.services) \cup (d.running \ g.services)

Penalty(g, d) ==
    20 * Cardinality(Missing(g, d)) + 10 * Cardinality(Extra(g, d))
    + 15 * Cardinality(Major(g, d))
    + 5 * Cardinality(Mismatched(g, d) \ Major(g, d))
    + 15 * Cardinality(ServiceDrift(g, d))

Score(g, d) == IF Penalty(g, d) < 100 THEN Penalty(g, d) ELSE 100

-----------------------------------------------------------------------------
(* The reference: what a node must satisfy to conform to a desired state.  *)

\* "At least" as a reader of a baseline means it: missing parts are zeros.
AtLeast(v, w) ==
    LET part(x, i) == IF i <= Len(x) THEN x[i] ELSE 0
    IN \/ part(v, 1) > part(w, 1)
       \/ /\ part(v, 1) = part(w, 1)
          /\ \/ part(v, 2) > part(w, 2)
             \/ part(v, 2) = part(w, 2) /\ part(v, 3) >= part(w, 3)

Conforms(g, d) ==
    /\ \A p \in d.required :
          /\ p.name \in DOMAIN g.pkgs
          /\ AtLeast(g.pkgs[p.name], p.version)
    /\ \A n \in d.forbidden : n \notin DOMAIN g.pkgs
    /\ d.running \subseteq g.services
    /\ d.stopped \cap g.services = {}
=============================================================================
