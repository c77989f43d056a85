--------------------------- MODULE MCMasterFleet ---------------------------
(***************************************************************************)
(* Instances of MasterFleet: the registry alone; presence with one request *)
(* on the registry; health and provisioning; each of them a workload.      *)
(***************************************************************************)
EXTENDS MasterFleet, TLC

CONSTANTS n1, q1, q2, s1, s2, a1, g1, p1, p2, t1, v1, v2

\* Rows of new masters, and bodies that change one flag or both.
SomeBodies ==
    {[enabled |-> e[1], is_default |-> e[2]] :
       e \in {<<"yes", "yes">>, <<"no", "no">>, <<"no", "unset">>, <<"unset", "yes">>, <<"unset", "no">>}}

Fine == [dns |-> "ok", publish |-> "ok", ret |-> "ok", configured |-> TRUE, auth |-> "ok",
         keys |-> "ok", versions |-> "ok", minions |-> "ok", token |-> "ingest"]
Conditions1 == {Fine, [Fine EXCEPT !.auth = "error"], [Fine EXCEPT !.versions = "outdated"]}

Quiet == [enabled |-> {1}, disabled |-> {}, isDefault |-> {1}, owner |-> n1 :> 1, listens |-> {},
          changes |-> 0, faults |-> 0, condition |-> Fine]

Actors(w, as) == w @@ [actors |-> as]

Two == [Quiet EXCEPT !.enabled = {1, 2}, !.listens = {1}]

Registry == Actors([Quiet EXCEPT !.enabled = {1, 2}], {q1, q2})
Undefaulted == Actors([Quiet EXCEPT !.disabled = {2}, !.isDefault = {}], {q1, q2})
Sweeping == Actors(Two, {q1, s1})
Attaching == Actors([Two EXCEPT !.changes = 1], {s1, a1})
Detaching == Actors(Two, {q1, s1, a1})
Overlapping == Actors([Two EXCEPT !.changes = 1], {s1, s2})
Reporting == Actors([Quiet EXCEPT !.listens = {1}, !.changes = 2], {s1, g1})
Probing == Actors([Quiet EXCEPT !.faults = 1], {p1, p2, t1})
ProbingTwo == Actors(Two, {q1, p1})
Testing == Actors(Two, {q1, t1})
Provisioning == Actors(Quiet, {v1, v2})
Replacing == Actors(Two, {q1, v1})

AllWorkloads == {Registry, Undefaulted, Sweeping, Attaching, Detaching, Overlapping, Reporting, Probing,
                 ProbingTwo, Testing, Provisioning, Replacing}
=============================================================================
