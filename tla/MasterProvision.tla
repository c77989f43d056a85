-------------------------- MODULE MasterProvision --------------------------
(***************************************************************************)
(* Provisioning of Salt masters: provision_master of                       *)
(* workers/ansible_tasks.py, the route that triggers it, and its reaper in *)
(* workers/maintenance.py.  The task records a run, installs the master by *)
(* a playbook, probes it, and settles the run and provision_status.        *)
(*                                                                         *)
(* Nothing keeps two tasks from provisioning the same master.  When a task *)
(* ends by an exception, its except clause settles provision_status and    *)
(* its finally clause the run; the latter looks for the one running run of *)
(* the master, which need not be the task's own, and fails when there are  *)
(* several.                                                                *)
(***************************************************************************)
EXTENDS MasterHealth

CONSTANTS Provisions    \* provision_master tasks

VARIABLES
    pstatus,      \* column provision_status of each master
    step,         \* step of each task
    master,       \* the master it provisions
    worked,       \* its playbook succeeded
    probed,       \* what the probe after it found
    run,          \* status of the row of its run
    runAge,       \* age of the row
    misfiled      \* history: a finally clause settled the run of another task

provisionVars == <<pstatus, step, master, worked, probed, run, runAge, misfiled>>

ProvisionStatus == {"unprovisioned", "provisioning", "provisioned", "failed", "error"}
Step == {"idle", "queued", "run", "probe", "finish", "finished", "cleanup", "done", "lost"}
RunStatus == {"absent", "running", "completed", "failed"}

\* An UPDATE of a master that is gone does nothing.
SetStatus(m, s) ==
    pstatus' = IF m \in registered THEN [pstatus EXCEPT ![m] = s] ELSE pstatus

SetRun(v, s) == run' = IF run[v] = "absent" THEN run ELSE [run EXCEPT ![v] = s]

AtStep(v, s) == step' = [step EXCEPT ![v] = s]

-----------------------------------------------------------------------------
\* trigger_provision_master sends the task.
TriggerProvision(v, m) ==
    /\ v \in workload.actors
    /\ step[v] = "idle"
    /\ m \in registered
    /\ master' = [master EXCEPT ![v] = m]
    /\ AtStep(v, "queued")
    /\ UNCHANGED <<pstatus, worked, probed, run, runAge, misfiled, mstatus, checked>>

\* The task records a run, unless the master is gone or no SSH user is known.
ProvisionStart(v) ==
    /\ step[v] = "queued"
    /\ \/ /\ master[v] \notin registered
          /\ AtStep(v, "done")
          /\ UNCHANGED <<pstatus, run>>
       \/ /\ SetStatus(master[v], "error")
          /\ AtStep(v, "done")
          /\ UNCHANGED run
       \/ /\ master[v] \in registered
          /\ SetStatus(master[v], "provisioning")
          /\ run' = [run EXCEPT ![v] = "running"]
          /\ AtStep(v, "run")
    /\ UNCHANGED <<master, worked, probed, runAge, misfiled, mstatus, checked>>

\* The host does not answer.
PreflightFails(v) ==
    /\ step[v] = "run"
    /\ SetStatus(master[v], "failed")
    /\ SetRun(v, "failed")
    /\ AtStep(v, "done")
    /\ UNCHANGED <<master, worked, probed, runAge, misfiled, mstatus, checked>>

\* The playbook ends, or is stopped by its own timeout.
PlaybookEnds(v) ==
    /\ step[v] = "run"
    /\ \E ok \in BOOLEAN :
          /\ worked' = [worked EXCEPT ![v] = ok]
          /\ AtStep(v, IF ok THEN "probe" ELSE "finish")
    /\ UNCHANGED <<pstatus, master, probed, run, runAge, misfiled, mstatus, checked>>

\* The probe of a master that is still there; it may raise.
ProvisionProbe(v) ==
    /\ step[v] = "probe"
    /\ \E r \in {"none"} \cup {Probe(m) : m \in {master[v]} \cap registered} :
          probed' = [probed EXCEPT ![v] = r]
    /\ AtStep(v, "finish")
    /\ UNCHANGED <<pstatus, master, worked, run, runAge, misfiled, mstatus, checked>>

\* Master and run are settled in one commit.
ProvisionFinish(v) ==
    LET m == master[v]
        shown == m \in registered /\ worked[v] /\ probed[v] # "none"
    IN
    /\ step[v] = "finish"
    /\ SetStatus(m, IF worked[v] THEN "provisioned" ELSE "failed")
    /\ SetRun(v, IF worked[v] THEN "completed" ELSE "failed")
    /\ mstatus' = IF shown THEN [mstatus EXCEPT ![m] = probed[v]] ELSE mstatus
    /\ checked' = IF shown THEN [checked EXCEPT ![m] = "recent"] ELSE checked
    /\ AtStep(v, "finished")
    /\ UNCHANGED <<master, worked, probed, runAge, misfiled>>

ProvisionReturns(v) ==
    /\ step[v] = "finished"
    /\ AtStep(v, "done")
    /\ UNCHANGED <<pstatus, master, worked, probed, run, runAge, misfiled, mstatus, checked>>

\* The soft time limit, or any other exception, anywhere in the try block:
\* the except clause.
ProvisionRaises(v) ==
    /\ step[v] \in {"run", "probe", "finish", "finished"}
    /\ IF pstatus[master[v]] = "provisioning" THEN SetStatus(master[v], "failed")
       ELSE UNCHANGED pstatus
    /\ AtStep(v, "cleanup")
    /\ UNCHANGED <<master, worked, probed, run, runAge, misfiled, mstatus, checked>>

Running(m) == {w \in Provisions : master[w] = m /\ run[w] = "running"}

\* The finally clause: scalar_one_or_none raises when there are several.
ProvisionCleanup(v) ==
    /\ step[v] = "cleanup"
    /\ \/ \E w \in Provisions :
             /\ Running(master[v]) = {w}
             /\ run' = [run EXCEPT ![w] = "failed"]
             /\ misfiled' = (misfiled \/ w # v)
       \/ /\ \A w \in Provisions : Running(master[v]) # {w}
          /\ UNCHANGED <<run, misfiled>>
    /\ AtStep(v, "done")
    /\ UNCHANGED <<pstatus, master, worked, probed, runAge, mstatus, checked>>

\* The worker is killed; the message was acknowledged before the task began.
ProvisionLost(v) ==
    /\ step[v] \in {"run", "probe", "finish", "finished", "cleanup"}
    /\ AtStep(v, "lost")
    /\ UNCHANGED <<pstatus, master, worked, probed, run, runAge, misfiled, mstatus, checked>>

-----------------------------------------------------------------------------
(* reap_orphaned_master_provisions                                         *)

Orphans == {v \in Provisions : run[v] = "running" /\ runAge[v] = "old"}

\* MUTANT of ReapOrphans: the masters of the runs are forgotten.
ReapRunsOnly ==
    /\ run' = [v \in Provisions |-> IF v \in Orphans THEN "failed" ELSE run[v]]
    /\ UNCHANGED <<pstatus, step, master, worked, probed, runAge, misfiled, mstatus, checked>>

ReapOrphans ==
    /\ run' = [v \in Provisions |-> IF v \in Orphans THEN "failed" ELSE run[v]]
    /\ pstatus' = [m \in Masters |->
                     IF pstatus[m] = "provisioning" /\ \E v \in Orphans : master[v] = m
                     THEN "failed" ELSE pstatus[m]]
    /\ UNCHANGED <<step, master, worked, probed, runAge, misfiled, mstatus, checked>>

\* Ninety minutes pass: by then Celery's time limits have ended the task.
RunAges(v) ==
    /\ run[v] = "running"
    /\ step[v] \in {"done", "lost"}
    /\ runAge[v] = "recent"
    /\ runAge' = [runAge EXCEPT ![v] = "old"]
    /\ UNCHANGED <<pstatus, step, master, worked, probed, run, misfiled, mstatus, checked>>

\* ON DELETE CASCADE: the runs go with their master.
RunsFollow ==
    /\ run' = [v \in Provisions |->
                 IF step[v] # "idle" /\ master[v] \notin registered' THEN "absent" ELSE run[v]]
    /\ UNCHANGED <<pstatus, step, master, worked, probed, runAge, misfiled>>

InitProvision ==
    /\ pstatus = [m \in Masters |-> "unprovisioned"]
    /\ step = [v \in Provisions |-> "idle"]
    /\ master = [v \in Provisions |-> NoMaster]
    /\ worked = [v \in Provisions |-> FALSE]
    /\ probed = [v \in Provisions |-> "none"]
    /\ run = [v \in Provisions |-> "absent"]
    /\ runAge = [v \in Provisions |-> "recent"]
    /\ misfiled = FALSE

ProvisionEnds(v) ==
    \/ PreflightFails(v) \/ PlaybookEnds(v) \/ ProvisionProbe(v) \/ ProvisionFinish(v)
    \/ ProvisionReturns(v) \/ ProvisionRaises(v) \/ ProvisionCleanup(v) \/ ProvisionLost(v)

\* Everything but mstatus and checked of the health is left alone.
Provision ==
    /\ \/ \E v \in Provisions : 
             (\E m \in Masters : TriggerProvision(v, m)) \/ ProvisionStart(v) \/ ProvisionEnds(v) \/ RunAges(v)
       \/ ReapOrphans
    /\ UNCHANGED <<condition, poller, test, faults>>

\* A task ends, at the latest by Celery's hard time limit; beat runs the
\* reaper every half hour.
ProvisionFairness ==
    /\ \A v \in Provisions : WF_provisionVars(ProvisionEnds(v))
    /\ \A v \in Provisions : WF_runAge(RunAges(v))
    /\ WF_<<run, pstatus>>(ReapOrphans)
=============================================================================
