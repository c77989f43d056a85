----------------------------- MODULE MCAgentRun -----------------------------
(***************************************************************************)
(* Instances of AgentRun: one run with every kind of call; runs that       *)
(* compete for endpoints and budget.                                       *)
(***************************************************************************)
EXTENDS AgentRun, TLC

CONSTANTS a, b, c

Tool(name, kind, guarded) == [name |-> name, kind |-> kind, guarded |-> guarded]

Look == Tool("get_node", "read", FALSE)
Refused == Tool("set_pillar", "refused", FALSE)
AllCalls == {Look, Refused, Tool("apply_salt_state_dry_run", "dryRun", FALSE),
           Tool("apply_salt_state", "live", FALSE), Tool("restart_service", "direct", TRUE)}

Workloads1 ==
    {[runs |-> {a}, leavers |-> {a}, asked |-> Endpoints, calls |-> AllCalls, restarts |-> 1, outages |-> 0],
     [runs |-> {a, b}, leavers |-> {a, b}, asked |-> Endpoints, calls |-> {Look}, restarts |-> 1, outages |-> 1],
     [runs |-> {a, b, c}, leavers |-> {}, asked |-> {}, calls |-> {Refused}, restarts |-> 0, outages |-> 0]}
=============================================================================
