--------------------------- MODULE MCDriftCompute ---------------------------
(* A small instance of DriftCompute for TLC. *)
EXTENDS DriftCompute, TLC

Wanted == {"s1", "s2", "s3", "s4", "s5", "s6"}

\* A node that conforms, and a neglected one, whose penalties exceed 100.
MCGrains ==
    {[pkgs |-> "git" :> <<2, 40, 1>>, services |-> Wanted],
     [pkgs |-> "git" :> <<2, 39>> @@ "nmap" :> <<7>>, services |-> {"ssh"}]}

MCDesiredStates ==
    {[required |-> {[name |-> "git", version |-> <<2, 40, 0>>]}, forbidden |-> {"nmap"},
      stopped |-> {"ssh"}, running |-> Wanted]}
=============================================================================
