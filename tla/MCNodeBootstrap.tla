-------------------------- MODULE MCNodeBootstrap --------------------------
(* A small instance of NodeBootstrap for TLC. *)
EXTENDS NodeBootstrap
=============================================================================
