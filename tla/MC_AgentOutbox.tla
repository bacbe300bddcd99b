-------------------------- MODULE MC_AgentOutbox --------------------------
(***************************************************************************)
(* Model-checking instances of AgentOutbox.  The thresholds 10, 10, 5, 5   *)
(* of the code are scaled down in the .cfg files; every comparison made    *)
(* with them still goes both ways within the bounds.                       *)
(***************************************************************************)
EXTENDS AgentOutbox
=============================================================================
