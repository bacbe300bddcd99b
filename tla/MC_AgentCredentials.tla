----------------------- MODULE MC_AgentCredentials -----------------------
(***************************************************************************)
(* Model-checking instances of AgentCredentials.                           *)
(***************************************************************************)
EXTENDS AgentCredentials
=============================================================================
