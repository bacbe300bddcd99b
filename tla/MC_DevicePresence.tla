------------------------- MODULE MC_DevicePresence -------------------------
(***************************************************************************)
(* Model-checking instances of DevicePresence.                             *)
(***************************************************************************)
EXTENDS DevicePresence, TLC
=============================================================================
