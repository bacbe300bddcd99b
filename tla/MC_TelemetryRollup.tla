------------------------ MODULE MC_TelemetryRollup ------------------------
(***************************************************************************)
(* Model-checking instances of TelemetryRollup.  Two jobs are enough: with *)
(* the lock held by one, a second finds it taken before a third is fired.  *)
(***************************************************************************)
EXTENDS TelemetryRollup
=============================================================================
