------------------------ MODULE MC_AlertEscalation ------------------------
(***************************************************************************)
(* Model-checking instances of AlertEscalation.  There is no symmetry: one *)
(* of the properties is about liveness.                                    *)
(***************************************************************************)
EXTENDS AlertEscalation
=============================================================================
