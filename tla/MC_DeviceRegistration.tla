----------------------- MODULE MC_DeviceRegistration -----------------------
(***************************************************************************)
(* Model-checking instance of DeviceRegistration: two limited keys of two  *)
(* organisations.  Requests are interchangeable in every formula, so their *)
(* permutations are a symmetry.                                            *)
(***************************************************************************)
EXTENDS DeviceRegistration, TLC

CONSTANTS k1, k2, orgA, orgB

TwoKeys == k1 :> 1 @@ k2 :> 2
TwoOrgs == k1 :> orgA @@ k2 :> orgB

RequestSymmetry == Permutations(Requests)
=============================================================================
