------------------------- MODULE MC_AlertRuleEngine -------------------------
(***************************************************************************)
(* Model-checking instances of AlertRuleEngine.  Evaluations are           *)
(* interchangeable in every invariant, so their permutations are a         *)
(* symmetry.                                                               *)
(***************************************************************************)
EXTENDS AlertRuleEngine, TLC

OneTick == [r \in Rules |-> 1]

EvalSymmetry == Permutations(Evals)
=============================================================================
