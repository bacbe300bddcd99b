------------------------- MODULE MC_RuleAdministration -------------------------
(***************************************************************************)
(* RuleAdministration for TLC: model values, all of them interchangeable,  *)
(* and a bound on how many requests meet how many rules.                   *)
(***************************************************************************)
EXTENDS RuleAdministration, TLC

Symmetry ==
  Permutations(Requests) \cup Permutations(Rules) \cup Permutations(Settings) \cup Permutations(Extras)

\* As long as one rule has never been there, all requests may come; once all
\* rules have been there, one request stays away.
ThreeOnOneOrTwoOnTwo ==
  (\E r \in Rules : committed[r] = {}) \/ (\E q \in Requests : pc[q] = "idle")
=============================================================================
