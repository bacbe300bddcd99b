-------------------------- MODULE MC_ConsoleFeed --------------------------
(***************************************************************************)
(* Model-checking instances of ConsoleFeed.  The consoles are alike: any   *)
(* two of them may be exchanged, with their sockets.                       *)
(***************************************************************************)
EXTENDS ConsoleFeed, TLC

Alike == Permutations(Consoles)
=============================================================================
