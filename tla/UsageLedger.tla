---------------------------- MODULE UsageLedger ----------------------------
(***************************************************************************)
(* What registration keys promise their issuer: uses of a key are taken    *)
(* one at a time while it is open, never more than its limit (0: none),    *)
(* and closing it is final.                                                *)
(***************************************************************************)
EXTENDS Naturals

CONSTANTS Keys, Limit

VARIABLES
  open,   \* the keys that may still be used
  taken   \* uses per key

Take(k) ==
  /\ k \in open
  /\ Limit[k] = 0 \/ taken[k] < Limit[k]
  /\ taken' = [taken EXCEPT ![k] = @ + 1]
  /\ UNCHANGED open

CloseKey(k) ==
  /\ k \in open
  /\ open' = open \ {k}
  /\ UNCHANGED taken

LedgerInit ==
  /\ open = Keys
  /\ taken = [k \in Keys |-> 0]

LedgerNext == \E k \in Keys : Take(k) \/ CloseKey(k)

LedgerSpec == LedgerInit /\ [][LedgerNext]_<<open, taken>>
=============================================================================
