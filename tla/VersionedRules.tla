--------------------------- MODULE VersionedRules ---------------------------
(***************************************************************************)
(* What the administration of alert rules promises: rules with versions,   *)
(* changed one step at a time.  A change of a rule, whatever it says,      *)
(* makes the version next to the one the rule has; only a rule that was    *)
(* torn, by changes that overlapped, may count on from an earlier one.     *)
(* A rule that was removed stays so.                                       *)
(***************************************************************************)
EXTENDS Integers

CONSTANTS Rules, Settings, Extras, FirstVersions, None

VARIABLES
  row,    \* a rule, or None
  past,   \* every row a rule has had
  torn    \* the rules whose changes overlapped

Content == [settings: Settings, extras: Extras, enabled: BOOLEAN, archived: BOOLEAN]

Numbered(v, b) ==
  [version |-> v, settings |-> b.settings, extras |-> b.extras,
   enabled |-> b.enabled, archived |-> b.archived]

Become(r, w) ==
  /\ row' = [row EXCEPT ![r] = w]
  /\ past' = [past EXCEPT ![r] = @ \cup {w}]
  /\ UNCHANGED torn

\* Rules that never were, as the fresh rows have them.
Enlist(fresh) ==
  /\ \A r \in Rules : fresh[r] # None => past[r] = {}
  /\ row' = [r \in Rules |-> IF fresh[r] = None THEN row[r] ELSE fresh[r]]
  /\ past' = [r \in Rules |-> IF fresh[r] = None THEN past[r] ELSE {fresh[r]}]
  /\ UNCHANGED torn

\* An update or a rollback counts on from row c.
Change(r, c, b) ==
  /\ row[r] # None
  /\ r \notin torn => c.version = row[r].version
  /\ Become(r, Numbered(c.version + 1, b))

Archive(r) ==
  /\ row[r] # None
  /\ Become(r, [row[r] EXCEPT !.enabled = FALSE, !.archived = TRUE])

Remove(r) ==
  /\ row' = [row EXCEPT ![r] = None]
  /\ UNCHANGED <<past, torn>>

Tear(r) ==
  /\ torn' = torn \cup {r}
  /\ UNCHANGED <<row, past>>

Newcomers == {Numbered(v, b) : v \in FirstVersions, b \in Content}

VersionedInit ==
  /\ row \in [Rules -> {None} \cup {w \in Newcomers : w.version = 1 /\ w.enabled /\ ~w.archived}]
  /\ past = [r \in Rules |-> IF row[r] = None THEN {} ELSE {row[r]}]
  /\ torn = {}

VersionedNext ==
  \/ \E fresh \in [Rules -> Newcomers \cup {None}] : Enlist(fresh)
  \/ \E r \in Rules :
       \/ \E c \in past[r], b \in Content : Change(r, c, b)
       \/ Archive(r) \/ Remove(r) \/ Tear(r)

VersionedSpec == VersionedInit /\ [][VersionedNext]_<<row, past, torn>>
=============================================================================
