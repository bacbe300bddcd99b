----------------------------- MODULE OnceRollup -----------------------------
(***************************************************************************)
(* What a tier of the telemetry rollup promises the readers of its         *)
(* aggregates.  There is a cut in time.  Rolling up moves the cut forward  *)
(* and takes, in one step, every snapshot stamped between the old cut and  *)
(* the new one: all those that arrived in time, perhaps some of the late   *)
(* ones, none of those rolled up before.                                   *)
(***************************************************************************)
EXTENDS Integers

CONSTANTS
  Snapshots,
  Moments,    \* of stamps and cuts
  Never       \* no cut yet

VARIABLES
  arrived, stamp,
  passed,     \* those that came late: no rollup owes them anything
  cut,
  rolled      \* of each snapshot: in how many rollups it was

\* A snapshot from before the cut is late, and one from after it may be.
Arrive(s, t) ==
  /\ s \notin arrived
  /\ arrived' = arrived \cup {s}
  /\ stamp' = [stamp EXCEPT ![s] = t]
  /\ passed' \in IF cut # Never /\ t <= cut THEN {passed \cup {s}}
                                            ELSE {passed, passed \cup {s}}
  /\ UNCHANGED <<cut, rolled>>

Between(from, to) == {s \in arrived : from < stamp[s] /\ stamp[s] <= to}

\* The first rollup begins anywhere.
RollUp(from, to) ==
  /\ cut # Never => from = cut /\ cut <= to
  /\ cut' = to
  /\ \E taken \in SUBSET Between(from, to) :
       /\ Between(from, to) \ passed \subseteq taken
       /\ \A s \in taken : rolled[s] = 0
       /\ rolled' = [s \in Snapshots |-> IF s \in taken THEN 1 ELSE rolled[s]]
  /\ UNCHANGED <<arrived, stamp, passed>>

OnceInit ==
  /\ arrived = {}
  /\ stamp \in [Snapshots -> Moments]
  /\ passed = {}
  /\ cut = Never
  /\ rolled = [s \in Snapshots |-> 0]

OnceNext ==
  \/ \E s \in Snapshots, t \in Moments : Arrive(s, t)
  \/ \E from, to \in Moments : RollUp(from, to)

OnceSpec == OnceInit /\ [][OnceNext]_<<arrived, stamp, passed, cut, rolled>>
=============================================================================
