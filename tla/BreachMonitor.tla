--------------------------- MODULE BreachMonitor ---------------------------
(***************************************************************************)
(* What alert rules promise: a monitor that takes readings one at a time.  *)
(* A rule that is breached starts to run; if it is still breached when it  *)
(* has run for its duration, an alert is raised, unless one is up already; *)
(* a good reading ends the run and takes the alert down.  The promise is   *)
(* kept for as long as it is calm: nothing overlaps, and nobody puts an    *)
(* alert up again by hand.                                                 *)
(***************************************************************************)
EXTENDS Naturals

CONSTANTS
  Readings,
  Rules,
  Duration    \* of every rule

VARIABLES
  value,      \* what a reading says of a rule
  clock,
  running,    \* the breached rules, each with the time it was first breached
  raised,     \* the alerts that are up, each with its reading and rule
  calm

Of(r, S)   == {x \in S : x.rule = r}
AlertOf(r) == {a \in raised : a[2] = r}

Start(e, r) ==
  /\ value[e][r] = "breach"
  /\ Of(r, running) = {}
  /\ \E t \in 0..clock : running' = running \cup {[rule |-> r, since |-> t]}
  /\ UNCHANGED raised

Raise(e, r) ==
  /\ value[e][r] = "breach"
  /\ \E x \in Of(r, running) : clock - x.since >= Duration[r]
  /\ AlertOf(r) = {}
  /\ raised' = raised \cup {<<e, r>>}
  /\ UNCHANGED running

Recover(e, r) ==
  /\ value[e][r] = "fine"
  /\ running' = running \ Of(r, running)
  /\ raised' = raised \ AlertOf(r)

\* By an operator.
Dismiss(a) == raised' = raised \ {a} /\ UNCHANGED running

Observe ==
  /\ UNCHANGED clock
  /\ \/ \E e \in Readings, r \in Rules : Start(e, r) \/ Raise(e, r) \/ Recover(e, r)
     \/ \E a \in raised : Dismiss(a)

Pass == clock' = clock + 1 /\ UNCHANGED <<running, raised>>

MonitorInit ==
  /\ value \in [Readings -> [Rules -> {"breach", "fine", "absent"}]]
  /\ clock = 0
  /\ running = {}
  /\ raised = {}
  /\ calm = TRUE

MonitorNext ==
  /\ UNCHANGED value
  /\ \/ ~calm'
     \/ calm /\ calm' /\ (Observe \/ Pass)

MonitorSpec == MonitorInit /\ [][MonitorNext]_<<value, clock, running, raised, calm>>
=============================================================================
