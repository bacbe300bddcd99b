-------------------------- MODULE AlertEscalation --------------------------
(***************************************************************************)
(* The service levels of open alerts: EscalationWorker.runEscalationCycle, *)
(* which a timer starts every minute and nobody awaits, so that cycles may *)
(* overlap; and the operators who change, re-grade, assign and delete      *)
(* alerts under it.                                                        *)
(*                                                                         *)
(* One unit of age is ten minutes, and an age of four stands for forty     *)
(* minutes or more.  Of the severities, MEDIUM stands for all that are not *)
(* CRITICAL; of the states, "open" for NEW and OPEN, "closed" for all      *)
(* others.  An alert's timeline is reduced to its entries about severity.  *)
(***************************************************************************)
EXTENDS Integers, FiniteSets

CONSTANTS
  Alerts,       \* the alerts that will ever be raised
  Cycles,       \* cycles of the worker that may be under way together
  Requests,     \* operators' requests to change a severity
  RuleSeverities, \* the severities that rules give their alerts
  Users,        \* the ids in the table of users
  OperatorPool, \* "operator-pool"
  AdminPool,    \* "admin-pool"
  None,         \* no assignee
  MaxActs       \* bound on the database errors of cycles and on what operators do

\* Ids of users are generated (uuid): none of them is the name of a pool.
ASSUME EscalationAssumption ==
  /\ Alerts # {}
  /\ None \notin Users \cup {OperatorPool, AdminPool}
  /\ OperatorPool \notin Users /\ AdminPool \notin Users
  /\ MaxActs \in Nat
  /\ RuleSeverities \subseteq {"MEDIUM", "CRITICAL"}

Ages       == 0..4
Severities == {"MEDIUM", "CRITICAL"}
Assignees  == Users \cup {OperatorPool, AdminPool, None}

VARIABLES
  \* PostgreSQL
  status,       \* of every alert: "none" before it is raised, "gone" after its deletion
  severity, assignee,
  age,          \* now - firstOccurred
  told,         \* the severity the alert's timeline ends with
  gaps,         \* alerts with an entry that starts elsewhere than the one before ended
  \* the cycles of the worker
  pc,           \* idle, listed, next, audit
  todo,         \* candidates not yet looked at
  graded, held, \* the candidates' severity and assignee as listed
  elapsed,      \* their age at nowMs
  at,           \* in "audit": the alert just promoted or assigned, as a set
  \* requests to change a severity
  step,         \* new, update, audit, done
  target, grade, wanted,
  \* the environment
  acts,         \* a cycle's database errors and operators' doings so far
  \* history
  touched,      \* of each cycle: alerts changed by others since it listed them
  tangled       \* alerts with overlapping or unfinished changes of their severity

alerts   == <<status, severity, assignee, age>>
timeline == <<told, gaps>>
view     == <<graded, held, elapsed>>
cycle    == <<view, touched>>
place    == <<pc, todo, at>>
request  == <<step, target, grade, wanted>>
vars == <<alerts, timeline, cycle, place, request, acts, tangled>>

Exists(a) == status[a] \in {"open", "closed"}

\* Who is between reading a severity and recording a change of it.
CycleHolds(c, a) == a \in todo[c] \cup at[c]
RequestHolds(q, a) == step[q] \in {"update", "audit"} /\ target[q] = a
Held(a) == \/ \E c \in Cycles : CycleHolds(c, a)
           \/ \E q \in Requests : RequestHolds(q, a)

Touch(S) == touched' = [c \in Cycles |-> IF pc[c] = "idle" THEN {} ELSE touched[c] \cup S]

Act == acts < MaxActs /\ acts' = acts + 1

\* An entry of the timeline.
Record(a, old, new) ==
  /\ told' = [told EXCEPT ![a] = new]
  /\ gaps' = IF told[a] = old THEN gaps ELSE gaps \cup {a}

(***************************************************************************)
(* The cycle.                                                              *)
(***************************************************************************)

CandidateAnyState(a) ==          \* mutant: no condition on the state
  Exists(a) /\ age[a] >= 1 /\ severity[a] # "CRITICAL"
Candidate(a) == status[a] = "open" /\ age[a] >= 1 /\ severity[a] # "CRITICAL"

\* The timer fires: findEscalationCandidates.
Begin(c) ==
  LET L == {a \in Alerts : Candidate(a)} IN
  /\ pc[c] = "idle"
  /\ pc' = [pc EXCEPT ![c] = "listed"]
  /\ todo' = [todo EXCEPT ![c] = L]
  /\ graded' = [graded EXCEPT ![c] = [a \in Alerts |-> IF a \in L THEN severity[a] ELSE "MEDIUM"]]
  /\ held' = [held EXCEPT ![c] = [a \in Alerts |-> IF a \in L THEN assignee[a] ELSE None]]
  /\ tangled' = tangled \cup {a \in L : Held(a)}
  /\ UNCHANGED <<alerts, timeline, elapsed, at, touched, request, acts>>

\* The answer arrives and nowMs is read.
TakeNow(c) ==
  /\ pc[c] = "listed"
  /\ pc' = [pc EXCEPT ![c] = "next"]
  /\ elapsed' = [elapsed EXCEPT ![c] = [a \in Alerts |-> IF a \in todo[c] THEN age[a] ELSE 0]]
  /\ UNCHANGED <<alerts, timeline, graded, held, touched, todo, at, request, acts, tangled>>

OverdueLate(c, a) ==             \* mutant: > 40 for >= 40, in whole units
  elapsed[c][a] > 4 /\ graded[c][a] # "CRITICAL"
OverdueUnassigned(c, a) ==       \* mutant: an alert in somebody's hands is not promoted
  elapsed[c][a] >= 4 /\ held[c][a] = None
Overdue(c, a) == elapsed[c][a] >= 4 /\ graded[c][a] # "CRITICAL"

SeniorDue(c, a) == elapsed[c][a] \in 2..3 /\ held[c][a] # AdminPool
OperatorDue(c, a) == elapsed[c][a] = 1 /\ held[c][a] = None
PoolDue(c, a) == SeniorDue(c, a) \/ OperatorDue(c, a)

\* The cycle is over, at its end or in the catch around the loop.
Finish(c) ==
  /\ pc' = [pc EXCEPT ![c] = "idle"]
  /\ todo' = [todo EXCEPT ![c] = {}]
  /\ at' = [at EXCEPT ![c] = {}]
  /\ graded' = [graded EXCEPT ![c] = [a \in Alerts |-> "MEDIUM"]]
  /\ held' = [held EXCEPT ![c] = [a \in Alerts |-> None]]
  /\ elapsed' = [elapsed EXCEPT ![c] = [a \in Alerts |-> 0]]
  /\ touched' = [touched EXCEPT ![c] = {}]

\* The update has been answered: its entry in the timeline is next.
Updated(c, a) ==
  /\ pc' = [pc EXCEPT ![c] = "audit"]
  /\ todo' = [todo EXCEPT ![c] = @ \ {a}]
  /\ at' = [at EXCEPT ![c] = {a}]
  /\ UNCHANGED cycle

\* Forty minutes: an update by id, whatever became of the alert.  It throws if
\* the alert was deleted.
Promote(c, a) ==
  /\ pc[c] = "next" /\ a \in todo[c]
  /\ Overdue(c, a)
  /\ IF Exists(a)
     THEN severity' = [severity EXCEPT ![a] = "CRITICAL"] /\ Updated(c, a)
     ELSE Finish(c) /\ UNCHANGED severity
  /\ UNCHANGED <<status, assignee, age, timeline, request, acts, tangled>>

\* assignedUserId references the table of users.
Assignable(u) == u \in Users

\* Ten and twenty minutes: the alert is given to a pool.
AssignPool(c, a, pool) ==
  /\ pc[c] = "next" /\ a \in todo[c]
  /\ IF Exists(a) /\ Assignable(pool)
     THEN assignee' = [assignee EXCEPT ![a] = pool] /\ Updated(c, a)
     ELSE Finish(c) /\ UNCHANGED assignee
  /\ UNCHANGED <<status, severity, age, timeline, request, acts, tangled>>

AssignSenior(c, a) == SeniorDue(c, a) /\ AssignPool(c, a, AdminPool)
AssignOperator(c, a) == OperatorDue(c, a) /\ AssignPool(c, a, OperatorPool)

\* None of the three: the next alert.
Pass(c, a) ==
  /\ pc[c] = "next" /\ a \in todo[c]
  /\ ~Overdue(c, a) /\ ~PoolDue(c, a)
  /\ todo' = [todo EXCEPT ![c] = @ \ {a}]
  /\ UNCHANGED <<alerts, timeline, cycle, pc, at, request, acts, tangled>>

\* recordAction.  It throws if the alert was deleted; the entry of an assignment
\* has no severities.
RecordAction(c, a) ==
  /\ pc[c] = "audit" /\ a \in at[c]
  /\ IF Exists(a)
     THEN /\ pc' = [pc EXCEPT ![c] = "next"]
          /\ at' = [at EXCEPT ![c] = {}]
          /\ IF Overdue(c, a) THEN Record(a, graded[c][a], "CRITICAL") ELSE UNCHANGED timeline
          /\ UNCHANGED <<todo, cycle>>
     ELSE Finish(c) /\ UNCHANGED timeline
  /\ UNCHANGED <<alerts, request, acts, tangled>>

End(c) ==
  /\ pc[c] = "next" /\ todo[c] = {}
  /\ Finish(c)
  /\ UNCHANGED <<alerts, timeline, request, acts, tangled>>

\* Any statement of a cycle may fail.
CycleFails(c) ==
  /\ pc[c] \in {"listed", "audit"} \/ todo[c] # {}
  /\ Act
  /\ tangled' = tangled \cup at[c]
  /\ Finish(c)
  /\ UNCHANGED <<alerts, timeline, request>>

(***************************************************************************)
(* Operators, the rule engine and time.                                    *)
(***************************************************************************)

\* escalateAlert: the alert is read,
ReadAlert(q, a, s) ==
  /\ step[q] = "new"
  /\ Exists(a)
  /\ Act
  /\ step' = [step EXCEPT ![q] = "update"]
  /\ target' = [target EXCEPT ![q] = a]
  /\ grade' = [grade EXCEPT ![q] = severity[a]]
  /\ wanted' = [wanted EXCEPT ![q] = s]
  /\ tangled' = IF Held(a) THEN tangled \cup {a} ELSE tangled
  /\ UNCHANGED <<alerts, timeline, cycle, place>>

\* its severity is written, up or down, unless the row is gone,
ChangeSeverity(q) ==
  LET a == target[q] IN
  /\ step[q] = "update"
  /\ step' = [step EXCEPT ![q] = IF Exists(a) THEN "audit" ELSE "done"]
  /\ severity' = IF Exists(a) THEN [severity EXCEPT ![a] = wanted[q]] ELSE severity
  /\ Touch({a})
  /\ UNCHANGED <<status, assignee, age, timeline, view, place, target, grade, wanted, acts, tangled>>

OldValueNow(q) == severity[target[q]]   \* mutant: the old value is read after the update
OldValue(q) == grade[q]

\* and the change is recorded.
RecordChange(q) ==
  /\ step[q] = "audit"
  /\ step' = [step EXCEPT ![q] = "done"]
  /\ IF Exists(target[q])
     THEN Record(target[q], OldValue(q), wanted[q]) ELSE UNCHANGED timeline
  /\ UNCHANGED <<alerts, cycle, place, target, grade, wanted, acts, tangled>>

\* Either statement may fail, and the answer to a change may be lost.
RequestFails(q) ==
  /\ step[q] \in {"update", "audit"}
  /\ step' = [step EXCEPT ![q] = "done"]
  /\ tangled' = tangled \cup {a \in {target[q]} : step[q] = "audit"}
  /\ UNCHANGED <<alerts, timeline, cycle, place, target, grade, wanted, acts>>

\* createAlert; under maintenance the alert is born suppressed.
Raise(a, s, new) ==
  /\ status[a] = "none"
  /\ status' = [status EXCEPT ![a] = new]
  /\ severity' = [severity EXCEPT ![a] = s]
  /\ told' = [told EXCEPT ![a] = s]
  /\ UNCHANGED <<assignee, age, gaps, cycle, place, request, acts, tangled>>

\* updateAlertStatus, snoozeAlert, bulkUpdateStatus and the rule engine's
\* resolution: to any state, whatever the present one.
SetStatus(S, new) ==
  /\ Act
  /\ S # {}
  /\ \A a \in S : Exists(a) /\ status[a] # new
  /\ status' = [a \in Alerts |-> IF a \in S THEN new ELSE status[a]]
  /\ Touch(S)
  /\ UNCHANGED <<severity, assignee, age, timeline, view, place, request, tangled>>

\* assignAlert.  An id that is no user's is refused by the database.
AssignAlert(a, u) ==
  /\ Act
  /\ Exists(a)
  /\ Assignable(u)
  /\ assignee[a] # u
  /\ assignee' = [assignee EXCEPT ![a] = u]
  /\ UNCHANGED <<status, severity, age, timeline, cycle, place, request, tangled>>

\* The bulk operation DELETE, and the deletion of the alert's device.
Delete(a) ==
  /\ Act
  /\ Exists(a)
  /\ status' = [status EXCEPT ![a] = "gone"]
  /\ UNCHANGED <<severity, assignee, age, timeline, cycle, place, request, tangled>>

Older(a) == IF Exists(a) /\ age[a] < 4 THEN age[a] + 1 ELSE age[a]

Tick ==
  /\ \E a \in Alerts : Older(a) # age[a]
  /\ age' = [a \in Alerts |-> Older(a)]
  /\ UNCHANGED <<status, severity, assignee, timeline, cycle, place, request, acts, tangled>>

-----------------------------------------------------------------------------
Init ==
  /\ status = [a \in Alerts |-> "none"]
  /\ severity = [a \in Alerts |-> "MEDIUM"]
  /\ assignee = [a \in Alerts |-> None]
  /\ age = [a \in Alerts |-> 0]
  /\ told = [a \in Alerts |-> "MEDIUM"]
  /\ gaps = {}
  /\ pc = [c \in Cycles |-> "idle"]
  /\ graded = [c \in Cycles |-> [a \in Alerts |-> "MEDIUM"]]
  /\ held = [c \in Cycles |-> [a \in Alerts |-> None]]
  /\ elapsed = [c \in Cycles |-> [a \in Alerts |-> 0]]
  /\ todo = [c \in Cycles |-> {}]
  /\ at = [c \in Cycles |-> {}]
  /\ step = [q \in Requests |-> "new"]
  /\ target = [q \in Requests |-> CHOOSE a \in Alerts : TRUE]
  /\ grade = [q \in Requests |-> "MEDIUM"]
  /\ wanted = [q \in Requests |-> "MEDIUM"]
  /\ acts = 0
  /\ touched = [c \in Cycles |-> {}]
  /\ tangled = {}

Judge(c) == \E a \in Alerts :
  Promote(c, a) \/ AssignSenior(c, a) \/ AssignOperator(c, a) \/ Pass(c, a) \/ RecordAction(c, a)

Cycle(c) == Begin(c) \/ TakeNow(c) \/ Judge(c) \/ End(c)

Regrade(q) ==
  \/ \E a \in Alerts, s \in Severities : ReadAlert(q, a, s)
  \/ ChangeSeverity(q)
  \/ RecordChange(q)
  \/ RequestFails(q)

Operate ==
  \/ \E a \in Alerts, s \in RuleSeverities, new \in {"open", "closed"} : Raise(a, s, new)
  \/ \E S \in SUBSET Alerts, new \in {"open", "closed"} : SetStatus(S, new)
  \/ \E a \in Alerts, u \in Assignees : AssignAlert(a, u)
  \/ \E a \in Alerts : Delete(a)

Next ==
  \/ \E c \in Cycles : Cycle(c) \/ CycleFails(c)
  \/ \E q \in Requests : Regrade(q)
  \/ Operate
  \/ Tick

Spec == Init /\ [][Next]_vars

\* The timer fires, queries are answered and time passes.
FairSpec == Spec /\ WF_vars(Tick) /\ \A c \in Cycles : WF_vars(Cycle(c))

-----------------------------------------------------------------------------
\* Every variable has its type, and no alert is ever in the hands of a pool.
TypeOK ==
  /\ status \in [Alerts -> {"none", "open", "closed", "gone"}]
  /\ severity \in [Alerts -> Severities]
  /\ assignee \in [Alerts -> Users \cup {None}]
  /\ age \in [Alerts -> Ages]
  /\ told \in [Alerts -> Severities]
  /\ gaps \subseteq Alerts
  /\ pc \in [Cycles -> {"idle", "listed", "next", "audit"}]
  /\ graded \in [Cycles -> [Alerts -> Severities]]
  /\ held \in [Cycles -> [Alerts -> Users \cup {None}]]
  /\ elapsed \in [Cycles -> [Alerts -> Ages]]
  /\ todo \in [Cycles -> SUBSET Alerts]
  /\ at \in [Cycles -> SUBSET Alerts]
  /\ step \in [Requests -> {"new", "update", "audit", "done"}]
  /\ target \in [Requests -> Alerts]
  /\ grade \in [Requests -> Severities]
  /\ wanted \in [Requests -> Severities]
  /\ acts \in 0..MaxActs
  /\ touched \in [Cycles -> SUBSET Alerts]
  /\ tangled \subseteq Alerts

Ends(c) == pc[c] = "next" /\ todo[c] = {} /\ pc'[c] = "idle"

\* A cycle that comes to its end has left no overdue alert of its list below
\* CRITICAL, except one that somebody else changed or deleted meanwhile.
CycleIsThorough ==
  [][\A c \in Cycles, a \in Alerts : Ends(c) /\ elapsed[c][a] >= 4 =>
       severity[a] = "CRITICAL" \/ a \in touched[c] \/ ~Exists(a)]_vars

\* The timeline of an alert tells the story of its severity: every entry begins
\* where the one before ended, and the last one ends with the severity the alert
\* has.  Changes that overlap, or were not finished, are excepted.
TimelineIsAStory ==
  \A a \in Alerts \ tangled : Exists(a) /\ ~Held(a) => a \notin gaps /\ told[a] = severity[a]

Promotes(c, a) == pc[c] = "next" /\ pc'[c] = "audit" /\ a \in at'[c] /\ Overdue(c, a)

\* The worker promotes no alert that is younger than forty minutes, and none
\* that was out of the open states before the cycle read its list.
PromotesOnlyOverdue ==
  [][\A c \in Cycles, a \in Alerts : Promotes(c, a) =>
       age[a] = 4 /\ (status[a] = "open" \/ a \in touched[c])]_vars

\* "Promote severity to CRITICAL" (escalation.worker.ts:45): an alert does not
\* stay open, below CRITICAL, for ever.
OverdueGetsCritical ==
  \A a \in Alerts : []<>~(status[a] = "open" /\ severity[a] = "MEDIUM")
=============================================================================
