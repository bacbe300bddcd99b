-------------------------- MODULE AlertRuleEngine --------------------------
(***************************************************************************)
(* Alert rules over the telemetry of one device: AlertRuleEngineService.   *)
(* evaluateTelemetry, started for every snapshot and never awaited, so     *)
(* that evaluations overlap; the operators who change alerts under it; and *)
(* maintenance mode.                                                       *)
(*                                                                         *)
(* Every await is a step.  An alert is the pair of the evaluation that     *)
(* created it and its rule; a breach row is named after its creator too.   *)
(***************************************************************************)
EXTENDS Integers, FiniteSets

CONSTANTS
  Evals,        \* evaluations, one per telemetry snapshot
  Rules,        \* the alert rules that apply to the device
  Duration,     \* how long each rule must be breached, in clock units
  MaxTime,      \* bound on the clock
  MaxFailures   \* bound on database errors

ASSUME EngineAssumption ==
  /\ Rules # {}
  /\ Duration \in [Rules -> Nat \ {0}]
  /\ MaxTime \in Nat /\ MaxFailures \in Nat

Time   == 0..MaxTime
Alerts == Evals \X Rules
Row    == [rule : Rules, id : Evals, first : Time]

\* OPEN is used like NEW; CLOSED, EXPIRED and SUPPRESSED like RESOLVED.
\* None: no such alert (yet, or any more).
Statuses       == {"None", "NEW", "ACKNOWLEDGED", "RESOLVED", "SNOOZED", "SUPPRESS"}
ActiveStatuses == {"NEW", "ACKNOWLEDGED"}

VARIABLES
  \* PostgreSQL
  maintenance,  \* device.status = MAINTENANCE
  enabled,      \* the enabled rules
  breaches,     \* rows of alert_breach_states
  status,       \* of every alert
  \* the evaluations: their snapshot, and what they hold across their awaits
  sample,       \* per rule: the value breaches it, does not, or is absent
  pc,           \* new, rules, next, create, update, dedupe, alert, resolve,
                \* commit, done
  suppress,     \* isUnderMaintenance
  at,           \* now
  todo,         \* rules not yet looked at
  rule,         \* the rule of the current iteration
  row,          \* existingBreach; in the transaction, the deleted rows
  found,        \* the active alert the transaction will resolve
  \* the environment
  clock, failures,
  \* history
  before,       \* of each evaluation: those that had ended when it began
  aborted,      \* evaluations ended by an exception
  reopened      \* alerts an operator made active again

database == <<maintenance, enabled, breaches, status>>
cursor   == <<sample, suppress, at, todo>>
held     == <<rule, row, found>>
world    == <<clock, failures>>
history  == <<before, aborted, reopened>>
vars == <<database, cursor, pc, held, world, history>>

Active(r) == {a \in Alerts : a[2] = r /\ status[a] \in ActiveStatuses}
RowsOf(r) == {b \in breaches : b.rule = r}

\* The transaction of another evaluation has deleted the row of r, and not
\* committed: writers of that row, and inserts with its key, wait.
Locked(r) == \E e \in Evals : pc[e] = "commit" /\ rule[e] = r /\ row[e] # {}

GoTo(e, step) == pc' = [pc EXCEPT ![e] = step]

\* The next iteration, or the end of the loop.
Resume(left) == IF left = {} THEN "done" ELSE "next"
Continue(e) == GoTo(e, Resume(todo[e]))

\* An exception: the catch around the loop ends the evaluation.
Throw(e) == GoTo(e, "done") /\ aborted' = aborted \cup {e}

(***************************************************************************)
(* The steps of evaluateTelemetry.                                         *)
(***************************************************************************)
ReadDevice(e) ==
  /\ pc[e] = "new"
  /\ suppress' = [suppress EXCEPT ![e] = maintenance]
  /\ before' = [before EXCEPT ![e] = {f \in Evals : pc[f] = "done"}]
  /\ GoTo(e, "rules")
  /\ UNCHANGED <<database, sample, at, todo, held, world, aborted, reopened>>

\* The enabled rules; a rule whose metric the snapshot lacks is skipped.
ReadRules(e) ==
  LET applicable == {r \in enabled : sample[e][r] # "absent"} IN
  /\ pc[e] = "rules"
  /\ at' = [at EXCEPT ![e] = clock]
  /\ todo' = [todo EXCEPT ![e] = applicable]
  /\ GoTo(e, IF applicable = {} THEN "done" ELSE "next")
  /\ UNCHANGED <<database, sample, suppress, held, world, history>>

\* One iteration up to the read of the breach row.  findMany has no order.
ReadBreach(e, r) ==
  /\ pc[e] = "next"
  /\ r \in todo[e]
  /\ rule' = [rule EXCEPT ![e] = r]
  /\ todo' = [todo EXCEPT ![e] = @ \ {r}]
  /\ row' = [row EXCEPT ![e] = RowsOf(r)]
  /\ GoTo(e, IF sample[e][r] = "breach"
             THEN IF RowsOf(r) = {} THEN "create" ELSE "update"
             ELSE IF RowsOf(r) = {} THEN Resume(todo[e] \ {r}) ELSE "resolve")
  /\ UNCHANGED <<database, sample, suppress, at, found, world, history>>

KeyTaken(r) == RowsOf(r) # {}

\* The first breach.  (deviceId, ruleId) is unique: a second insert throws.
CreateBreach(e) ==
  LET r == rule[e] IN
  /\ pc[e] = "create"
  /\ ~Locked(r)
  /\ IF KeyTaken(r)
     THEN Throw(e) /\ UNCHANGED breaches
     ELSE /\ breaches' = breaches \cup {[rule |-> r, id |-> e, first |-> at[e]]}
          /\ Continue(e)
          /\ UNCHANGED aborted
  /\ UNCHANGED <<maintenance, enabled, status, cursor, held, world, before, reopened>>

LongEnoughAtOnce(e) == TRUE      \* mutant: the duration is not waited for
LongEnough(e) == \A b \in row[e] : at[e] - b.first >= Duration[b.rule]

RowGone(e) == ~(row[e] \subseteq breaches)

\* A continued breach updates the row that was read, by its id.
UpdateBreach(e) ==
  /\ pc[e] = "update"
  /\ ~Locked(rule[e])
  /\ IF RowGone(e)
     THEN Throw(e)
     ELSE /\ IF LongEnough(e) THEN GoTo(e, "dedupe") ELSE Continue(e)
          /\ UNCHANGED aborted
  /\ UNCHANGED <<database, cursor, held, world, before, reopened>>

AlreadyAlertedNever(e) == FALSE  \* mutant: no deduplication
AlreadyAlerted(e) == Active(rule[e]) # {}

FindAlert(e) ==
  /\ pc[e] = "dedupe"
  /\ IF AlreadyAlerted(e) THEN Continue(e) ELSE GoTo(e, "alert")
  /\ UNCHANGED <<database, cursor, held, world, history>>

\* createAlert; the audit entry swallows its own errors.
CreateAlert(e) ==
  /\ pc[e] = "alert"
  /\ status' = [status EXCEPT ![<<e, rule[e]>>] =
                  IF suppress[e] THEN "SUPPRESS" ELSE "NEW"]
  /\ Continue(e)
  /\ UNCHANGED <<maintenance, enabled, breaches, cursor, held, world, history>>

\* findFirst without an order: a set of at most one element.
AnyOf(S) == IF S = {} THEN {{}} ELSE {{a} : a \in S}

\* The transaction of a resolved breach, up to its findFirst: it has deleted
\* the row, whoever wrote it.
BeginResolve(e) ==
  /\ pc[e] = "resolve"
  /\ ~Locked(rule[e])
  /\ row' = [row EXCEPT ![e] = RowsOf(rule[e])]
  /\ \E some \in AnyOf(Active(rule[e])) : found' = [found EXCEPT ![e] = some]
  /\ GoTo(e, "commit")
  /\ UNCHANGED <<database, cursor, rule, world, history>>

ResolvesNothing(e) == status     \* mutant: the alert is not resolved
ResolvedStatus(e) == [a \in Alerts |-> IF a \in found[e] THEN "RESOLVED" ELSE status[a]]

\* Its commit.  The update throws if the alert was deleted: all is rolled back.
CommitResolve(e) ==
  /\ pc[e] = "commit"
  /\ IF \E a \in found[e] : status[a] = "None"
     THEN Throw(e) /\ UNCHANGED <<breaches, status>>
     ELSE /\ breaches' = breaches \ row[e]
          /\ status' = ResolvedStatus(e)
          /\ Continue(e)
          /\ UNCHANGED aborted
  /\ UNCHANGED <<maintenance, enabled, cursor, held, world, before, reopened>>

\* Any database call may fail; an open transaction is rolled back.
DatabaseFails(e) ==
  /\ pc[e] \notin {"new", "done"}
  /\ failures < MaxFailures
  /\ failures' = failures + 1
  /\ Throw(e)
  /\ UNCHANGED <<database, cursor, held, clock, before, reopened>>

(***************************************************************************)
(* Operators, administrators and time.                                     *)
(***************************************************************************)

\* updateAlertStatus, snoozeAlert and the bulk operations: to any status,
\* whatever the alert's present one.
SetStatus(a, new) ==
  /\ status[a] \notin {"None", new}
  /\ status' = [status EXCEPT ![a] = new]
  /\ reopened' = IF new \in ActiveStatuses /\ status[a] \notin ActiveStatuses
                 THEN reopened \cup {a} ELSE reopened
  /\ UNCHANGED <<maintenance, enabled, breaches, cursor, pc, held, world, before, aborted>>

DeleteAlert(a) ==
  /\ status[a] # "None"
  /\ status' = [status EXCEPT ![a] = "None"]
  /\ UNCHANGED <<maintenance, enabled, breaches, cursor, pc, held, world, history>>

SetMaintenance ==
  /\ maintenance' = ~maintenance
  /\ UNCHANGED <<enabled, breaches, status, cursor, pc, held, world, history>>

ToggleRule(r) ==
  /\ enabled' = IF r \in enabled THEN enabled \ {r} ELSE enabled \cup {r}
  /\ UNCHANGED <<maintenance, breaches, status, cursor, pc, held, world, history>>

Tick ==
  /\ clock < MaxTime
  /\ clock' = clock + 1
  /\ UNCHANGED <<database, cursor, pc, held, failures, history>>

-----------------------------------------------------------------------------
Init ==
  /\ maintenance = FALSE
  /\ enabled = Rules
  /\ breaches = {}
  /\ status = [a \in Alerts |-> "None"]
  /\ sample \in [Evals -> [Rules -> {"breach", "fine", "absent"}]]
  /\ pc = [e \in Evals |-> "new"]
  /\ suppress = [e \in Evals |-> FALSE]
  /\ at = [e \in Evals |-> 0]
  /\ todo = [e \in Evals |-> {}]
  /\ rule = [e \in Evals |-> CHOOSE r \in Rules : TRUE]
  /\ row = [e \in Evals |-> {}]
  /\ found = [e \in Evals |-> {}]
  /\ clock = 0
  /\ failures = 0
  /\ before = [e \in Evals |-> {}]
  /\ aborted = {}
  /\ reopened = {}

Evaluate(e) ==
  \/ ReadDevice(e)
  \/ ReadRules(e)
  \/ \E r \in Rules : ReadBreach(e, r)
  \/ CreateBreach(e)
  \/ UpdateBreach(e)
  \/ FindAlert(e)
  \/ CreateAlert(e)
  \/ BeginResolve(e)
  \/ CommitResolve(e)

Operate ==
  \/ \E a \in Alerts, new \in {"ACKNOWLEDGED", "RESOLVED", "SNOOZED"} : SetStatus(a, new)
  \/ \E a \in Alerts : DeleteAlert(a)
  \/ SetMaintenance
  \/ \E r \in Rules : ToggleRule(r)

Next ==
  \/ \E e \in Evals : Evaluate(e) \/ DatabaseFails(e)
  \/ Operate
  \/ Tick

Spec == Init /\ [][Next]_vars

-----------------------------------------------------------------------------
Steps == {"new", "rules", "next", "create", "update", "dedupe", "alert", "resolve",
          "commit", "done"}

\* Types, and the unique key of the breach table.
TypeOK ==
  /\ maintenance \in BOOLEAN
  /\ enabled \subseteq Rules
  /\ breaches \subseteq Row
  /\ \A b, c \in breaches : b.rule = c.rule => b = c
  /\ status \in [Alerts -> Statuses]
  /\ sample \in [Evals -> [Rules -> {"breach", "fine", "absent"}]]
  /\ pc \in [Evals -> Steps]
  /\ suppress \in [Evals -> BOOLEAN]
  /\ at \in [Evals -> Time]
  /\ todo \in [Evals -> SUBSET Rules]
  /\ rule \in [Evals -> Rules]
  /\ row \in [Evals -> SUBSET Row]
  /\ found \in [Evals -> SUBSET Alerts]
  /\ clock \in Time
  /\ failures \in 0..MaxFailures
  /\ before \in [Evals -> SUBSET Evals]
  /\ aborted \subseteq Evals
  /\ reopened \subseteq Alerts

Overlap(e, f) == e # f /\ e \notin before[f] /\ f \notin before[e]
Serial == \A e, f \in Evals : pc[e] # "new" /\ pc[f] # "new" => ~Overlap(e, f)

\* An alert stands for a breach that lasted: another snapshot, older by at least
\* the rule's duration, breached the rule as well.
BackedByBreach ==
  \A e \in Evals, r \in Rules : status[<<e, r>>] # "None" =>
    \E f \in Evals \ {e} :
      sample[f][r] = "breach" /\ at[e] - at[f] >= Duration[r]

\* Deduplication works as long as evaluations do not overlap: two active alerts
\* of one rule were created by overlapping evaluations, or an operator has
\* reopened one.
DuplicatesOverlap ==
  \A r \in Rules : \A a, b \in Active(r) :
    a # b /\ {a, b} \cap reopened = {} => Overlap(a[1], b[1])

\* So does resolution: without overlap and reopening, an active alert has its
\* breach row, so that a good value will resolve it.
SerialAlertsResolve ==
  Serial /\ reopened = {} => \A r \in Rules : Active(r) # {} => RowsOf(r) # {}

Monitor == INSTANCE BreachMonitor WITH
  Readings <- Evals,
  value <- sample,
  running <- {[rule |-> b.rule, since |-> b.first] : b \in breaches},
  raised <- UNION {Active(r) : r \in Rules},
  calm <- Serial /\ reopened = {}

\* As long as evaluations do not overlap and operators reopen nothing, reading the
\* breach row, updating it, looking for an alert, creating one, and the transaction
\* that resolves it amount to a monitor that takes each snapshot in one step,
\* whatever fails or is changed by hand in between (evaluateTelemetry).
ImplementsMonitor == Monitor!MonitorSpec
=============================================================================
