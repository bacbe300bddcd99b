----------------------- MODULE AlertEscalationProofs -----------------------
(***************************************************************************)
(* What overlapping and failing cycles, and operators under them, cannot   *)
(* break, for any number of alerts, cycles and requests: whom the worker   *)
(* promotes, what a cycle leaves behind, and the timeline.                 *)
(***************************************************************************)
EXTENDS AlertEscalation, TLAPS

\* Where a cycle keeps its list.
Placed(c) ==
  /\ pc[c] = "idle" => todo[c] = {}
  /\ pc[c] # "audit" => at[c] = {}
  /\ at[c] \cap todo[c] = {}
  /\ \A a, b \in at[c] : a = b
PlaceInv == \A c \in Cycles : Placed(c)

\* What a cycle knows of an alert, against the alert.
Listed(c, a) ==
  /\ graded[c][a] = "MEDIUM"
  /\ elapsed[c][a] <= age[a]
  /\ CycleHolds(c, a) => status[a] # "none"
  /\ a \in todo[c] => status[a] = "open" \/ a \in touched[c] \/ status[a] = "gone"
ListInv == \A c \in Cycles, a \in Alerts : Listed(c, a)

\* No alert has an age or a timeline before it is raised, and nobody asks about it.
UnraisedInv ==
  /\ \A a \in Alerts : status[a] = "none" => age[a] = 0 /\ a \notin gaps
  /\ \A q \in Requests : step[q] \in {"update", "audit"} => status[target[q]] # "none"

\* What a cycle has left behind.
ThoroughInv == \A c \in Cycles, a \in Alerts :
  pc[c] \in {"next", "audit"} /\ elapsed[c][a] >= 4 /\ a \notin todo[c] =>
    severity[a] = "CRITICAL" \/ a \in touched[c] \/ ~Exists(a)

\* At most one cycle or request is between reading an untangled alert and
\* recording what it did,
Alone(a) ==
  /\ \A c, d \in Cycles : CycleHolds(c, a) /\ CycleHolds(d, a) => c = d
  /\ \A q, r \in Requests : RequestHolds(q, a) /\ RequestHolds(r, a) => q = r
  /\ \A c \in Cycles, q \in Requests : ~(CycleHolds(c, a) /\ RequestHolds(q, a))
AloneInv == \A a \in Alerts \ tangled : Alone(a)

\* the timeline has caught up with it, or is one entry behind that will follow.
Pending(a) == \/ \E c \in Cycles : a \in at[c] /\ Overdue(c, a)
              \/ \E q \in Requests : step[q] = "audit" /\ target[q] = a

Story(a) ==
  /\ a \notin gaps
  /\ Pending(a) \/ told[a] = severity[a]
  /\ \A c \in Cycles : a \in todo[c] => severity[a] = "MEDIUM"
  /\ \A c \in Cycles : a \in at[c] /\ Overdue(c, a) => severity[a] = "CRITICAL" /\ told[a] = "MEDIUM"
  /\ \A q \in Requests : step[q] = "update" /\ target[q] = a => grade[q] = severity[a]
  /\ \A q \in Requests : step[q] = "audit" /\ target[q] = a =>
       severity[a] = wanted[q] /\ told[a] = grade[q]
StoryInv == \A a \in Alerts \ tangled : Exists(a) => Story(a)

Inv == TypeOK /\ PlaceInv /\ ListInv /\ UnraisedInv /\ ThoroughInv /\ AloneInv /\ StoryInv

USE EscalationAssumption DEF EscalationAssumption

-----------------------------------------------------------------------------
(* Types *)

\* The end of a cycle preserves the types of what it resets.
LEMMA FinishTypes ==
  ASSUME TypeOK, NEW c \in Cycles, Finish(c)
  PROVE  /\ pc' \in [Cycles -> {"idle", "listed", "next", "audit"}]
         /\ graded' \in [Cycles -> [Alerts -> Severities]]
         /\ held' \in [Cycles -> [Alerts -> Users \cup {None}]]
         /\ elapsed' \in [Cycles -> [Alerts -> Ages]]
         /\ todo' \in [Cycles -> SUBSET Alerts]
         /\ at' \in [Cycles -> SUBSET Alerts]
         /\ touched' \in [Cycles -> SUBSET Alerts]
BY DEF TypeOK, Finish, Severities, Ages

\* So does the step from an update to its entry.
LEMMA UpdatedTypes ==
  ASSUME TypeOK, NEW c \in Cycles, NEW a \in Alerts, Updated(c, a)
  PROVE  /\ pc' \in [Cycles -> {"idle", "listed", "next", "audit"}]
         /\ todo' \in [Cycles -> SUBSET Alerts]
         /\ at' \in [Cycles -> SUBSET Alerts]
         /\ UNCHANGED <<graded, held, elapsed, touched>>
BY DEF TypeOK, Updated, cycle, view

\* An entry of the timeline is about an alert.
LEMMA RecordTypes ==
  ASSUME TypeOK, NEW a \in Alerts, NEW old \in Severities, NEW new \in Severities, Record(a, old, new)
  PROVE  told' \in [Alerts -> Severities] /\ gaps' \subseteq Alerts
BY DEF TypeOK, Record

\* Steps of the worker.
LEMMA CycleTypes ==
  ASSUME TypeOK, NEW c \in Cycles, Cycle(c) \/ CycleFails(c)
  PROVE  TypeOK'
<1> USE DEF alerts, timeline, view, cycle, place, request
<1>1. CASE Begin(c)
  <2>1. graded' \in [Cycles -> [Alerts -> Severities]]
    BY <1>1 DEF TypeOK, Begin, Severities
  <2>2. held' \in [Cycles -> [Alerts -> Users \cup {None}]]
    BY <1>1 DEF TypeOK, Begin
  <2>3. pc' \in [Cycles -> {"idle", "listed", "next", "audit"}] /\ todo' \in [Cycles -> SUBSET Alerts]
    BY <1>1 DEF TypeOK, Begin
  <2>4. tangled' \subseteq Alerts
    BY <1>1 DEF TypeOK, Begin
  <2> QED
    BY <1>1, <2>1, <2>2, <2>3, <2>4 DEF TypeOK, Begin
<1>2. CASE TakeNow(c)
  <2>1. elapsed' \in [Cycles -> [Alerts -> Ages]]
    BY <1>2 DEF TypeOK, TakeNow, Ages
  <2> QED
    BY <1>2, <2>1 DEF TypeOK, TakeNow
<1>3. CASE End(c)
  BY <1>3, FinishTypes DEF TypeOK, End
<1>4. CASE CycleFails(c)
  BY <1>4, FinishTypes DEF TypeOK, CycleFails, Act
<1>5. CASE Judge(c)
  <2>1. PICK a \in Alerts : \/ Promote(c, a) \/ AssignSenior(c, a) \/ AssignOperator(c, a)
                            \/ Pass(c, a) \/ RecordAction(c, a)
    BY <1>5 DEF Judge
  <2>2. CASE Promote(c, a)
    <3>1. severity' \in [Alerts -> Severities]
      BY <2>2 DEF TypeOK, Promote, Severities
    <3>2. Finish(c) \/ Updated(c, a)
      BY <2>2 DEF Promote
    <3> QED
      BY <2>2, <3>1, <3>2, FinishTypes, UpdatedTypes DEF TypeOK, Promote
  <2>3. ASSUME NEW pool, AssignPool(c, a, pool)
        PROVE  TypeOK'
    <3>1. assignee' \in [Alerts -> Users \cup {None}]
      BY <2>3 DEF TypeOK, AssignPool, Assignable
    <3>2. Finish(c) \/ Updated(c, a)
      BY <2>3 DEF AssignPool
    <3> QED
      BY <2>3, <3>1, <3>2, FinishTypes, UpdatedTypes DEF TypeOK, AssignPool
  <2>4. CASE Pass(c, a)
    BY <2>4 DEF TypeOK, Pass
  <2>5. CASE RecordAction(c, a)
    <3>1. CASE Exists(a)
      <4>1. told' \in [Alerts -> Severities] /\ gaps' \subseteq Alerts
        <5>1. graded[c][a] \in Severities /\ "CRITICAL" \in Severities
          BY DEF TypeOK, Severities
        <5>2. CASE Overdue(c, a)
          BY <2>5, <3>1, <5>1, <5>2, RecordTypes DEF RecordAction
        <5>3. CASE ~Overdue(c, a)
          BY <2>5, <3>1, <5>3 DEF TypeOK, RecordAction
        <5> QED
          BY <5>2, <5>3
      <4>2. /\ pc' \in [Cycles -> {"idle", "listed", "next", "audit"}]
            /\ at' \in [Cycles -> SUBSET Alerts]
        BY <2>5, <3>1 DEF TypeOK, RecordAction
      <4> QED
        BY <2>5, <3>1, <4>1, <4>2 DEF TypeOK, RecordAction
    <3>2. CASE ~Exists(a)
      BY <2>5, <3>2, FinishTypes DEF TypeOK, RecordAction
    <3> QED
      BY <3>1, <3>2
  <2> QED
    BY <2>1, <2>2, <2>3, <2>4, <2>5 DEF AssignSenior, AssignOperator
<1> QED
  BY <1>1, <1>2, <1>3, <1>4, <1>5 DEF Cycle

\* Steps of a request.
LEMMA RequestTypes ==
  ASSUME TypeOK, NEW q \in Requests, Regrade(q)
  PROVE  TypeOK'
<1> USE DEF alerts, timeline, view, cycle, place, request
<1>1. CASE \E a \in Alerts, s \in Severities : ReadAlert(q, a, s)
  <2>1. PICK a \in Alerts, s \in Severities : ReadAlert(q, a, s)
    BY <1>1
  <2>2. tangled' \subseteq Alerts
    BY <2>1 DEF TypeOK, ReadAlert
  <2> QED
    BY <2>1, <2>2 DEF TypeOK, ReadAlert, Act
<1>2. CASE ChangeSeverity(q)
  <2>1. touched' \in [Cycles -> SUBSET Alerts]
    BY <1>2 DEF TypeOK, ChangeSeverity, Touch
  <2> QED
    BY <1>2, <2>1 DEF TypeOK, ChangeSeverity
<1>3. CASE RecordChange(q)
  <2>1. told' \in [Alerts -> Severities] /\ gaps' \subseteq Alerts
    BY <1>3, RecordTypes DEF TypeOK, RecordChange, OldValue
  <2> QED
    BY <1>3, <2>1 DEF TypeOK, RecordChange
<1>4. CASE RequestFails(q)
  BY <1>4 DEF TypeOK, RequestFails, Act
<1> QED
  BY <1>1, <1>2, <1>3, <1>4 DEF Regrade

\* Steps of operators, the rule engine and time.
LEMMA WorldTypes ==
  ASSUME TypeOK, Operate \/ Tick, RuleSeverities \subseteq Severities
  PROVE  TypeOK'
<1> USE DEF alerts, timeline, view, cycle, place, request
<1>1. CASE \E a \in Alerts, s \in RuleSeverities, new \in {"open", "closed"} : Raise(a, s, new)
  BY <1>1 DEF TypeOK, Raise
<1>2. CASE \E S \in SUBSET Alerts, new \in {"open", "closed"} : SetStatus(S, new)
  <2>1. PICK S \in SUBSET Alerts, new \in {"open", "closed"} : SetStatus(S, new)
    BY <1>2
  <2>2. touched' \in [Cycles -> SUBSET Alerts] /\ status' \in [Alerts -> {"none", "open", "closed", "gone"}]
    BY <2>1 DEF TypeOK, SetStatus, Touch
  <2> QED
    BY <2>1, <2>2 DEF TypeOK, SetStatus, Act
<1>3. CASE \E a \in Alerts, u \in Assignees : AssignAlert(a, u)
  BY <1>3 DEF TypeOK, AssignAlert, Act, Assignable
<1>4. CASE \E a \in Alerts : Delete(a)
  BY <1>4 DEF TypeOK, Delete, Act
<1>5. CASE Tick
  <2>1. age' \in [Alerts -> Ages]
    BY <1>5 DEF TypeOK, Tick, Older, Ages
  <2> QED
    BY <1>5, <2>1 DEF TypeOK, Tick
<1> QED
  BY <1>1, <1>2, <1>3, <1>4, <1>5 DEF Operate

\* Every value keeps its type, and no alert is ever in the hands of a pool.
\* (The columns of alerts, and the foreign key of assignedUserId.)
THEOREM TypeCorrect == Spec => []TypeOK
<1>1. Init => TypeOK
  BY DEF Init, TypeOK, Severities, Ages
<1>2. TypeOK /\ [Next]_vars => TypeOK'
  <2>1. RuleSeverities \subseteq Severities
    BY DEF Severities
  <2>2. ASSUME TypeOK, UNCHANGED vars PROVE TypeOK'
    BY <2>2 DEF TypeOK, vars, alerts, timeline, view, cycle, place, request
  <2> QED
    BY <2>1, <2>2, CycleTypes, RequestTypes, WorldTypes DEF Next
<1> QED
  BY <1>1, <1>2, PTL DEF Spec

-----------------------------------------------------------------------------
(* Lists *)

Lists == PlaceInv /\ ListInv /\ UnraisedInv /\ ThoroughInv

\* Ages are numbers.
LEMMA AgesAreAges ==
  ASSUME TypeOK, NEW c \in Cycles, NEW a \in Alerts
  PROVE  elapsed[c][a] \in 0..4 /\ age[a] \in 0..4
<1>1. elapsed[c] \in [Alerts -> Ages]
  BY DEF TypeOK
<1> QED
  BY <1>1 DEF TypeOK, Ages

\* The end of a cycle, on which the alerts are as they were.
LEMMA FinishLists ==
  ASSUME TypeOK, TypeOK', Lists, NEW c \in Cycles, Finish(c), UNCHANGED <<alerts, gaps, step, target>>
  PROVE  Lists'
<1> USE DEF alerts, TypeOK, Finish, Exists, CycleHolds, Ages
<1>1. PlaceInv'
  BY DEF Lists, PlaceInv, Placed
<1>2. ListInv'
  <2> SUFFICES ASSUME NEW d \in Cycles, NEW b \in Alerts PROVE Listed(d, b)'
    BY DEF ListInv, Listed
  <2>0. Listed(d, b) /\ Placed(d)
    BY DEF Lists, ListInv, Listed, PlaceInv, Placed
  <2>1. CASE d = c
    <3>1. graded'[c][b] = "MEDIUM" /\ elapsed'[c][b] = 0 /\ todo'[c] = {} /\ at'[c] = {}
      OBVIOUS
    <3>2. age'[b] \in 0..4
      OBVIOUS
    <3> QED
      BY <2>1, <3>1, <3>2 DEF Listed
  <2>2. CASE d # c
    BY <2>0, <2>2 DEF Listed, Placed
  <2> QED
    BY <2>1, <2>2
<1>3. UnraisedInv'
  BY DEF Lists, UnraisedInv
<1>4. ThoroughInv'
  BY DEF Lists, ThoroughInv
<1> QED
  BY <1>1, <1>2, <1>3, <1>4 DEF Lists

\* An update has been answered; the alert, if it was overdue, is CRITICAL now.
LEMMA UpdatedLists ==
  ASSUME TypeOK, TypeOK', Lists, NEW c \in Cycles, NEW a \in Alerts, pc[c] = "next", a \in todo[c],
         Updated(c, a), UNCHANGED <<status, age, gaps, step, target>>,
         severity' = severity \/ severity' = [severity EXCEPT ![a] = "CRITICAL"],
         elapsed[c][a] >= 4 => severity'[a] = "CRITICAL"
  PROVE  Lists'
<1> USE DEF TypeOK, Updated, Exists, CycleHolds, Ages, cycle, view
<1>1. PlaceInv'
  BY DEF Lists, PlaceInv, Placed
<1>2. ListInv'
  <2> SUFFICES ASSUME NEW d \in Cycles, NEW b \in Alerts PROVE Listed(d, b)'
    BY DEF ListInv, Listed
  <2>0. Listed(d, b) /\ Placed(d)
    BY DEF Lists, ListInv, Listed, PlaceInv, Placed
  <2>1. CASE d = c
    BY <2>0, <2>1 DEF Listed, Placed
  <2>2. CASE d # c
    BY <2>0, <2>2 DEF Listed, Placed
  <2> QED
    BY <2>1, <2>2
<1>3. UnraisedInv'
  BY DEF Lists, UnraisedInv
<1>4. ThoroughInv'
  BY DEF Lists, ThoroughInv
<1> QED
  BY <1>1, <1>2, <1>3, <1>4 DEF Lists

\* Steps of the worker.
LEMMA CycleLists ==
  ASSUME TypeOK, TypeOK', Lists, NEW c \in Cycles, Cycle(c) \/ CycleFails(c)
  PROVE  Lists'
<1> USE DEF alerts, timeline, view, cycle, place, request
<1>1. CASE Begin(c)
  <2> USE <1>1 DEF TypeOK, Begin, Exists, CycleHolds, Candidate, Ages
  <2>1. PlaceInv'
    BY DEF Lists, PlaceInv, Placed
  <2>2. ListInv'
    <3> SUFFICES ASSUME NEW d \in Cycles, NEW b \in Alerts PROVE Listed(d, b)'
      BY DEF ListInv, Listed
    <3>0. Listed(d, b) /\ Placed(d)
      BY DEF Lists, ListInv, Listed, PlaceInv, Placed
    <3>1. CASE d = c
      <4>1. graded'[c][b] = "MEDIUM"
        BY DEF Severities
      <4>2. /\ b \in todo'[c] => status[b] = "open"
            /\ at'[c] = {} /\ elapsed'[c][b] = elapsed[c][b]
        BY <3>0, <3>1 DEF Placed
      <4> QED
        BY <3>0, <3>1, <4>1, <4>2 DEF Listed
    <3>2. CASE d # c
      BY <3>0, <3>2 DEF Listed, Placed
    <3> QED
      BY <3>1, <3>2
  <2>3. UnraisedInv'
    BY DEF Lists, UnraisedInv
  <2>4. ThoroughInv'
    BY DEF Lists, ThoroughInv
  <2> QED
    BY <2>1, <2>2, <2>3, <2>4 DEF Lists
<1>2. CASE TakeNow(c)
  <2> USE <1>2 DEF TypeOK, TakeNow, Exists, CycleHolds, Ages
  <2>1. PlaceInv'
    BY DEF Lists, PlaceInv, Placed
  <2>2. ListInv'
    <3> SUFFICES ASSUME NEW d \in Cycles, NEW b \in Alerts PROVE Listed(d, b)'
      BY DEF ListInv, Listed
    <3>0. Listed(d, b) /\ Placed(d)
      BY DEF Lists, ListInv, Listed, PlaceInv, Placed
    <3>1. CASE d = c
      <4>1. elapsed'[c][b] \in {0, age[b]} /\ age[b] \in 0..4 /\ age' = age
        OBVIOUS
      <4> QED
        BY <3>0, <3>1, <4>1 DEF Listed, Placed
    <3>2. CASE d # c
      BY <3>0, <3>2 DEF Listed, Placed
    <3> QED
      BY <3>1, <3>2
  <2>3. UnraisedInv'
    BY DEF Lists, UnraisedInv
  <2>4. ThoroughInv'
    BY DEF Lists, ThoroughInv
  <2> QED
    BY <2>1, <2>2, <2>3, <2>4 DEF Lists
<1>3. CASE End(c) \/ CycleFails(c)
  BY <1>3, FinishLists DEF End, CycleFails
<1>5. CASE Judge(c)
  <2>1. PICK a \in Alerts : \/ Promote(c, a) \/ AssignSenior(c, a) \/ AssignOperator(c, a)
                            \/ Pass(c, a) \/ RecordAction(c, a)
    BY <1>5 DEF Judge
  <2>2. CASE Promote(c, a) /\ Exists(a)
    BY <2>2, UpdatedLists DEF Promote, TypeOK
  <2>3. CASE Promote(c, a) /\ ~Exists(a)
    BY <2>3, FinishLists DEF Promote
  <2>4. ASSUME NEW pool, AssignPool(c, a, pool), elapsed[c][a] \in 1..3
        PROVE  Lists'
    BY <2>4, UpdatedLists, FinishLists DEF AssignPool
  <2>5. CASE Pass(c, a)
    <3> USE <2>5 DEF TypeOK, Pass, Exists, CycleHolds, Ages
    <3>1. PlaceInv'
      BY DEF Lists, PlaceInv, Placed
    <3>2. ListInv'
      <4> SUFFICES ASSUME NEW d \in Cycles, NEW b \in Alerts PROVE Listed(d, b)'
        BY DEF ListInv, Listed
      <4>0. Listed(d, b) /\ Placed(d)
        BY DEF Lists, ListInv, Listed, PlaceInv, Placed
      <4>1. CASE d = c
        BY <4>0, <4>1 DEF Listed, Placed
      <4>2. CASE d # c
        BY <4>0, <4>2 DEF Listed, Placed
      <4> QED
        BY <4>1, <4>2
    <3>3. UnraisedInv'
      BY DEF Lists, UnraisedInv
    <3>4. ThoroughInv'
      BY DEF Lists, ThoroughInv, ListInv, Listed, Overdue
    <3> QED
      BY <3>1, <3>2, <3>3, <3>4 DEF Lists
  <2>6. CASE RecordAction(c, a) /\ Exists(a)
    <3> USE <2>6 DEF TypeOK, RecordAction, CycleHolds, Ages
    <3>1. PlaceInv'
      <4> SUFFICES ASSUME NEW d \in Cycles PROVE Placed(d)'
        BY DEF PlaceInv, Placed
      <4>0. Placed(d)
        BY DEF Lists, PlaceInv, Placed
      <4>1. CASE d = c
        BY <4>0, <4>1 DEF Listed, Placed
      <4>2. CASE d # c
        BY <4>0, <4>2 DEF Listed, Placed
      <4> QED
        BY <4>1, <4>2
    <3>2. ListInv'
      <4> SUFFICES ASSUME NEW d \in Cycles, NEW b \in Alerts PROVE Listed(d, b)'
        BY DEF ListInv, Listed
      <4>0. Listed(d, b) /\ Placed(d)
        BY DEF Lists, ListInv, Listed, PlaceInv, Placed
      <4>1. CASE d = c
        BY <4>0, <4>1 DEF Listed, Placed
      <4>2. CASE d # c
        BY <4>0, <4>2 DEF Listed, Placed
      <4> QED
        BY <4>1, <4>2
    <3>3. UnraisedInv'
      BY DEF Lists, UnraisedInv, Record, Exists
    <3>4. ThoroughInv'
      BY DEF Lists, ThoroughInv, Exists
    <3> QED
      BY <3>1, <3>2, <3>3, <3>4 DEF Lists
  <2>7. CASE RecordAction(c, a) /\ ~Exists(a)
    BY <2>7, FinishLists DEF RecordAction
  <2> QED
    BY <2>1, <2>2, <2>3, <2>4, <2>5, <2>6, <2>7 DEF AssignSenior, AssignOperator, SeniorDue, OperatorDue
<1> QED
  BY <1>1, <1>2, <1>3, <1>5 DEF Cycle

\* Steps of a request.
LEMMA RequestLists ==
  ASSUME TypeOK, TypeOK', Lists, NEW q \in Requests, Regrade(q)
  PROVE  Lists'
<1> USE DEF alerts, timeline, view, cycle, place, request
<1>1. ASSUME UNCHANGED <<alerts, cycle, place>>,
             \A b \in gaps' : b \in gaps \/ Exists(b),
             \A r \in Requests : step'[r] \in {"update", "audit"} =>
               (step[r] \in {"update", "audit"} /\ target'[r] = target[r]) \/ Exists(target'[r])
      PROVE  Lists'
  <2>1. PlaceInv' /\ ListInv' /\ ThoroughInv'
    BY <1>1 DEF Lists, PlaceInv, Placed, ListInv, Listed, ThoroughInv, Exists, CycleHolds
  <2>2. UnraisedInv'
    BY <1>1 DEF Lists, UnraisedInv, Exists, TypeOK
  <2> QED
    BY <2>1, <2>2 DEF Lists
<1>2. CASE \E a \in Alerts, s \in Severities : ReadAlert(q, a, s)
  <2>1. PICK a \in Alerts, s \in Severities : ReadAlert(q, a, s)
    BY <1>2
  <2> QED
    BY <1>1, <2>1 DEF ReadAlert, TypeOK
<1>3. CASE ChangeSeverity(q)
  <2> USE <1>3 DEF TypeOK, ChangeSeverity, Touch, Exists, CycleHolds, Ages
  <2>1. PlaceInv'
    BY DEF Lists, PlaceInv, Placed
  <2>2. ListInv'
    BY DEF Lists, ListInv, Listed, PlaceInv, Placed
  <2>3. UnraisedInv'
    BY DEF Lists, UnraisedInv
  <2>4. ThoroughInv'
    BY DEF Lists, ThoroughInv
  <2> QED
    BY <2>1, <2>2, <2>3, <2>4 DEF Lists
<1>4. CASE RecordChange(q)
  BY <1>1, <1>4 DEF RecordChange, Record, TypeOK
<1>5. CASE RequestFails(q)
  BY <1>1, <1>5 DEF RequestFails, TypeOK
<1> QED
  BY <1>2, <1>3, <1>4, <1>5 DEF Regrade

\* Steps of operators, the rule engine and time.
LEMMA WorldLists ==
  ASSUME TypeOK, TypeOK', Lists, Operate \/ Tick
  PROVE  Lists'
<1> USE DEF alerts, timeline, view, cycle, place, request, Lists
<1>1. CASE \E a \in Alerts, s \in RuleSeverities, new \in {"open", "closed"} : Raise(a, s, new)
  <2>1. PICK a \in Alerts, s \in RuleSeverities, new \in {"open", "closed"} : Raise(a, s, new)
    BY <1>1
  <2> USE <2>1 DEF TypeOK, Raise, Exists, CycleHolds, Ages
  <2>2. PlaceInv'
    BY DEF PlaceInv, Placed
  <2>3. ListInv'
    BY DEF ListInv, Listed
  <2>4. UnraisedInv'
    BY DEF UnraisedInv
  <2>5. ThoroughInv'
    <3> SUFFICES ASSUME NEW d \in Cycles, NEW b \in Alerts, elapsed[d][b] >= 4, status[b] = "none"
                 PROVE  FALSE
      BY DEF ThoroughInv
    <3>1. age[b] = 0
      BY DEF UnraisedInv
    <3>2. elapsed[d][b] <= age[b]
      BY DEF ListInv, Listed
    <3>3. elapsed[d][b] \in 0..4
      BY AgesAreAges
    <3> QED
      BY <3>1, <3>2, <3>3
  <2> QED
    BY <2>2, <2>3, <2>4, <2>5
<1>2. CASE \E S \in SUBSET Alerts, new \in {"open", "closed"} : SetStatus(S, new)
  <2>1. PICK S \in SUBSET Alerts, new \in {"open", "closed"} : SetStatus(S, new)
    BY <1>2
  <2> USE <2>1 DEF TypeOK, SetStatus, Touch, Exists, CycleHolds, Ages
  <2>2. PlaceInv'
    BY DEF PlaceInv, Placed
  <2>3. ListInv'
    BY DEF ListInv, Listed, PlaceInv, Placed
  <2>4. UnraisedInv'
    BY DEF UnraisedInv
  <2>5. ThoroughInv'
    BY DEF ThoroughInv
  <2> QED
    BY <2>2, <2>3, <2>4, <2>5
<1>3. CASE \E a \in Alerts, u \in Assignees : AssignAlert(a, u)
  BY <1>3 DEF AssignAlert, PlaceInv, Placed, ListInv, Listed, UnraisedInv, ThoroughInv, Exists, CycleHolds
<1>4. CASE \E a \in Alerts : Delete(a)
  <2>1. PICK a \in Alerts : Delete(a)
    BY <1>4
  <2> USE <2>1 DEF TypeOK, Delete, Exists, CycleHolds
  <2>2. PlaceInv'
    BY DEF PlaceInv, Placed
  <2>3. ListInv'
    BY DEF ListInv, Listed
  <2>4. UnraisedInv'
    BY DEF UnraisedInv
  <2>5. ThoroughInv'
    BY DEF ThoroughInv
  <2> QED
    BY <2>2, <2>3, <2>4, <2>5
<1>5. CASE Tick
  <2> USE <1>5 DEF TypeOK, Tick, Older, Exists, CycleHolds, Ages
  <2>2. PlaceInv'
    BY DEF PlaceInv, Placed
  <2>3. ListInv'
    <3> SUFFICES ASSUME NEW d \in Cycles, NEW b \in Alerts PROVE Listed(d, b)'
      BY DEF ListInv
    <3>2. elapsed[d][b] \in 0..4 /\ age[b] \in 0..4
      BY AgesAreAges
    <3>1. age'[b] >= age[b]
      BY <3>2
    <3> QED
      BY <3>1, <3>2 DEF ListInv, Listed
  <2>4. UnraisedInv'
    BY DEF UnraisedInv
  <2>5. ThoroughInv'
    BY DEF ThoroughInv
  <2> QED
    BY <2>2, <2>3, <2>4, <2>5
<1> QED
  BY <1>1, <1>2, <1>3, <1>4, <1>5 DEF Operate

-----------------------------------------------------------------------------
(* The timeline *)

Tales == AloneInv /\ StoryInv

\* Tales is preserved if it is for every alert that stays untangled.
LEMMA AlertByAlert ==
  ASSUME tangled \subseteq tangled',
         \A b \in Alerts \ tangled' : Alone(b) /\ (Exists(b) => Story(b)) =>
           Alone(b)' /\ (Exists(b)' => Story(b)')
  PROVE  Tales => Tales'
BY DEF Tales, AloneInv, StoryInv

\* The end of a cycle that leaves no alert whose update has no entry yet.
LEMMA FinishTales ==
  ASSUME TypeOK, Tales, NEW c \in Cycles, Finish(c), tangled \subseteq tangled',
         \A b \in at[c] \ tangled' : ~Exists(b), UNCHANGED <<alerts, timeline, request>>
  PROVE  Tales'
<1>1. ASSUME NEW b \in Alerts \ tangled', Alone(b), Exists(b) => Story(b)
      PROVE  Alone(b)' /\ (Exists(b)' => Story(b)')
  <2>1. todo'[c] = {} /\ at'[c] = {} /\ (b \in at[c] => ~Exists(b))
    BY <1>1 DEF Finish, TypeOK
  <2>2. \A d \in Cycles \ {c} : todo'[d] = todo[d] /\ at'[d] = at[d] /\ (Overdue(d, b)' <=> Overdue(d, b))
    BY DEF Finish, TypeOK, Overdue
  <2>3. Alone(b)'
    BY <1>1, <2>1, <2>2 DEF Alone, CycleHolds, RequestHolds, request
  <2>4. Exists(b)' => Story(b)'
    BY <1>1, <2>1, <2>2 DEF Story, Pending, Exists, alerts, timeline, request
  <2> QED
    BY <2>3, <2>4
<1> QED
  BY <1>1, AlertByAlert

\* Steps of the worker.
LEMMA CycleTales ==
  ASSUME TypeOK, Lists, Tales, NEW c \in Cycles, Cycle(c) \/ CycleFails(c)
  PROVE  Tales'
<1> USE DEF alerts, timeline, view, cycle, place, request
<1>1. CASE Begin(c)
  <2>1. ASSUME NEW b \in Alerts \ tangled', Alone(b), Exists(b) => Story(b)
        PROVE  Alone(b)' /\ (Exists(b)' => Story(b)')
    <3>1. /\ \A d \in Cycles \ {c} : todo'[d] = todo[d] /\ (Overdue(d, b)' <=> Overdue(d, b))
          /\ at' = at /\ at[c] = {} /\ todo[c] = {}
      <4>1. at' = at /\ at[c] = {} /\ todo[c] = {}
        BY <1>1 DEF Begin, Lists, PlaceInv, Placed
      <4>2. \A d \in Cycles \ {c} : todo'[d] = todo[d] /\ graded'[d] = graded[d] /\ elapsed' = elapsed
        BY <1>1 DEF Begin, TypeOK
      <4> QED
        BY <4>1, <4>2 DEF Overdue
    <3>2. b \in todo'[c] => ~Held(b) /\ Candidate(b)
      BY <1>1, <2>1 DEF Begin, TypeOK
    <3>3. Alone(b)'
      BY <1>1, <2>1, <3>1, <3>2 DEF Begin, Alone, CycleHolds, RequestHolds, Held
    <3>4. Candidate(b) => severity[b] = "MEDIUM"
      BY DEF Candidate, TypeOK, Severities
    <3>5. Exists(b)' => Story(b)'
      BY <1>1, <2>1, <3>1, <3>2, <3>4 DEF Begin, Story, Pending, Exists
    <3> QED
      BY <3>3, <3>5
  <2> QED
    BY <1>1, <2>1, AlertByAlert DEF Begin
<1>2. CASE TakeNow(c)
  <2>1. at[c] = {} /\ at' = at /\ todo' = todo
    BY <1>2 DEF TakeNow, Lists, PlaceInv, Placed
  <2>2. \A d \in Cycles, b \in Alerts : b \in at[d] => (Overdue(d, b)' <=> Overdue(d, b))
    BY <1>2, <2>1 DEF TakeNow, TypeOK, Overdue
  <2>3. ASSUME NEW b \in Alerts \ tangled', Alone(b), Exists(b) => Story(b)
        PROVE  Alone(b)' /\ (Exists(b)' => Story(b)')
    BY <1>2, <2>1, <2>2, <2>3 DEF TakeNow, Alone, CycleHolds, RequestHolds, Story, Pending, Exists
  <2> QED
    BY <1>2, <2>3, AlertByAlert DEF TakeNow
<1>3. CASE End(c)
  BY <1>3, FinishTales DEF End, Lists, PlaceInv, Placed
<1>4. CASE CycleFails(c)
  BY <1>4, FinishTales DEF CycleFails
<1>5. CASE Judge(c)
  <2>1. PICK a \in Alerts : \/ Promote(c, a) \/ AssignSenior(c, a) \/ AssignOperator(c, a)
                            \/ Pass(c, a) \/ RecordAction(c, a)
    BY <1>5 DEF Judge
  <2>2. ASSUME pc[c] = "next", a \in todo[c], Updated(c, a), UNCHANGED <<status, timeline, request, tangled>>,
               \/ Overdue(c, a) /\ severity' = [severity EXCEPT ![a] = "CRITICAL"]
               \/ ~Overdue(c, a) /\ severity' = severity
        PROVE  Tales'
    <3>1. ASSUME NEW b \in Alerts \ tangled', Alone(b), Exists(b) => Story(b)
          PROVE  Alone(b)' /\ (Exists(b)' => Story(b)')
      <4>1. at[c] = {} /\ at'[c] = {a} /\ todo'[c] = todo[c] \ {a}
        BY <2>2, ZenonT(30) DEF Updated, TypeOK, Lists, PlaceInv, Placed
      <4>2. \A d \in Cycles \ {c} : todo'[d] = todo[d] /\ at'[d] = at[d]
        BY <2>2 DEF Updated, TypeOK
      <4>3. \A d \in Cycles : Overdue(d, b)' <=> Overdue(d, b)
        BY <2>2 DEF Updated, Overdue
      <4>4. Alone(b)'
        BY <2>2, <3>1, <4>1, <4>2 DEF Alone, CycleHolds, RequestHolds
      <4>5. CASE b = a
        <5>1. /\ \A d \in Cycles : CycleHolds(d, a) => d = c
              /\ \A q \in Requests : ~RequestHolds(q, a)
          BY <2>2, <3>1, <4>5 DEF Alone, CycleHolds
        <5>2. Exists(a) => told[a] = "MEDIUM" /\ severity[a] = "MEDIUM"
          BY <2>2, <3>1, <4>1, <4>5, <5>1 DEF Story, Pending, CycleHolds, RequestHolds
        <5>3. severity'[a] = IF Overdue(c, a) THEN "CRITICAL" ELSE severity[a]
          BY <2>2 DEF TypeOK
        <5>4. \A d \in Cycles : (a \in at'[d] => d = c) /\ a \notin todo'[d]
          BY <4>1, <4>2, <5>1 DEF CycleHolds
        <5>5. \A q \in Requests : ~(step'[q] \in {"update", "audit"} /\ target'[q] = a)
          BY <2>2, <5>1 DEF RequestHolds
        <5> QED
          BY <2>2, <3>1, <4>1, <4>3, <4>4, <4>5, <5>2, <5>3, <5>4, <5>5 DEF Story, Pending, Exists
      <4>6. CASE b # a
        <5>1. severity'[b] = severity[b]
          BY <2>2, <4>6 DEF TypeOK
        <5>2. \A d \in Cycles : (b \in at'[d] <=> b \in at[d]) /\ (b \in todo'[d] <=> b \in todo[d])
          BY <4>1, <4>2, <4>6
        <5> QED
          BY <2>2, <3>1, <4>3, <4>4, <4>6, <5>1, <5>2 DEF Story, Pending, Exists
      <4> QED
        BY <4>5, <4>6
    <3> QED
      BY <2>2, <3>1, AlertByAlert
  <2>3. ASSUME pc[c] = "next", Finish(c), UNCHANGED <<alerts, timeline, request, tangled>>
        PROVE  Tales'
    BY <2>3, FinishTales DEF Lists, PlaceInv, Placed
  <2>4. CASE Promote(c, a)
    <3>1. CASE Exists(a)
      BY <2>2, <2>4, <3>1 DEF Promote
    <3>2. CASE ~Exists(a)
      BY <2>3, <2>4, <3>2 DEF Promote
    <3> QED
      BY <3>1, <3>2
  <2>5. ASSUME NEW pool, AssignPool(c, a, pool), elapsed[c][a] \in 1..3
        PROVE  Tales'
    BY <2>2, <2>3, <2>5 DEF AssignPool, Overdue
  <2>6. CASE Pass(c, a)
    <3>1. ASSUME NEW b \in Alerts \ tangled', Alone(b), Exists(b) => Story(b)
          PROVE  Alone(b)' /\ (Exists(b)' => Story(b)')
      <4>1. \A d \in Cycles : todo'[d] \subseteq todo[d] /\ at' = at /\ (Overdue(d, b)' <=> Overdue(d, b))
        BY <2>6 DEF Pass, TypeOK, Overdue
      <4>2. Alone(b)'
        BY <2>6, <3>1, <4>1 DEF Pass, Alone, CycleHolds, RequestHolds
      <4>3. Exists(b)' => Story(b)'
        BY <2>6, <3>1, <4>1 DEF Pass, Story, Pending, Exists
      <4> QED
        BY <4>2, <4>3
    <3> QED
      BY <2>6, <3>1, AlertByAlert DEF Pass
  <2>7. CASE RecordAction(c, a) /\ Exists(a)
    <3>1. ASSUME NEW b \in Alerts \ tangled', Alone(b), Exists(b) => Story(b)
          PROVE  Alone(b)' /\ (Exists(b)' => Story(b)')
      <4>1. at'[c] = {} /\ todo' = todo /\ \A d \in Cycles \ {c} : at'[d] = at[d]
        BY <2>7 DEF RecordAction, TypeOK
      <4>2. \A d \in Cycles : Overdue(d, b)' <=> Overdue(d, b)
        BY <2>7 DEF RecordAction, Overdue
      <4>3. Alone(b)'
        BY <2>7, <3>1, <4>1 DEF RecordAction, Alone, CycleHolds, RequestHolds
      <4>4. at[c] = {a} /\ c \in Cycles
        BY <2>7 DEF RecordAction, Lists, PlaceInv, Placed
      <4>5. CASE b = a
        <5>1. /\ \A d \in Cycles : CycleHolds(d, a) => d = c
              /\ \A q \in Requests : ~RequestHolds(q, a)
          BY <3>1, <4>4, <4>5 DEF Alone, CycleHolds
        <5>2. Story(a)
          BY <2>7, <3>1, <4>5
        <5>3. CASE Overdue(c, a)
          <6>1. graded[c][a] = "MEDIUM" /\ told[a] = "MEDIUM" /\ severity[a] = "CRITICAL"
            BY <4>4, <5>2, <5>3 DEF Story, Lists, ListInv, Listed
          <6>2. told'[a] = "CRITICAL" /\ gaps' = gaps
            BY <2>7, <5>3, <6>1 DEF RecordAction, Record, TypeOK
          <6> QED
            BY <2>7, <3>1, <4>1, <4>2, <4>3, <4>5, <5>1, <5>2, <6>1, <6>2
            DEF RecordAction, Story, Pending, Exists, CycleHolds, RequestHolds
        <5>4. CASE ~Overdue(c, a)
          BY <2>7, <3>1, <4>1, <4>2, <4>3, <4>4, <4>5, <5>1, <5>2, <5>4
          DEF RecordAction, Story, Pending, Exists, CycleHolds, RequestHolds
        <5> QED
          BY <5>3, <5>4
      <4>6. CASE b # a
        <5>1. told'[b] = told[b] /\ (b \in gaps' <=> b \in gaps)
          BY <2>7, <4>6 DEF RecordAction, Record, TypeOK
        <5>2. \A d \in Cycles : b \in at'[d] <=> b \in at[d]
          BY <4>1, <4>4, <4>6
        <5> QED
          BY <2>7, <3>1, <4>1, <4>2, <4>3, <5>1, <5>2 DEF RecordAction, Story, Pending, Exists
      <4> QED
        BY <4>5, <4>6
    <3> QED
      BY <2>7, <3>1, AlertByAlert DEF RecordAction
  <2>8. CASE RecordAction(c, a) /\ ~Exists(a)
    BY <2>8, FinishTales DEF RecordAction, Lists, PlaceInv, Placed
  <2> QED
    BY <2>1, <2>4, <2>5, <2>6, <2>7, <2>8 DEF AssignSenior, AssignOperator, SeniorDue, OperatorDue
<1> QED
  BY <1>1, <1>2, <1>3, <1>4, <1>5 DEF Cycle

\* Steps of a request.
LEMMA RequestTales ==
  ASSUME TypeOK, Lists, Tales, NEW q \in Requests, Regrade(q)
  PROVE  Tales'
<1> USE DEF alerts, timeline, view, cycle, place, request
<1> SUFFICES ASSUME NEW b \in Alerts \ tangled', Alone(b), Exists(b) => Story(b)
             PROVE  Alone(b)' /\ (Exists(b)' => Story(b)')
  <2>1. tangled \subseteq tangled'
    BY DEF Regrade, ReadAlert, ChangeSeverity, RecordChange, RequestFails
  <2> QED
    BY <2>1, AlertByAlert
<1>1. ASSUME UNCHANGED <<view, place>>
      PROVE  \A d \in Cycles : (Overdue(d, b)' <=> Overdue(d, b)) /\ (CycleHolds(d, b)' <=> CycleHolds(d, b))
  BY <1>1 DEF Overdue, CycleHolds
<1>2. CASE \E a \in Alerts, s \in Severities : ReadAlert(q, a, s)
  <2>1. PICK a \in Alerts, s \in Severities : ReadAlert(q, a, s)
    BY <1>2
  <2>2. /\ \A r \in Requests \ {q} : step'[r] = step[r] /\ target'[r] = target[r] /\ grade'[r] = grade[r] /\ wanted'[r] = wanted[r]
        /\ step[q] = "new" /\ step'[q] = "update" /\ target'[q] = a /\ grade'[q] = severity[a]
    BY <2>1 DEF ReadAlert, TypeOK
  <2>3. a = b => ~Held(b)
    BY <2>1 DEF ReadAlert
  <2>4. Alone(b)'
    BY <1>1, <2>1, <2>2, <2>3 DEF ReadAlert, Alone, RequestHolds, Held
  <2>5. Exists(b)' => Story(b)'
    BY <1>1, <2>1, <2>2, <2>3 DEF ReadAlert, Story, Pending, Exists
  <2> QED
    BY <2>4, <2>5
<1>3. CASE ChangeSeverity(q)
  <2>1. /\ \A r \in Requests \ {q} : step'[r] = step[r]
        /\ step[q] = "update" /\ step'[q] = IF Exists(target[q]) THEN "audit" ELSE "done"
    BY <1>3 DEF ChangeSeverity, TypeOK
  <2>2. Alone(b)'
    BY <1>1, <1>3, <2>1 DEF ChangeSeverity, Alone, RequestHolds
  <2>3. CASE target[q] = b
    <3>1. /\ \A r \in Requests : RequestHolds(r, b) => r = q
          /\ \A d \in Cycles : ~CycleHolds(d, b)
      BY <2>1, <2>3 DEF Alone, RequestHolds
    <3>2. Exists(b) => severity'[b] = wanted[q] /\ told'[b] = told[b] /\ told[b] = grade[q]
      BY <1>3, <2>1, <2>3, <3>1 DEF ChangeSeverity, TypeOK, Story, Pending, RequestHolds, CycleHolds
    <3> QED
      BY <1>1, <1>3, <2>1, <2>2, <2>3, <3>1, <3>2 DEF ChangeSeverity, Story, Pending, Exists, RequestHolds, CycleHolds
  <2>4. CASE target[q] # b
    <3>1. severity'[b] = severity[b]
      BY <1>3, <2>4 DEF ChangeSeverity, TypeOK
    <3> QED
      BY <1>1, <1>3, <2>1, <2>2, <2>4, <3>1 DEF ChangeSeverity, Story, Pending, Exists
  <2> QED
    BY <2>3, <2>4
<1>4. CASE RecordChange(q)
  <2>1. /\ \A r \in Requests \ {q} : step'[r] = step[r]
        /\ step[q] = "audit" /\ step'[q] = "done"
    BY <1>4 DEF RecordChange, TypeOK
  <2>2. Alone(b)'
    BY <1>1, <1>4, <2>1 DEF RecordChange, Alone, RequestHolds
  <2>3. CASE target[q] = b
    <3>1. /\ \A r \in Requests : RequestHolds(r, b) => r = q
          /\ \A d \in Cycles : ~CycleHolds(d, b)
      BY <2>1, <2>3 DEF Alone, RequestHolds
    <3>2. Exists(b) => severity'[b] = severity[b] /\ severity[b] = wanted[q] /\ told'[b] = wanted[q] /\ gaps' = gaps
      BY <1>4, <2>1, <2>3 DEF RecordChange, OldValue, Record, TypeOK, Story
    <3> QED
      BY <1>1, <1>4, <2>1, <2>2, <2>3, <3>1, <3>2 DEF RecordChange, Story, Pending, Exists, RequestHolds, CycleHolds
  <2>4. CASE target[q] # b
    <3>1. told'[b] = told[b] /\ (b \in gaps' <=> b \in gaps)
      BY <1>4, <2>4 DEF RecordChange, Record, TypeOK
    <3> QED
      BY <1>1, <1>4, <2>1, <2>2, <2>4, <3>1 DEF RecordChange, Story, Pending, Exists
  <2> QED
    BY <2>3, <2>4
<1>5. CASE RequestFails(q)
  <2>1. /\ \A r \in Requests \ {q} : step'[r] = step[r]
        /\ step'[q] = "done" /\ (step[q] = "audit" => target[q] # b)
    BY <1>5 DEF RequestFails, TypeOK
  <2>2. Alone(b)'
    BY <1>1, <1>5, <2>1 DEF RequestFails, Alone, RequestHolds
  <2>3. Exists(b)' => Story(b)'
    BY <1>1, <1>5, <2>1 DEF RequestFails, Story, Pending, Exists
  <2> QED
    BY <2>2, <2>3
<1> QED
  BY <1>2, <1>3, <1>4, <1>5 DEF Regrade

\* Steps of operators, the rule engine and time.
LEMMA WorldTales ==
  ASSUME TypeOK, Lists, Tales, Operate \/ Tick
  PROVE  Tales'
<1> USE DEF alerts, timeline, view, cycle, place, request
<1>1. UNCHANGED <<view, place, request, tangled, gaps>>
  BY DEF Operate, Raise, SetStatus, AssignAlert, Delete, Tick
<1> SUFFICES ASSUME NEW b \in Alerts \ tangled', Alone(b), Exists(b) => Story(b)
             PROVE  Alone(b)' /\ (Exists(b)' => Story(b)')
  BY <1>1, AlertByAlert
<1>2. Alone(b)'
  BY <1>1 DEF Alone, CycleHolds, RequestHolds
<1>3. \A d \in Cycles : Overdue(d, b)' <=> Overdue(d, b)
  BY <1>1 DEF Overdue
<1>4. CASE UNCHANGED <<severity, told>> /\ (Exists(b)' => Exists(b))
  BY <1>1, <1>2, <1>3, <1>4 DEF Story, Pending
<1>5. CASE \E a \in Alerts, s \in RuleSeverities, new \in {"open", "closed"} : Raise(a, s, new)
  <2>1. PICK a \in Alerts, s \in RuleSeverities, new \in {"open", "closed"} : Raise(a, s, new)
    BY <1>5
  <2>2. CASE b = a
    <3>1. severity'[b] = s /\ told'[b] = s /\ b \notin gaps
      BY <2>1, <2>2 DEF Raise, TypeOK, Lists, UnraisedInv
    <3>2. \A d \in Cycles : ~CycleHolds(d, b)
      BY <2>1, <2>2 DEF Raise, Lists, ListInv, Listed
    <3>3. \A q \in Requests : ~RequestHolds(q, b)
      BY <2>1, <2>2 DEF Raise, Lists, UnraisedInv, RequestHolds
    <3> QED
      BY <1>1, <1>2, <1>3, <3>1, <3>2, <3>3 DEF Story, Pending, CycleHolds, RequestHolds
  <2>3. CASE b # a
    <3>1. severity'[b] = severity[b] /\ told'[b] = told[b] /\ status'[b] = status[b]
      BY <2>1, <2>3 DEF Raise, TypeOK
    <3> QED
      BY <1>1, <1>2, <1>3, <3>1 DEF Story, Pending, Exists
  <2> QED
    BY <2>2, <2>3
<1>6. CASE ~\E a \in Alerts, s \in RuleSeverities, new \in {"open", "closed"} : Raise(a, s, new)
  <2>1. UNCHANGED <<severity, told>>
    BY <1>6 DEF Operate, SetStatus, AssignAlert, Delete, Tick
  <2>2. Exists(b)' => Exists(b)
    BY <1>6 DEF Operate, SetStatus, AssignAlert, Delete, Tick, Exists, TypeOK
  <2> QED
    BY <1>4, <2>1, <2>2
<1> QED
  BY <1>5, <1>6

-----------------------------------------------------------------------------
(* The invariant and what follows from it *)

\* The invariant holds.
THEOREM InvHolds == Spec => []Inv
<1>1. Init => Inv
  <2> SUFFICES ASSUME Init PROVE Inv
    OBVIOUS
  <2>1. TypeOK
    BY DEF Init, TypeOK, Severities, Ages
  <2>2. PlaceInv /\ ListInv /\ UnraisedInv /\ ThoroughInv
    BY DEF Init, PlaceInv, Placed, ListInv, Listed, UnraisedInv, ThoroughInv, CycleHolds
  <2>3. AloneInv /\ StoryInv
    BY DEF Init, AloneInv, Alone, StoryInv, Story, CycleHolds, RequestHolds, Exists
  <2> QED
    BY <2>1, <2>2, <2>3 DEF Inv
<1>2. Inv /\ [Next]_vars => Inv'
  <2> SUFFICES ASSUME Inv, [Next]_vars PROVE Inv'
    OBVIOUS
  <2>1. TypeOK /\ Lists /\ Tales
    BY DEF Inv, Lists, Tales
  <2>2. CASE UNCHANGED vars
    BY <2>2 DEF Inv, TypeOK, PlaceInv, Placed, ListInv, Listed, UnraisedInv, ThoroughInv, AloneInv, Alone,
                StoryInv, Story, Pending, Overdue, Exists, CycleHolds, RequestHolds,
                vars, alerts, timeline, view, cycle, place, request
  <2>3. ASSUME NEW c \in Cycles, Cycle(c) \/ CycleFails(c)
        PROVE  TypeOK' /\ Lists' /\ Tales'
    BY <2>1, <2>3, CycleTypes, CycleLists, CycleTales
  <2>4. ASSUME NEW q \in Requests, Regrade(q)
        PROVE  TypeOK' /\ Lists' /\ Tales'
    BY <2>1, <2>4, RequestTypes, RequestLists, RequestTales
  <2>5. ASSUME Operate \/ Tick
        PROVE  TypeOK' /\ Lists' /\ Tales'
    <3>1. RuleSeverities \subseteq Severities
      BY DEF Severities
    <3> QED
      BY <2>1, <2>5, <3>1, WorldTypes, WorldLists, WorldTales
  <2>6. TypeOK' /\ Lists' /\ Tales' => Inv'
    BY DEF Inv, Lists, Tales
  <2> QED
    BY <2>2, <2>3, <2>4, <2>5, <2>6 DEF Next
<1> QED
  BY <1>1, <1>2, PTL DEF Spec

\* The timeline of every alert whose changes did not overlap tells the story of
\* its severity.  (EscalationWorker, escalateAlert, addHistory)
THEOREM Timeline == Spec => []TimelineIsAStory
<1>1. Inv => TimelineIsAStory
  BY DEF Inv, StoryInv, Story, Pending, TimelineIsAStory, Held, CycleHolds, RequestHolds
<1> QED
  BY <1>1, InvHolds, PTL

\* A cycle that comes to its end has promoted every overdue alert of its list
\* that nobody else changed.  (the loop of runEscalationCycle)
THEOREM ThoroughCycles == Spec => CycleIsThorough
<1>1. Inv => \A c \in Cycles, a \in Alerts : Ends(c) /\ elapsed[c][a] >= 4 =>
                severity[a] = "CRITICAL" \/ a \in touched[c] \/ ~Exists(a)
  BY DEF Inv, ThoroughInv, Ends
<1>2. Inv /\ [Next]_vars =>
        [\A c \in Cycles, a \in Alerts : Ends(c) /\ elapsed[c][a] >= 4 =>
           severity[a] = "CRITICAL" \/ a \in touched[c] \/ ~Exists(a)]_vars
  BY <1>1
<1> QED
  BY <1>2, InvHolds, PTL DEF Spec, CycleIsThorough

\* Every promotion comes from Promote.
LEMMA PromotionIsPromote ==
  ASSUME Inv, Next, NEW c \in Cycles, NEW a \in Alerts, Promotes(c, a)
  PROVE  Promote(c, a) /\ Exists(a) /\ a \in todo[c]
<1> USE DEF alerts, timeline, view, cycle, place, request
<1>1. pc[c] = "next" /\ pc'[c] = "audit" /\ a \in at'[c] /\ Overdue(c, a)
  BY DEF Promotes
<1>2. pc \in [Cycles -> {"idle", "listed", "next", "audit"}] /\ at \in [Cycles -> SUBSET Alerts]
  BY DEF Inv, TypeOK
<1>3. ~(Operate \/ Tick \/ \E q \in Requests : Regrade(q))
  BY <1>1 DEF Operate, Raise, SetStatus, AssignAlert, Delete, Tick, Regrade, ReadAlert,
              ChangeSeverity, RecordChange, RequestFails
<1>4. PICK d \in Cycles : Cycle(d) \/ CycleFails(d)
  BY <1>3 DEF Next
<1>5. d = c /\ Judge(c)
  BY <1>1, <1>2, <1>4 DEF Cycle, Begin, TakeNow, End, CycleFails, Finish, Judge, Promote, AssignSenior,
     AssignOperator, AssignPool, Updated, Pass, RecordAction
<1>6. PICK b \in Alerts : \/ Promote(c, b) \/ AssignSenior(c, b) \/ AssignOperator(c, b)
                          \/ Pass(c, b) \/ RecordAction(c, b)
  BY <1>5 DEF Judge
<1>7. CASE Promote(c, b)
  <2>1. Exists(b) /\ Updated(c, b)
    BY <1>1, <1>2, <1>7 DEF Promote, Finish
  <2>2. b = a
    BY <1>1, <1>2, <2>1 DEF Updated
  <2> QED
    BY <1>7, <2>1, <2>2 DEF Promote
<1>8. ASSUME NEW pool, AssignPool(c, b, pool), elapsed[c][b] \in 1..3
      PROVE  FALSE
  <2>1. Updated(c, b)
    BY <1>1, <1>2, <1>8 DEF AssignPool, Finish
  <2>2. b = a
    BY <1>1, <1>2, <2>1 DEF Updated
  <2> QED
    BY <1>1, <1>8, <2>2 DEF Overdue
<1>9. CASE Pass(c, b)
  BY <1>1, <1>9 DEF Pass
<1>10. CASE RecordAction(c, b)
  BY <1>1, <1>10 DEF RecordAction
<1> QED
  BY <1>6, <1>7, <1>8, <1>9, <1>10 DEF AssignSenior, AssignOperator, SeniorDue, OperatorDue

\* The worker promotes only alerts of forty minutes and more that were open when
\* its cycle read them.  (findEscalationCandidates, escalation.worker.ts:56)
THEOREM FairPromotions == Spec => PromotesOnlyOverdue
<1>1. ASSUME Inv, Next, NEW c \in Cycles, NEW a \in Alerts, Promotes(c, a)
      PROVE  age[a] = 4 /\ (status[a] = "open" \/ a \in touched[c])
  <2>1. Promote(c, a) /\ Exists(a) /\ a \in todo[c]
    BY <1>1, PromotionIsPromote
  <2>2. elapsed[c][a] \in 0..4 /\ age[a] \in 0..4
    BY <1>1, AgesAreAges DEF Inv
  <2>3. elapsed[c][a] <= age[a] /\ elapsed[c][a] >= 4
    BY <1>1, <2>1 DEF Inv, ListInv, Listed, Promote, Overdue
  <2>4. status[a] = "open" \/ a \in touched[c]
    BY <1>1, <2>1 DEF Inv, ListInv, Listed, Exists
  <2> QED
    BY <2>2, <2>3, <2>4
<1>2. Inv /\ [Next]_vars =>
        [\A c \in Cycles, a \in Alerts : Promotes(c, a) =>
           age[a] = 4 /\ (status[a] = "open" \/ a \in touched[c])]_vars
  BY <1>1
<1> QED
  BY <1>2, InvHolds, PTL DEF Spec, PromotesOnlyOverdue

=============================================================================
