----------------------- MODULE AlertRuleEngineProofs -----------------------
(***************************************************************************)
(* What overlapping evaluations of alert rules cannot break, for any       *)
(* number of snapshots, rules and failures: an alert always stands for a   *)
(* breach that lasted, and duplicates and orphans come from overlap only.  *)
(***************************************************************************)
EXTENDS AlertRuleEngine, TLAPS

\* The evaluation has fixed its time and its list of rules.
Looping(e) == pc[e] \notin {"new", "rules"}

\* An evaluation recorded as over is over.
HistoryInv == \A e, f \in Evals : e \in before[f] => pc[e] = "done"

\* A breach row tells of the snapshot that created it.
FromBreach(b) ==
  /\ Looping(b.id)
  /\ sample[b.id][b.rule] = "breach"
  /\ b.first = at[b.id]
  /\ b.rule \notin todo[b.id]

RowsInv ==
  /\ \A b \in breaches : FromBreach(b)
  /\ \A e \in Evals : \A b \in row[e] : FromBreach(b) /\ b.rule = rule[e]

\* What an evaluation knows at each place of the loop.
LoopInv ==
  \A e \in Evals :
    /\ pc[e] \in {"create", "update", "dedupe", "alert"} =>
         sample[e][rule[e]] = "breach" /\ rule[e] \notin todo[e]
    /\ pc[e] \in {"update", "dedupe", "alert"} =>
         row[e] # {} /\ \A b \in row[e] : b.id # e
    /\ pc[e] \in {"dedupe", "alert"} =>
         \A b \in row[e] : at[e] - b.first >= Duration[b.rule]

\* BackedByBreach, for witnesses whose time is fixed.
AlertsInv ==
  \A e \in Evals, r \in Rules : status[<<e, r>>] # "None" =>
    /\ Looping(e)
    /\ \E f \in Evals \ {e} :
         Looping(f) /\ sample[f][r] = "breach" /\ at[e] - at[f] >= Duration[r]

\* About to create an alert, an evaluation has seen all earlier ones inactive.
DedupeInv ==
  /\ DuplicatesOverlap
  /\ \A e \in Evals : pc[e] = "alert" =>
       \A a \in Active(rule[e]) : a \notin reopened => a[1] \notin before[e]

\* Evaluations one at a time: what was read still holds.
SerialInv ==
  Serial /\ reopened = {} =>
    /\ \A r \in Rules : Active(r) # {} => RowsOf(r) # {}
    /\ \A e \in Evals : pc[e] \in {"dedupe", "alert"} => row[e] \subseteq breaches
    /\ \A e \in Evals : pc[e] = "commit" => Active(rule[e]) \subseteq found[e]

EngineInv ==
  TypeOK /\ HistoryInv /\ RowsInv /\ LoopInv /\ AlertsInv /\ DedupeInv /\ SerialInv

USE EngineAssumption DEF EngineAssumption

-----------------------------------------------------------------------------
\* An alert is the pair of its evaluation and its rule.
LEMMA AlertPairs ==
  /\ \A e \in Evals, r \in Rules : <<e, r>> \in Alerts
  /\ \A a \in Alerts : a[1] \in Evals /\ a[2] \in Rules /\ a = <<a[1], a[2]>>
BY DEF Alerts

\* What DuplicatesOverlap and Serial read besides the alerts.
LEMMA SerialShrinks ==
  ASSUME TypeOK, UNCHANGED before, \A f \in Evals : pc[f] # "new" => pc'[f] # "new", Serial'
  PROVE  Serial
BY DEF Serial, Overlap

\* A step that only ends an iteration, or an evaluation, keeps everything.
LEMMA FrameStep ==
  ASSUME EngineInv, TypeOK',
         UNCHANGED <<breaches, status, sample, at, todo, held, before, reopened>>,
         \A f \in Evals : \/ pc'[f] = pc[f]
                          \/ pc[f] \notin {"new", "done"} /\ pc'[f] \in {"next", "done"}
  PROVE  EngineInv'
<1> USE DEF EngineInv, held
<1>1. HistoryInv'
  BY DEF HistoryInv, TypeOK
<1>2. \A b \in Row : FromBreach(b) => FromBreach(b)'
  BY DEF FromBreach, Looping, Row
<1>3. RowsInv'
  BY <1>2 DEF RowsInv, TypeOK
<1>4. LoopInv'
  BY DEF LoopInv
<1>5. AlertsInv'
  BY DEF AlertsInv, Looping
<1>6. \A r \in Rules : Active(r)' = Active(r) /\ RowsOf(r)' = RowsOf(r)
  BY DEF Active, RowsOf
<1>7. DedupeInv'
  <2>1. DuplicatesOverlap'
    BY <1>6 DEF DedupeInv, DuplicatesOverlap, Overlap
  <2>2. ASSUME NEW e \in Evals, pc'[e] = "alert", NEW a \in Active(rule[e])', a \notin reopened'
        PROVE  (a[1] \notin before[e])'
    <3>1. pc[e] = "alert" /\ rule[e] \in Rules /\ rule'[e] = rule[e]
      BY <2>2 DEF TypeOK
    <3> QED
      BY <1>6, <2>2, <3>1 DEF DedupeInv
  <2> QED
    BY <2>1, <2>2 DEF DedupeInv
<1>8. SerialInv'
  <2>1. Serial' => Serial
    BY SerialShrinks
  <2> QED
    BY <1>6, <2>1, ZenonT(30) DEF SerialInv, TypeOK
<1> QED
  BY <1>1, <1>3, <1>4, <1>5, <1>7, <1>8

-----------------------------------------------------------------------------
LEMMA InitEngineInv == Init => EngineInv
<1> SUFFICES ASSUME Init PROVE EngineInv
  OBVIOUS
<1>1. TypeOK
  <2>1. (CHOOSE r \in Rules : TRUE) \in Rules
    OBVIOUS
  <2>2. rule \in [Evals -> Rules]
    BY <2>1 DEF Init
  <2>3. status \in [Alerts -> Statuses] /\ pc \in [Evals -> Steps]
    BY DEF Init, Statuses, Steps
  <2>4. clock \in Time /\ failures \in 0..MaxFailures /\ at \in [Evals -> Time]
    BY DEF Init, Time
  <2> QED
    BY <2>2, <2>3, <2>4 DEF Init, TypeOK
<1>2. \A r \in Rules : Active(r) = {}
  BY DEF Init, Active, ActiveStatuses
<1>3. HistoryInv /\ RowsInv /\ LoopInv /\ AlertsInv
  BY AlertPairs DEF Init, HistoryInv, RowsInv, LoopInv, AlertsInv
<1>4. DedupeInv /\ SerialInv
  BY <1>2 DEF Init, DedupeInv, DuplicatesOverlap, SerialInv
<1> QED
  BY <1>1, <1>3, <1>4 DEF EngineInv

\* An evaluation begins: nothing it will create exists yet.
LEMMA ReadDeviceStep ==
  ASSUME EngineInv, NEW e \in Evals, ReadDevice(e)
  PROVE  EngineInv'
<1> USE DEF EngineInv, ReadDevice, GoTo, database, held, world
<1>1. TypeOK'
  BY DEF TypeOK, Steps
<1>2. HistoryInv'
  BY DEF HistoryInv, TypeOK
<1>3. RowsInv'
  BY DEF RowsInv, FromBreach, Looping, TypeOK, Row
<1>4. LoopInv'
  BY DEF LoopInv, TypeOK
<1>5. AlertsInv'
  BY DEF AlertsInv, Looping, TypeOK
<1>6. \A r \in Rules : Active(r)' = Active(r) /\ RowsOf(r)' = RowsOf(r)
  BY DEF Active, RowsOf
<1>7. \A r \in Rules : \A a \in Active(r) : a[1] \in Evals /\ a[1] # e
  BY AlertPairs DEF Active, AlertsInv, Looping, ActiveStatuses
<1>8. DedupeInv'
  BY <1>6, <1>7 DEF DedupeInv, DuplicatesOverlap, Overlap, TypeOK
<1>9. SerialInv'
  <2>1. Serial' => Serial
    BY DEF Serial, Overlap, TypeOK
  <2> QED
    BY <1>6, <2>1 DEF SerialInv, TypeOK
<1> QED
  BY <1>1, <1>2, <1>3, <1>4, <1>5, <1>8, <1>9

LEMMA ReadRulesStep ==
  ASSUME EngineInv, NEW e \in Evals, ReadRules(e)
  PROVE  EngineInv'
<1> USE DEF EngineInv, ReadRules, GoTo, database, held, world, history
<1>1. TypeOK'
  BY DEF TypeOK, Steps
<1>2. HistoryInv'
  BY DEF HistoryInv, TypeOK
<1>3. RowsInv'
  BY DEF RowsInv, FromBreach, Looping, TypeOK, Row
<1>4. LoopInv'
  BY DEF LoopInv, TypeOK
<1>5. AlertsInv'
  <2>1. \A f \in Evals : Looping(f) => f # e /\ Looping(f)' /\ at'[f] = at[f]
    BY DEF Looping, TypeOK
  <2> QED
    BY <2>1 DEF AlertsInv
<1>6. \A r \in Rules : Active(r)' = Active(r) /\ RowsOf(r)' = RowsOf(r)
  BY DEF Active, RowsOf
<1>7. DedupeInv'
  BY <1>6 DEF DedupeInv, DuplicatesOverlap, Overlap, TypeOK
<1>8. SerialInv'
  <2>1. Serial' => Serial
    BY DEF Serial, Overlap, TypeOK
  <2> QED
    BY <1>6, <2>1 DEF SerialInv, TypeOK
<1> QED
  BY <1>1, <1>2, <1>3, <1>4, <1>5, <1>7, <1>8

\* The row read was created by another evaluation: this one still had the rule
\* to do.
LEMMA ReadBreachStep ==
  ASSUME EngineInv, NEW e \in Evals, NEW r \in Rules, ReadBreach(e, r)
  PROVE  EngineInv'
<1> USE DEF EngineInv, ReadBreach, GoTo, database, world, history
<1>0. RowsOf(r) \subseteq breaches /\ \A b \in RowsOf(r) : b.rule = r /\ FromBreach(b) /\ b.id # e
  BY DEF RowsOf, RowsInv, FromBreach
<1>1. TypeOK'
  <2>1. row' \in [Evals -> SUBSET Row]
    BY <1>0 DEF TypeOK
  <2>2. pc' \in [Evals -> Steps]
    BY DEF TypeOK, Steps, Resume
  <2> QED
    BY <2>1, <2>2 DEF TypeOK
<1>2. HistoryInv'
  BY DEF HistoryInv, TypeOK
<1>3. \A b \in Row : FromBreach(b) => FromBreach(b)'
  BY DEF FromBreach, Looping, TypeOK, Row, Resume
<1>4. RowsInv'
  BY <1>0, <1>3 DEF RowsInv, TypeOK
<1>5. LoopInv'
  <2>1. ASSUME NEW f \in Evals, f # e
        PROVE  /\ pc'[f] = pc[f] /\ rule'[f] = rule[f] /\ row'[f] = row[f]
               /\ todo'[f] = todo[f]
    BY <2>1 DEF TypeOK
  <2>2. /\ rule'[e] = r /\ row'[e] = RowsOf(r) /\ r \notin todo'[e]
        /\ pc'[e] = "create" => sample[e][r] = "breach"
        /\ pc'[e] = "update" => sample[e][r] = "breach" /\ RowsOf(r) # {}
        /\ pc'[e] \in {"create", "update", "resolve", "next", "done"}
    BY DEF TypeOK, Resume
  <2> QED
    BY <1>0, <2>1, <2>2 DEF LoopInv
<1>6. AlertsInv'
  BY DEF AlertsInv, Looping, TypeOK, Resume
<1>7. \A q \in Rules : Active(q)' = Active(q) /\ RowsOf(q)' = RowsOf(q)
  BY DEF Active, RowsOf
<1>8. pc'[e] \in {"create", "update", "resolve", "next", "done"}
  BY DEF TypeOK, Resume
<1>9. DedupeInv'
  BY <1>7, <1>8 DEF DedupeInv, DuplicatesOverlap, Overlap, TypeOK
<1>10. SerialInv'
  <2>1. Serial' => Serial
    BY <1>8 DEF Serial, Overlap, TypeOK
  <2> QED
    BY <1>7, <1>8, <2>1 DEF SerialInv, TypeOK
<1> QED
  BY <1>1, <1>2, <1>4, <1>5, <1>6, <1>9, <1>10

\* A new breach row is named after its snapshot.
LEMMA CreateBreachStep ==
  ASSUME EngineInv, NEW e \in Evals, CreateBreach(e), ~KeyTaken(rule[e])
  PROVE  EngineInv'
<1> USE DEF EngineInv, CreateBreach, GoTo, Continue, cursor, held, world
<1>a. [rule |-> rule[e], id |-> e, first |-> at[e]] \in Row
  BY DEF Row, TypeOK
<1>b. PICK new \in Row : new = [rule |-> rule[e], id |-> e, first |-> at[e]]
  BY <1>a
<1>0. new \in Row /\ new.rule = rule[e] /\ new.id = e /\ new.first = at[e]
  BY <1>b
<1>1. breaches' = breaches \cup {new} /\ pc' = [pc EXCEPT ![e] = Resume(todo[e])]
  BY <1>b
<1>2. pc[e] = "create" /\ pc'[e] \in {"next", "done"} /\ \A f \in Evals \ {e} : pc'[f] = pc[f]
  BY <1>1 DEF TypeOK, Resume
<1>3. \A b \in breaches : b.rule # rule[e]
  BY DEF KeyTaken, RowsOf
<1>4. TypeOK'
  <2>1. \A b, c \in breaches' : b.rule = c.rule => b = c
    BY <1>0, <1>1, <1>3 DEF TypeOK
  <2>2. pc' \in [Evals -> Steps]
    BY <1>1 DEF TypeOK, Steps, Resume
  <2>3. breaches' \subseteq Row
    BY <1>0, <1>1 DEF TypeOK
  <2> QED
    BY <2>1, <2>2, <2>3 DEF TypeOK
<1>5. HistoryInv'
  BY <1>2 DEF HistoryInv, TypeOK
<1>6. \A f \in Evals : Looping(f) => Looping(f)'
  BY <1>2 DEF Looping
<1>7. RowsInv'
  <2>1. \A b \in Row : FromBreach(b) => FromBreach(b)'
    BY <1>6 DEF FromBreach, Row
  <2>2. FromBreach(new)'
    BY <1>0, <1>2 DEF FromBreach, Looping, LoopInv
  <2> QED
    BY <1>0, <1>1, <2>1, <2>2 DEF RowsInv, TypeOK
<1>8. LoopInv'
  BY <1>2 DEF LoopInv
<1>9. AlertsInv'
  BY <1>6 DEF AlertsInv
<1>10. \A r \in Rules : Active(r)' = Active(r) /\ RowsOf(r) \subseteq RowsOf(r)'
  BY <1>1 DEF Active, RowsOf
<1>11. DedupeInv'
  <2>1. DuplicatesOverlap'
    BY <1>10 DEF DedupeInv, DuplicatesOverlap, Overlap
  <2>2. ASSUME NEW g \in Evals, pc'[g] = "alert", NEW a \in Active(rule[g])', a \notin reopened'
        PROVE  (a[1] \notin before[g])'
    <3>1. pc[g] = "alert" /\ rule[g] \in Rules /\ rule'[g] = rule[g]
      BY <1>2, <2>2 DEF TypeOK
    <3> QED
      BY <1>10, <2>2, <3>1 DEF DedupeInv
  <2> QED
    BY <2>1, <2>2 DEF DedupeInv
<1>12. SerialInv'
  <2>1. Serial' => Serial
    BY <1>2, SerialShrinks
  <2> QED
    BY <1>1, <1>2, <1>10, <2>1 DEF SerialInv, TypeOK
<1> QED
  BY <1>4, <1>5, <1>7, <1>8, <1>9, <1>11, <1>12

\* A step to the next question about the same rule.
LEMMA AskStep ==
  ASSUME EngineInv, NEW e \in Evals,
         UNCHANGED <<database, cursor, held, world, history>>,
         \/ pc[e] = "update" /\ ~RowGone(e) /\ LongEnough(e) /\ GoTo(e, "dedupe")
         \/ pc[e] = "dedupe" /\ Active(rule[e]) = {} /\ GoTo(e, "alert")
  PROVE  EngineInv'
<1> USE DEF EngineInv, GoTo, database, cursor, held, world, history
<1>1. /\ pc' = [pc EXCEPT ![e] = pc'[e]]
      /\ pc[e] \in {"update", "dedupe"} /\ pc'[e] \in {"dedupe", "alert"}
      /\ \A f \in Evals \ {e} : pc'[f] = pc[f]
  BY DEF TypeOK
<1>2. TypeOK'
  BY <1>1 DEF TypeOK, Steps
<1>3. HistoryInv'
  BY <1>1 DEF HistoryInv, TypeOK
<1>4. \A f \in Evals : Looping(f) => Looping(f)'
  BY <1>1 DEF Looping
<1>5. RowsInv'
  <2>1. \A b \in Row : FromBreach(b) => FromBreach(b)'
    BY <1>4 DEF FromBreach, Row
  <2> QED
    BY <2>1 DEF RowsInv, TypeOK
<1>6. LoopInv'
  BY <1>1 DEF LoopInv, LongEnough, TypeOK
<1>7. AlertsInv'
  BY <1>4 DEF AlertsInv
<1>8. \A r \in Rules : Active(r)' = Active(r) /\ RowsOf(r)' = RowsOf(r)
  BY DEF Active, RowsOf
<1>9. DedupeInv'
  <2>1. DuplicatesOverlap'
    BY <1>8 DEF DedupeInv, DuplicatesOverlap, Overlap
  <2>2. ASSUME NEW g \in Evals, pc'[g] = "alert", NEW a \in Active(rule[g])', a \notin reopened'
        PROVE  (a[1] \notin before[g])'
    <3>1. rule[g] \in Rules /\ rule'[g] = rule[g] /\ a \in Active(rule[g])
      BY <1>8, <2>2 DEF TypeOK
    <3>2. pc[g] = "alert"
      BY <1>1, <2>2, <3>1 DEF TypeOK
    <3> QED
      BY <2>2, <3>1, <3>2 DEF DedupeInv
  <2> QED
    BY <2>1, <2>2 DEF DedupeInv
<1>10. SerialInv'
  <2>1. Serial' => Serial
    BY <1>1, SerialShrinks
  <2>2. Serial /\ reopened = {} => row[e] \subseteq breaches
    BY DEF SerialInv, RowGone
  <2>3. \A f \in Evals : rule[f] \in Rules
    BY DEF TypeOK
  <2> QED
    BY <1>1, <1>8, <2>1, <2>2, <2>3 DEF SerialInv
<1> QED
  BY <1>2, <1>3, <1>5, <1>6, <1>7, <1>9, <1>10

\* The alert created is backed by the creator of the row, and overlaps the
\* creators of all other active alerts.
LEMMA CreateAlertStep ==
  ASSUME EngineInv, NEW e \in Evals, CreateAlert(e)
  PROVE  EngineInv'
<1> USE DEF EngineInv, CreateAlert, GoTo, Continue, cursor, held, world, history
<1>a. PICK r \in Rules : r = rule[e]
  BY DEF TypeOK
<1> DEFINE new == <<e, r>>
<1>0. r \in Rules /\ new \in Alerts /\ new[1] = e /\ new[2] = r
  BY AlertPairs
<1>1. pc[e] = "alert" /\ pc'[e] \in {"next", "done"} /\ \A f \in Evals \ {e} : pc'[f] = pc[f]
  BY DEF TypeOK, Resume
<1>2. /\ status' = [status EXCEPT ![new] = status'[new]]
      /\ status'[new] \in {"SUPPRESS", "NEW"}
  BY <1>a, <1>0 DEF TypeOK
<1> HIDE DEF new
<1>3. TypeOK'
  <2>1. pc' \in [Evals -> Steps]
    BY DEF TypeOK, Steps, Resume
  <2>2. status' \in [Alerts -> Statuses]
    BY <1>0, <1>2 DEF TypeOK, Statuses
  <2> QED
    BY <2>1, <2>2 DEF TypeOK
<1>4. HistoryInv'
  BY <1>1 DEF HistoryInv, TypeOK
<1>5. \A f \in Evals : Looping(f) => Looping(f)'
  BY <1>1 DEF Looping
<1>6. RowsInv'
  <2>1. \A b \in Row : FromBreach(b) => FromBreach(b)'
    BY <1>5 DEF FromBreach, Row
  <2> QED
    BY <2>1 DEF RowsInv, TypeOK
<1>7. LoopInv'
  BY <1>1 DEF LoopInv
<1>8. AlertsInv'
  <2> SUFFICES ASSUME NEW g \in Evals, NEW q \in Rules, status'[<<g, q>>] # "None"
               PROVE  /\ Looping(g)'
                      /\ \E f \in Evals \ {g} :
                           Looping(f)' /\ sample[f][q] = "breach" /\ at[g] - at[f] >= Duration[q]
    BY DEF AlertsInv
  <2>1. CASE <<g, q>> = new
    <3>1. g = e /\ q = r
      BY <2>1 DEF new
    <3>2. PICK b \in row[e] : TRUE
      BY <1>1 DEF LoopInv
    <3>3. /\ b.id \in Evals \ {e} /\ b.rule = r /\ at[e] - b.first >= Duration[r]
          /\ FromBreach(b)
      BY <1>a, <1>1, <3>2 DEF LoopInv, RowsInv, TypeOK, Row
    <3>4. Looping(e)' /\ Looping(b.id)'
      BY <1>1, <1>5, <3>3 DEF Looping, FromBreach
    <3> QED
      BY <3>1, <3>3, <3>4 DEF FromBreach
  <2>2. CASE <<g, q>> # new
    <3>1. status[<<g, q>>] # "None"
      BY <1>2, <2>2, AlertPairs DEF TypeOK
    <3> QED
      BY <1>5, <3>1 DEF AlertsInv
  <2> QED
    BY <2>1, <2>2
<1>9. \A q \in Rules : /\ Active(q)' \subseteq Active(q) \cup {new}
                       /\ q # r => Active(q)' = Active(q)
                       /\ RowsOf(q)' = RowsOf(q)
  BY <1>0, <1>2, ZenonT(30) DEF Active, RowsOf, TypeOK
<1>10. \A q \in Rules : \A a \in Active(q)' : a \in Alerts /\ a[1] \in Evals
  BY AlertPairs DEF Active
<1>11. DedupeInv'
  <2>1. ASSUME NEW a \in Active(r)', a # new, a \notin reopened
        PROVE  Overlap(a[1], e)
    <3>1. a \in Active(r) /\ a \in Alerts /\ a[2] = r
      BY <1>0, <1>9, <2>1 DEF Active
    <3>2. a[1] # e
      BY <2>1, <3>1, AlertPairs DEF new
    <3>3. a[1] \notin before[e]
      BY <1>a, <1>1, <2>1, <3>1 DEF DedupeInv
    <3>4. e \notin before[a[1]]
      BY <1>1, <3>1, AlertPairs DEF HistoryInv
    <3> QED
      BY <3>2, <3>3, <3>4 DEF Overlap
  <2>2. ASSUME NEW q \in Rules, NEW a \in Active(q)', NEW b \in Active(q)', a # b,
               {a, b} \cap reopened = {}
        PROVE  Overlap(a[1], b[1])
    <3>1. CASE a = new
      <4>1. q = r
        BY <1>0, <2>2, <3>1 DEF Active
      <4> QED
        BY <1>0, <2>1, <2>2, <3>1, <4>1 DEF Overlap
    <3>2. CASE b = new
      <4>1. q = r
        BY <1>0, <2>2, <3>2 DEF Active
      <4> QED
        BY <1>0, <2>1, <2>2, <3>2, <4>1
    <3>3. CASE a # new /\ b # new
      BY <1>9, <2>2, <3>3 DEF DedupeInv, DuplicatesOverlap
    <3> QED
      BY <3>1, <3>2, <3>3
  <2>3. DuplicatesOverlap'
    BY <2>2 DEF DuplicatesOverlap, Overlap
  <2>4. ASSUME NEW g \in Evals, pc'[g] = "alert", NEW a \in Active(rule[g])', a \notin reopened'
        PROVE  (a[1] \notin before[g])'
    <3>1. pc[g] = "alert" /\ rule[g] \in Rules /\ rule'[g] = rule[g]
      BY <1>1, <2>4 DEF TypeOK
    <3>2. CASE a = new
      BY <1>0, <1>1, <3>2 DEF HistoryInv
    <3>3. CASE a # new
      BY <1>9, <2>4, <3>1, <3>3 DEF DedupeInv
    <3> QED
      BY <3>2, <3>3
  <2> QED
    BY <2>3, <2>4 DEF DedupeInv
<1>12. SerialInv'
  <2> SUFFICES ASSUME Serial', reopened = {}
               PROVE  /\ \A q \in Rules : Active(q)' # {} => RowsOf(q)' # {}
                      /\ \A g \in Evals : pc'[g] \in {"dedupe", "alert"} => row[g] \subseteq breaches
                      /\ \A g \in Evals : pc'[g] = "commit" => Active(rule[g])' \subseteq found[g]
    BY DEF SerialInv
  <2>1. Serial
    BY <1>1, SerialShrinks
  <2>2. \A g \in Evals : pc[g] = "commit" => FALSE
    BY <1>1, <2>1 DEF Serial, Overlap, HistoryInv
  <2>3. RowsOf(r) # {}
    BY <1>a, <1>1, <2>1 DEF SerialInv, LoopInv, RowsInv, RowsOf
  <2>4. \A q \in Rules : Active(q)' # {} => RowsOf(q)' # {}
    BY <1>9, <2>1, <2>3 DEF SerialInv
  <2> QED
    BY <1>1, <2>1, <2>2, <2>4 DEF SerialInv
<1> QED
  BY <1>3, <1>4, <1>6, <1>7, <1>8, <1>11, <1>12

\* The transaction picks an active alert, if there is one.
LEMMA BeginResolveStep ==
  ASSUME EngineInv, NEW e \in Evals, BeginResolve(e)
  PROVE  EngineInv'
<1> USE DEF EngineInv, BeginResolve, GoTo, database, cursor, world, history
<1>0. PICK some \in AnyOf(Active(rule[e])) : found' = [found EXCEPT ![e] = some]
  OBVIOUS
<1>1. /\ some \subseteq Active(rule[e])
      /\ Active(rule[e]) # {} => some # {}
      /\ Active(rule[e]) \subseteq Alerts
  BY DEF AnyOf, Active
<1>2. rule[e] \in Rules /\ RowsOf(rule[e]) \subseteq breaches
  BY DEF TypeOK, RowsOf
<1>3. /\ pc[e] = "resolve" /\ pc'[e] = "commit" /\ \A f \in Evals \ {e} : pc'[f] = pc[f]
      /\ found'[e] = some /\ \A f \in Evals \ {e} : found'[f] = found[f]
      /\ row'[e] = RowsOf(rule[e]) /\ \A f \in Evals \ {e} : row'[f] = row[f]
  BY <1>0 DEF TypeOK
<1>4. TypeOK'
  <2>1. found' \in [Evals -> SUBSET Alerts]
    BY <1>0, <1>1 DEF TypeOK
  <2>2. row' \in [Evals -> SUBSET Row]
    BY <1>2 DEF TypeOK
  <2>3. pc' \in [Evals -> Steps]
    BY DEF TypeOK, Steps
  <2> QED
    BY <2>1, <2>2, <2>3 DEF TypeOK
<1>5. HistoryInv'
  BY <1>3 DEF HistoryInv, TypeOK
<1>6. \A f \in Evals : Looping(f) => Looping(f)'
  BY <1>3 DEF Looping
<1>7. RowsInv'
  <2>1. \A b \in Row : FromBreach(b) => FromBreach(b)'
    BY <1>6 DEF FromBreach, Row
  <2>2. \A b \in RowsOf(rule[e]) : FromBreach(b) /\ b.rule = rule[e]
    BY DEF RowsOf, RowsInv
  <2> QED
    BY <1>2, <1>3, <2>1, <2>2 DEF RowsInv, TypeOK
<1>8. LoopInv'
  BY <1>3 DEF LoopInv
<1>9. AlertsInv'
  BY <1>6 DEF AlertsInv
<1>10. \A r \in Rules : Active(r)' = Active(r) /\ RowsOf(r)' = RowsOf(r)
  BY DEF Active, RowsOf
<1>11. DedupeInv'
  <2>1. DuplicatesOverlap'
    BY <1>10 DEF DedupeInv, DuplicatesOverlap, Overlap
  <2>2. ASSUME NEW g \in Evals, pc'[g] = "alert", NEW a \in Active(rule[g])', a \notin reopened'
        PROVE  (a[1] \notin before[g])'
    <3>1. pc[g] = "alert" /\ rule[g] \in Rules /\ rule'[g] = rule[g]
      BY <1>3, <2>2 DEF TypeOK
    <3> QED
      BY <1>10, <2>2, <3>1 DEF DedupeInv
  <2> QED
    BY <2>1, <2>2 DEF DedupeInv
<1>12. SerialInv'
  <2> SUFFICES ASSUME Serial', reopened = {}
               PROVE  /\ \A q \in Rules : Active(q)' # {} => RowsOf(q)' # {}
                      /\ \A g \in Evals : pc'[g] \in {"dedupe", "alert"} => row'[g] \subseteq breaches
                      /\ \A g \in Evals : pc'[g] = "commit" => Active(rule[g])' \subseteq found'[g]
    BY DEF SerialInv
  <2>1. Serial
    BY <1>3, SerialShrinks
  <2>2. \A a, b \in Active(rule[e]) : a = b
    <3> SUFFICES ASSUME NEW a \in Active(rule[e]), NEW b \in Active(rule[e]), a # b
                 PROVE  FALSE
      OBVIOUS
    <3>1. Overlap(a[1], b[1])
      BY <1>2 DEF DedupeInv, DuplicatesOverlap
    <3>2. /\ a[1] \in Evals /\ b[1] \in Evals /\ Looping(a[1]) /\ Looping(b[1])
      BY AlertPairs DEF Active, AlertsInv, ActiveStatuses
    <3> QED
      BY <2>1, <3>1, <3>2 DEF Serial, Looping
  <2>3. Active(rule[e]) \subseteq some
    BY <1>1, <2>2
  <2>4. \A g \in Evals : rule[g] \in Rules
    BY DEF TypeOK
  <2> QED
    BY <1>3, <1>10, <2>1, <2>3, <2>4 DEF SerialInv
<1> QED
  BY <1>4, <1>5, <1>7, <1>8, <1>9, <1>11, <1>12

\* Alerts changed by anything but their creation: none comes to exist, and one
\* that becomes active is recorded as reopened.
LEMMA StatusStep ==
  ASSUME EngineInv, TypeOK',
         UNCHANGED <<sample, at, todo, held, before>>, breaches' \subseteq breaches,
         reopened \subseteq reopened',
         \A f \in Evals : pc'[f] # pc[f] => pc[f] = "commit" /\ pc'[f] \in {"next", "done"},
         \A a \in Alerts : /\ status[a] = "None" => status'[a] = "None"
                           /\ \/ status'[a] \in ActiveStatuses => status[a] \in ActiveStatuses
                              \/ a \in reopened',
         SerialInv'
  PROVE  EngineInv'
<1> USE DEF EngineInv, held
<1>1. HistoryInv'
  BY DEF HistoryInv, TypeOK
<1>2. \A f \in Evals : Looping(f) => Looping(f)'
  BY DEF Looping
<1>3. RowsInv'
  <2>1. \A b \in Row : FromBreach(b) => FromBreach(b)'
    BY <1>2 DEF FromBreach, Row
  <2> QED
    BY <2>1 DEF RowsInv, TypeOK
<1>4. LoopInv'
  BY DEF LoopInv
<1>5. AlertsInv'
  BY <1>2, AlertPairs DEF AlertsInv
<1>6. \A r \in Rules : \A a \in Active(r)' : a \in Active(r) \/ a \in reopened'
  BY DEF Active
<1>7. DedupeInv'
  <2>1. DuplicatesOverlap'
    BY <1>6 DEF DedupeInv, DuplicatesOverlap, Overlap
  <2>2. ASSUME NEW g \in Evals, pc'[g] = "alert", NEW a \in Active(rule[g])', a \notin reopened'
        PROVE  (a[1] \notin before[g])'
    <3>1. pc[g] = "alert" /\ rule[g] \in Rules /\ rule'[g] = rule[g]
      BY <2>2 DEF TypeOK
    <3> QED
      BY <1>6, <2>2, <3>1 DEF DedupeInv
  <2> QED
    BY <2>1, <2>2 DEF DedupeInv
<1> QED
  BY <1>1, <1>3, <1>4, <1>5, <1>7

\* The commit deletes the row and resolves the alert that stood for it.
LEMMA CommitResolveStep ==
  ASSUME EngineInv, NEW e \in Evals, CommitResolve(e),
         ~ \E a \in found[e] : status[a] = "None"
  PROVE  EngineInv'
<1> USE DEF EngineInv, CommitResolve, GoTo, Continue, cursor, world
<1>1. /\ pc[e] = "commit" /\ pc'[e] \in {"next", "done"} /\ \A f \in Evals \ {e} : pc'[f] = pc[f]
      /\ UNCHANGED <<before, reopened>>
  BY DEF TypeOK, Resume
<1>2. \A a \in Alerts : status'[a] = IF a \in found[e] THEN "RESOLVED" ELSE status[a]
  BY DEF ResolvedStatus
<1>3. \A a \in Alerts : /\ status[a] = "None" => status'[a] = "None"
                        /\ status'[a] \in ActiveStatuses =>
                             status[a] \in ActiveStatuses /\ a \notin found[e]
  BY <1>2 DEF ActiveStatuses
<1>4. TypeOK'
  <2>1. pc' \in [Evals -> Steps]
    BY DEF TypeOK, Steps, Resume
  <2>2. status' \in [Alerts -> Statuses]
    BY DEF TypeOK, Statuses, ResolvedStatus
  <2>3. /\ breaches' \subseteq breaches /\ aborted' = aborted
        /\ UNCHANGED <<maintenance, enabled, cursor, held, world, before, reopened>>
    OBVIOUS
  <2> QED
    BY <2>1, <2>2, <2>3 DEF TypeOK, held
<1>5. SerialInv'
  <2> SUFFICES ASSUME Serial', reopened = {}
               PROVE  /\ \A q \in Rules : Active(q)' # {} => RowsOf(q)' # {}
                      /\ \A g \in Evals : pc'[g] \in {"dedupe", "alert"} => row[g] \subseteq breaches'
                      /\ \A g \in Evals : pc'[g] = "commit" => Active(rule[g])' \subseteq found[g]
    BY <1>1 DEF SerialInv, held
  <2>1. Serial
    BY <1>1, SerialShrinks
  <2>2. \A g \in Evals : pc'[g] \notin {"dedupe", "alert", "commit"}
    BY <1>1, <2>1 DEF Serial, Overlap, HistoryInv
  <2>3. \A q \in Rules : Active(q)' \subseteq Active(q) \ found[e]
    BY <1>3 DEF Active
  <2>4. \A b \in row[e] : b.rule = rule[e]
    BY DEF RowsInv
  <2>5. ASSUME NEW q \in Rules, Active(q)' # {}
        PROVE  RowsOf(q)' # {}
    <3>1. q # rule[e]
      BY <1>1, <2>1, <2>3, <2>5 DEF SerialInv
    <3>2. RowsOf(q) # {}
      BY <2>1, <2>3, <2>5 DEF SerialInv
    <3>3. RowsOf(q) \subseteq RowsOf(q)'
      BY <2>4, <3>1 DEF RowsOf
    <3> QED
      BY <3>2, <3>3
  <2> QED
    BY <2>2, <2>5
<1>6. /\ breaches' \subseteq breaches /\ reopened \subseteq reopened'
      /\ UNCHANGED <<sample, at, todo, held, before>>
  <2>1. breaches' = breaches \ row[e]
    OBVIOUS
  <2>2. reopened' = reopened
    OBVIOUS
  <2>3. UNCHANGED <<sample, at, todo, before>>
    OBVIOUS
  <2>4. UNCHANGED held
    OBVIOUS
  <2> QED
    BY <2>1, <2>2, <2>3, <2>4
<1> HIDE DEF CommitResolve
<1>7. \A f \in Evals : pc'[f] # pc[f] => pc[f] = "commit" /\ pc'[f] \in {"next", "done"}
  BY <1>1
<1>8. \A a \in Alerts : /\ status[a] = "None" => status'[a] = "None"
                        /\ \/ status'[a] \in ActiveStatuses => status[a] \in ActiveStatuses
                           \/ a \in reopened'
  BY <1>3
<1> HIDE DEF EngineInv
<1> QED
  BY <1>4, <1>5, <1>6, <1>7, <1>8, StatusStep

LEMMA SetStatusStep ==
  ASSUME EngineInv, NEW a \in Alerts, NEW new \in {"None", "ACKNOWLEDGED", "RESOLVED", "SNOOZED"},
         SetStatus(a, new) \/ (new = "None" /\ DeleteAlert(a))
  PROVE  EngineInv'
<1> USE DEF EngineInv, cursor, held, world, history
<1>1. /\ status[a] # "None" /\ status' = [status EXCEPT ![a] = new]
      /\ UNCHANGED <<breaches, cursor, pc, held, world, before, aborted, maintenance, enabled>>
      /\ reopened \subseteq reopened' /\ reopened' \subseteq reopened \cup {a}
      /\ new \in ActiveStatuses /\ status[a] \notin ActiveStatuses => a \in reopened'
  BY DEF SetStatus, DeleteAlert, ActiveStatuses
<1>2. \A b \in Alerts : /\ status[b] = "None" => status'[b] = "None"
                        /\ \/ status'[b] \in ActiveStatuses => status[b] \in ActiveStatuses
                           \/ b \in reopened'
  BY <1>1 DEF TypeOK
<1>3. TypeOK'
  BY <1>1 DEF TypeOK, Statuses
<1>4. SerialInv'
  <2>1. Serial' => Serial
    BY <1>1, SerialShrinks
  <2>2. reopened' = {} => /\ reopened = {}
                          /\ \A r \in Rules : Active(r)' \subseteq Active(r)
    BY <1>1, <1>2 DEF Active
  <2>3. \A r \in Rules : RowsOf(r)' = RowsOf(r)
    BY <1>1 DEF RowsOf
  <2> QED
    BY <1>1, <2>1, <2>2, <2>3 DEF SerialInv, TypeOK
<1>5. /\ breaches' \subseteq breaches /\ reopened \subseteq reopened'
      /\ UNCHANGED <<sample, at, todo, held, before>>
  BY <1>1
<1>6. \A f \in Evals : pc'[f] # pc[f] => pc[f] = "commit" /\ pc'[f] \in {"next", "done"}
  BY <1>1
<1> HIDE DEF EngineInv, cursor, held, world, history
<1> QED
  BY <1>2, <1>3, <1>4, <1>5, <1>6, StatusStep

\* Every step keeps the invariant.
LEMMA StepEngineInv == EngineInv /\ [Next]_vars => EngineInv'
<1> SUFFICES ASSUME EngineInv, [Next]_vars PROVE EngineInv'
  OBVIOUS
<1> USE DEF EngineInv
<1>1. ASSUME NEW e \in Evals, CreateBreach(e) PROVE EngineInv'
  <2>1. CASE KeyTaken(rule[e])
    <3>1. TypeOK'
      BY <1>1, <2>1 DEF CreateBreach, Throw, GoTo, TypeOK, Steps, cursor, held, world
    <3> QED
      BY <1>1, <2>1, <3>1, FrameStep DEF CreateBreach, Throw, GoTo, TypeOK, cursor
  <2> QED
    BY <1>1, <2>1, CreateBreachStep
<1>2. ASSUME NEW e \in Evals, UpdateBreach(e) PROVE EngineInv'
  <2>1. CASE RowGone(e) \/ ~LongEnough(e)
    <3>1. TypeOK'
      BY <1>2, <2>1 DEF UpdateBreach, Throw, Continue, Resume, GoTo, TypeOK, Steps,
                        database, cursor, held, world
    <3> QED
      BY <1>2, <2>1, <3>1, FrameStep
         DEF UpdateBreach, Throw, Continue, Resume, GoTo, TypeOK, cursor, database
  <2>2. CASE ~RowGone(e) /\ LongEnough(e)
    BY <1>2, <2>2, AskStep DEF UpdateBreach, history
  <2> QED
    BY <2>1, <2>2
<1>3. ASSUME NEW e \in Evals, FindAlert(e) PROVE EngineInv'
  <2>1. CASE AlreadyAlerted(e)
    <3>1. TypeOK'
      BY <1>3, <2>1 DEF FindAlert, Continue, Resume, GoTo, TypeOK, Steps,
                        database, cursor, held, world, history
    <3> QED
      BY <1>3, <2>1, <3>1, FrameStep
         DEF FindAlert, Continue, Resume, GoTo, TypeOK, cursor, database, history
  <2>2. CASE ~AlreadyAlerted(e)
    BY <1>3, <2>2, AskStep DEF FindAlert, AlreadyAlerted
  <2> QED
    BY <2>1, <2>2
<1>4. ASSUME NEW e \in Evals, CommitResolve(e) PROVE EngineInv'
  <2>1. CASE \E a \in found[e] : status[a] = "None"
    <3>1. TypeOK'
      BY <1>4, <2>1 DEF CommitResolve, Throw, GoTo, TypeOK, Steps, cursor, held, world
    <3> QED
      BY <1>4, <2>1, <3>1, FrameStep DEF CommitResolve, Throw, GoTo, TypeOK, cursor
  <2> QED
    BY <1>4, <2>1, CommitResolveStep
<1>5. ASSUME NEW e \in Evals, DatabaseFails(e) PROVE EngineInv'
  <2>1. TypeOK'
    BY <1>5 DEF DatabaseFails, Throw, GoTo, TypeOK, Steps, database, cursor, held
  <2> QED
    BY <1>5, <2>1, FrameStep DEF DatabaseFails, Throw, GoTo, TypeOK, cursor, database
<1>6. CASE Operate
  <2>1. ASSUME SetMaintenance \/ \E r \in Rules : ToggleRule(r) PROVE EngineInv'
    <3>1. TypeOK'
      BY <2>1 DEF SetMaintenance, ToggleRule, TypeOK, cursor, held, world, history
    <3> QED
      BY <2>1, <3>1, FrameStep DEF SetMaintenance, ToggleRule, cursor, history
  <2>2. ASSUME NEW a \in Alerts, DeleteAlert(a) PROVE EngineInv'
    BY <2>2, SetStatusStep
  <2>3. ASSUME NEW a \in Alerts, NEW new \in {"ACKNOWLEDGED", "RESOLVED", "SNOOZED"},
               SetStatus(a, new)
        PROVE  EngineInv'
    BY <2>3, SetStatusStep
  <2> QED
    BY <1>6, <2>1, <2>2, <2>3 DEF Operate
<1>7. CASE Tick
  <2>1. TypeOK'
    BY <1>7 DEF Tick, TypeOK, Time, database, cursor, held, history
  <2> QED
    BY <1>7, <2>1, FrameStep DEF Tick, cursor, database, history
<1>8. CASE UNCHANGED vars
  <2>1. TypeOK'
    BY <1>8 DEF vars, TypeOK, database, cursor, held, world, history
  <2> QED
    BY <1>8, <2>1, FrameStep DEF vars, cursor, database, history
<1>9. ASSUME NEW e \in Evals, Evaluate(e) PROVE EngineInv'
  BY <1>1, <1>2, <1>3, <1>4, <1>9, ReadDeviceStep, ReadRulesStep, ReadBreachStep,
     CreateAlertStep, BeginResolveStep DEF Evaluate
<1> QED
  BY <1>5, <1>6, <1>7, <1>8, <1>9 DEF Next

-----------------------------------------------------------------------------
\* The strengthening holds in every reachable state.
THEOREM EngineInvariant == Spec => []EngineInv
  BY InitEngineInv, StepEngineInv, PTL DEF Spec

\* Every reachable state is well typed, with one breach row per rule.
THEOREM TypeCorrect == Spec => []TypeOK
<1>1. EngineInv => TypeOK
  BY DEF EngineInv
<1> QED
  BY <1>1, EngineInvariant, PTL

\* No alert without a breach that lasted, whatever overlaps and fails.
THEOREM AlertsAreBacked == Spec => []BackedByBreach
<1>1. EngineInv => BackedByBreach
  BY DEF EngineInv, AlertsInv, BackedByBreach
<1> QED
  BY <1>1, EngineInvariant, PTL

\* Deduplication is defeated by overlap or by an operator only.
THEOREM OnlyOverlapDuplicates == Spec => []DuplicatesOverlap
<1>1. EngineInv => DuplicatesOverlap
  BY DEF EngineInv, DedupeInv
<1> QED
  BY <1>1, EngineInvariant, PTL

\* Evaluated one snapshot at a time, every active alert can be resolved.
THEOREM SerialEvaluationResolves == Spec => []SerialAlertsResolve
<1>1. EngineInv => SerialAlertsResolve
  BY DEF EngineInv, SerialInv, SerialAlertsResolve
<1> QED
  BY <1>1, EngineInvariant, PTL

-----------------------------------------------------------------------------
(* The monitor that a calm engine implements.                              *)

Calm    == Serial /\ reopened = {}
Running == {[rule |-> b.rule, since |-> b.first] : b \in breaches}
Raised  == UNION {Active(r) : r \in Rules}

\* What an evaluation knows of its reading, and of what its transaction has found.
ReadingInv ==
  /\ \A e \in Evals : at[e] <= clock
  /\ \A e \in Evals : \A r \in todo[e] : sample[e][r] # "absent"
  /\ \A e \in Evals : pc[e] \in {"resolve", "commit"} => sample[e][rule[e]] = "fine"
  /\ \A e \in Evals : pc[e] = "commit" => \A a \in found[e] : a[2] = rule[e]

\* One at a time, a transaction has found all rows of its rule.
FoundInv ==
  Serial => \A e \in Evals : pc[e] = "commit" => RowsOf(rule[e]) \subseteq row[e]

\* Without overlap, one evaluation at most is under way.
LEMMA OneAtATime ==
  ASSUME HistoryInv, Serial, NEW e \in Evals, NEW f \in Evals,
         pc[e] \notin {"new", "done"}, pc[f] \notin {"new", "done"}
  PROVE  e = f
BY DEF HistoryInv, Serial, Overlap

LEMMA CalmShrinks ==
  ASSUME EngineInv, [Next]_vars
  PROVE  Serial' => Serial
<1>1. ASSUME UNCHANGED before, \A f \in Evals : pc[f] # "new" => pc'[f] # "new"
      PROVE  Serial' => Serial
  BY <1>1, SerialShrinks DEF EngineInv
<1>2. CASE UNCHANGED vars
  BY <1>1, <1>2 DEF vars, history
<1>3. ASSUME NEW e \in Evals, ReadDevice(e) PROVE Serial' => Serial
  <2>1. /\ pc[e] = "new"
        /\ \A f \in Evals \ {e} : pc'[f] = pc[f] /\ before'[f] = before[f]
    BY <1>3 DEF ReadDevice, GoTo, EngineInv, TypeOK
  <2>2. QED
    BY <2>1 DEF Serial, Overlap
<1>4. ASSUME NEW e \in Evals, Evaluate(e) \/ DatabaseFails(e), ~ReadDevice(e) PROVE Serial' => Serial
  <2>1. UNCHANGED before
    BY <1>4 DEF Evaluate, ReadRules, ReadBreach, CreateBreach, UpdateBreach, FindAlert,
                CreateAlert, BeginResolve, CommitResolve, DatabaseFails, history
  <2>2. \E place \in Steps \ {"new"} : pc' = [pc EXCEPT ![e] = place]
    BY <1>4 DEF Evaluate, ReadRules, ReadBreach, CreateBreach, UpdateBreach, FindAlert, CreateAlert,
                BeginResolve, CommitResolve, DatabaseFails, Throw, Continue, Resume, GoTo, Steps
  <2>3. QED
    BY <1>1, <2>1, <2>2 DEF EngineInv, TypeOK
<1>5. CASE Operate \/ Tick
  BY <1>1, <1>5 DEF Operate, Tick, SetStatus, DeleteAlert, SetMaintenance, ToggleRule, history
<1>6. QED
  BY <1>2, <1>3, <1>4, <1>5 DEF Next

LEMMA ReadingStep ==
  ASSUME EngineInv, ReadingInv, [Next]_vars
  PROVE  ReadingInv'
<1> USE DEF EngineInv, TypeOK
<1>1. ASSUME UNCHANGED <<sample, at, todo, rule, found>>, clock' \in {clock, clock + 1},
             \A e \in Evals : pc'[e] \in {"resolve", "commit"} => pc'[e] = pc[e]
      PROVE  ReadingInv'
  BY <1>1 DEF ReadingInv, Time
<1>2. CASE UNCHANGED vars
  BY <1>1, <1>2 DEF vars, cursor, held, world
<1>3. ASSUME NEW e \in Evals, ReadRules(e) PROVE ReadingInv'
  <2>1. /\ UNCHANGED <<sample, rule, found, clock>>
        /\ pc'[e] \in {"next", "done"}
        /\ todo'[e] \subseteq {r \in Rules : sample[e][r] # "absent"} /\ at'[e] = clock
        /\ \A f \in Evals \ {e} : pc'[f] = pc[f] /\ todo'[f] = todo[f] /\ at'[f] = at[f]
    BY <1>3 DEF ReadRules, GoTo, held, world
  <2>2. \A f \in Evals : at'[f] <= clock'
    <3>1. clock \in Nat
      BY DEF Time
    <3>2. \A f \in Evals : at[f] <= clock
      BY DEF ReadingInv
    <3>3. at'[e] <= clock' /\ \A f \in Evals \ {e} : at'[f] <= clock'
      <4> HIDE DEF EngineInv, TypeOK
      <4>1. at'[e] <= clock'
        BY <2>1, <3>1
      <4>2. \A f \in Evals \ {e} : at'[f] <= clock'
        BY <2>1, <3>2
      <4>3. QED
        BY <4>1, <4>2
    <3>4. QED
      BY <3>3
  <2>3. \A f \in Evals : \A r \in todo'[f] : sample'[f][r] # "absent"
    BY <2>1 DEF ReadingInv
  <2>4. \A f \in Evals : pc'[f] \in {"resolve", "commit"} => f # e /\ pc'[f] = pc[f]
    BY <2>1
  <2>5. QED
    BY <2>1, <2>2, <2>3, <2>4 DEF ReadingInv
<1>4. ASSUME NEW e \in Evals, NEW r \in Rules, ReadBreach(e, r) PROVE ReadingInv'
  <2>1. /\ UNCHANGED <<sample, at, found, clock>>
        /\ pc'[e] = "resolve" => sample[e][r] # "breach"
        /\ pc'[e] # "commit"
        /\ r \in todo[e] /\ todo'[e] \subseteq todo[e] /\ rule'[e] = r
        /\ \A f \in Evals \ {e} : pc'[f] = pc[f] /\ todo'[f] = todo[f] /\ rule'[f] = rule[f]
    BY <1>4 DEF ReadBreach, GoTo, Resume, world
  <2>2. sample[e][r] \in {"breach", "fine", "absent"}
    OBVIOUS
  <2>3. \A f \in Evals : \A q \in todo'[f] : sample'[f][q] # "absent"
    <3>1. \A f \in Evals : todo'[f] \subseteq todo[f]
      BY <2>1
    <3>2. QED
      BY <2>1, <3>1 DEF ReadingInv
  <2>4. \A f \in Evals : pc'[f] \in {"resolve", "commit"} => sample'[f][rule'[f]] = "fine"
    BY <2>1, <2>2 DEF ReadingInv
  <2>5. \A f \in Evals : pc'[f] = "commit" => \A a \in found'[f] : a[2] = rule'[f]
    BY <2>1 DEF ReadingInv
  <2>6. QED
    BY <2>1, <2>3, <2>4, <2>5 DEF ReadingInv
<1>5. ASSUME NEW e \in Evals, BeginResolve(e) PROVE ReadingInv'
  <2>1. PICK some \in AnyOf(Active(rule[e])) : found' = [found EXCEPT ![e] = some]
    BY <1>5 DEF BeginResolve
  <2>2. \A a \in some : a[2] = rule[e]
    BY <2>1 DEF AnyOf, Active
  <2>3. /\ UNCHANGED <<sample, at, todo, rule, clock>>
        /\ pc[e] = "resolve"
        /\ \A f \in Evals \ {e} : pc'[f] = pc[f] /\ found'[f] = found[f]
        /\ found'[e] = some
    BY <1>5, <2>1 DEF BeginResolve, GoTo, cursor, world
  <2>4. QED
    BY <2>2, <2>3 DEF ReadingInv
<1>6. ASSUME NEW e \in Evals,
             ReadDevice(e) \/ CreateBreach(e) \/ UpdateBreach(e) \/ FindAlert(e) \/ CreateAlert(e)
               \/ CommitResolve(e) \/ DatabaseFails(e)
      PROVE  ReadingInv'
  <2>1. UNCHANGED <<sample, at, todo, rule, found, clock>>
    BY <1>6 DEF ReadDevice, CreateBreach, UpdateBreach, FindAlert, CreateAlert, CommitResolve,
                DatabaseFails, cursor, held, world
  <2>2. \E place \in Steps \ {"resolve", "commit"} : pc' = [pc EXCEPT ![e] = place]
    BY <1>6 DEF ReadDevice, CreateBreach, UpdateBreach, FindAlert, CreateAlert, CommitResolve,
                DatabaseFails, Throw, Continue, Resume, GoTo, Steps
  <2>3. QED
    BY <1>1, <2>1, <2>2
<1>7. CASE Operate \/ Tick
  BY <1>1, <1>7
  DEF Operate, Tick, SetStatus, DeleteAlert, SetMaintenance, ToggleRule, cursor, held, world
<1>8. QED
  BY <1>2, <1>3, <1>4, <1>5, <1>6, <1>7 DEF Next, Evaluate

LEMMA FoundStep ==
  ASSUME EngineInv, FoundInv, [Next]_vars
  PROVE  FoundInv'
<1> SUFFICES ASSUME Serial', NEW e \in Evals, pc'[e] = "commit"
             PROVE  RowsOf(rule[e])' \subseteq row'[e]
  BY DEF FoundInv
<1> USE DEF EngineInv, TypeOK
<1>1. Serial
  BY CalmShrinks
<1>2. ASSUME pc[e] = "commit", rule'[e] = rule[e], row'[e] = row[e], breaches' \subseteq breaches
      PROVE  RowsOf(rule[e])' \subseteq row'[e]
  BY <1>1, <1>2 DEF FoundInv, RowsOf
<1>3. CASE UNCHANGED vars
  BY <1>2, <1>3 DEF vars, database, held
<1>4. CASE BeginResolve(e)
  BY <1>4 DEF BeginResolve, RowsOf, database
<1>5. ASSUME NEW f \in Evals, CreateBreach(f) PROVE FALSE
  <2>1. pc[f] = "create" /\ pc'[f] # "commit" /\ \A g \in Evals \ {f} : pc'[g] = pc[g]
    BY <1>5 DEF CreateBreach, Throw, Continue, Resume, GoTo
  <2>2. QED
    BY <1>1, <2>1, OneAtATime
<1>6. ASSUME NEW f \in Evals, \E r \in Rules : ReadBreach(f, r)
      PROVE  RowsOf(rule[e])' \subseteq row'[e]
  <2>1. pc'[f] # "commit" /\ \A g \in Evals \ {f} : pc'[g] = pc[g] /\ rule'[g] = rule[g] /\ row'[g] = row[g]
    BY <1>6 DEF ReadBreach, Resume, GoTo
  <2>2. breaches' = breaches
    BY <1>6 DEF ReadBreach, database
  <2>3. QED
    BY <1>2, <2>1, <2>2
<1>7. ASSUME NEW f \in Evals, BeginResolve(f), f # e PROVE RowsOf(rule[e])' \subseteq row'[e]
  BY <1>2, <1>7 DEF BeginResolve, GoTo, database
<1>8. ASSUME NEW f \in Evals,
             ReadDevice(f) \/ ReadRules(f) \/ UpdateBreach(f) \/ FindAlert(f) \/ CreateAlert(f)
               \/ CommitResolve(f) \/ DatabaseFails(f)
      PROVE  RowsOf(rule[e])' \subseteq row'[e]
  <2>1. UNCHANGED <<rule, row>> /\ breaches' \subseteq breaches
    BY <1>8 DEF ReadDevice, ReadRules, UpdateBreach, FindAlert, CreateAlert, CommitResolve,
                DatabaseFails, database, held
  <2>2. \E place \in Steps \ {"commit"} : pc' = [pc EXCEPT ![f] = place]
    BY <1>8 DEF ReadDevice, ReadRules, UpdateBreach, FindAlert, CreateAlert, CommitResolve,
                DatabaseFails, Throw, Continue, Resume, GoTo, Steps
  <2>3. QED
    BY <1>2, <2>1, <2>2
<1>9. CASE Operate \/ Tick
  BY <1>2, <1>9
  DEF Operate, Tick, SetStatus, DeleteAlert, SetMaintenance, ToggleRule, database, held
<1>10. QED
  BY <1>3, <1>4, <1>5, <1>6, <1>7, <1>8, <1>9 DEF Next, Evaluate

LEMMA CalmInit == Init => ReadingInv /\ FoundInv
BY DEF Init, ReadingInv, FoundInv

LEMMA RaisedIs == Raised = {a \in Alerts : status[a] \in ActiveStatuses}
BY AlertPairs DEF Raised, Active

LEMMA AlertOfIs ==
  ASSUME NEW r \in Rules
  PROVE  Monitor!AlertOf(r) = Active(r)
BY DEF Monitor!AlertOf, Active

LEMMA RunningOf ==
  ASSUME NEW r \in Rules
  PROVE  Monitor!Of(r, Running) = {[rule |-> b.rule, since |-> b.first] : b \in RowsOf(r)}
BY DEF Monitor!Of, Running, RowsOf

\* What neither the database nor the clock notices.
Quiet == UNCHANGED <<clock, Running, Raised>>

LEMMA StaysQuiet ==
  ASSUME UNCHANGED <<breaches, status, clock>>
  PROVE  Quiet
BY DEF Quiet, Running, Raised, Active

LEMMA CreateBreachStarts ==
  ASSUME EngineInv, ReadingInv, NEW e \in Evals, NEW r \in Rules, r = rule[e],
         CreateBreach(e)
  PROVE  Quiet \/ (clock' = clock /\ Monitor!Start(e, r))
<1>1. CASE KeyTaken(r)
  BY <1>1, StaysQuiet DEF CreateBreach, world
<1>2. CASE ~KeyTaken(r)
  <2>1. /\ breaches' = breaches \cup {[rule |-> r, id |-> e, first |-> at[e]]}
        /\ UNCHANGED <<clock, status>>
        /\ pc[e] = "create"
    BY <1>2 DEF CreateBreach, world
  <2>2. sample[e][r] = "breach"
    BY <2>1 DEF EngineInv, LoopInv, TypeOK
  <2>3. at[e] \in 0..clock
    <3>1. at[e] \in Nat /\ clock \in Nat
      BY DEF EngineInv, TypeOK, Time
    <3>2. at[e] <= clock
      BY DEF ReadingInv
    <3>3. QED
      BY <3>1, <3>2
  <2>4. Running' = Running \cup {[rule |-> r, since |-> at[e]]}
    <3> DEFINE b == [rule |-> r, id |-> e, first |-> at[e]]
               R(x) == [rule |-> x.rule, since |-> x.first]
    <3>1. breaches' = breaches \cup {b} /\ b.rule = r /\ b.first = at[e]
      BY <2>1
    <3> HIDE DEF b
    <3>2. {R(x) : x \in breaches'} = {R(x) : x \in breaches} \cup {R(b)}
      BY <3>1
    <3>3. QED
      BY <3>1, <3>2 DEF Running
  <2>5. Monitor!Of(r, Running) = {}
    BY <1>2, RunningOf DEF KeyTaken
  <2>6. Raised' = Raised
    BY <2>1 DEF Raised, Active
  <2>7. Monitor!Start(e, r)
    BY <2>2, <2>3, <2>4, <2>5, <2>6 DEF Monitor!Start, Running, Raised
  <2>8. QED
    BY <2>1, <2>7
<1>3. QED
  BY <1>1, <1>2

\* An evaluation has not raised the alert that it is still looking at, or has not
\* come to yet.
Raising == {"create", "update", "dedupe", "alert"}
OwnInv ==
  \A e \in Evals, r \in Rules : status[<<e, r>>] # "None" =>
    r \notin todo[e] /\ (pc[e] \in Raising => rule[e] # r)

LEMMA OwnStep ==
  ASSUME EngineInv, OwnInv, [Next]_vars
  PROVE  OwnInv'
<1>1. ASSUME UNCHANGED todo,
             \A a \in Alerts : status[a] = "None" => status'[a] = "None",
             \A f \in Evals : pc'[f] \in Raising => pc[f] \in Raising /\ rule'[f] = rule[f]
      PROVE  OwnInv'
  BY <1>1, AlertPairs DEF OwnInv
<1>2. CASE UNCHANGED vars
  BY <1>1, <1>2 DEF vars, database, cursor, held
<1>3. ASSUME NEW e \in Evals, ReadRules(e) PROVE OwnInv'
  <2>1. \A r \in Rules : status[<<e, r>>] = "None"
    BY <1>3 DEF ReadRules, EngineInv, AlertsInv, Looping
  <2>2. /\ UNCHANGED <<status, rule>>
        /\ \A f \in Evals \ {e} : pc'[f] = pc[f] /\ todo'[f] = todo[f]
    BY <1>3 DEF ReadRules, GoTo, database, held, EngineInv, TypeOK
  <2>3. QED
    BY <2>1, <2>2 DEF OwnInv
<1>4. ASSUME NEW e \in Evals, NEW r \in Rules, ReadBreach(e, r) PROVE OwnInv'
  <2>1. /\ UNCHANGED status
        /\ r \in todo[e] /\ todo'[e] = todo[e] \ {r} /\ rule'[e] = r
        /\ \A f \in Evals \ {e} : pc'[f] = pc[f] /\ todo'[f] = todo[f] /\ rule'[f] = rule[f]
    BY <1>4 DEF ReadBreach, GoTo, database, EngineInv, TypeOK
  <2>2. status[<<e, r>>] = "None"
    BY <2>1 DEF OwnInv
  <2>3. QED
    BY <2>1, <2>2 DEF OwnInv
<1>5. ASSUME NEW e \in Evals, CreateAlert(e) PROVE OwnInv'
  <2>1. rule[e] \in Rules /\ rule[e] \notin todo[e]
    BY <1>5 DEF CreateAlert, EngineInv, LoopInv, TypeOK
  <2>2. /\ UNCHANGED <<todo, rule>>
        /\ pc'[e] \in {"next", "done"} /\ \A f \in Evals \ {e} : pc'[f] = pc[f]
        /\ \A a \in Alerts : a # <<e, rule[e]>> => status'[a] = status[a]
    BY <1>5 DEF CreateAlert, Continue, Resume, GoTo, cursor, held, EngineInv, TypeOK
  <2>3. ASSUME NEW f \in Evals, NEW r \in Rules, status'[<<f, r>>] # "None"
        PROVE  r \notin todo'[f] /\ (pc'[f] \in Raising => rule'[f] # r)
    <3>1. CASE f = e /\ r = rule[e]
      BY <2>1, <2>2, <3>1 DEF Raising
    <3>2. CASE ~(f = e /\ r = rule[e])
      <4>1. status[<<f, r>>] # "None"
        BY <2>2, <2>3, <3>2, AlertPairs
      <4>2. r \notin todo[f] /\ (pc[f] \in Raising => rule[f] # r)
        BY <4>1 DEF OwnInv
      <4>3. QED
        BY <2>2, <4>2 DEF Raising
    <3>3. QED
      BY <3>1, <3>2
  <2>4. QED
    BY <2>3 DEF OwnInv
<1>6. ASSUME NEW e \in Evals, CommitResolve(e) PROVE OwnInv'
  <2>1. \A a \in Alerts : status[a] = "None" => status'[a] = "None"
    BY <1>6 DEF CommitResolve, ResolvedStatus
  <2>2. QED
    BY <1>1, <1>6, <2>1
    DEF CommitResolve, Throw, Continue, Resume, GoTo, cursor, held, Raising, EngineInv, TypeOK
<1>7. ASSUME NEW e \in Evals, UpdateBreach(e) \/ FindAlert(e) PROVE OwnInv'
  <2>1. UNCHANGED <<status, todo, rule>>
    BY <1>7 DEF UpdateBreach, FindAlert, database, cursor, held
  <2>2. pc[e] \in Raising /\ \A f \in Evals \ {e} : pc'[f] = pc[f]
    BY <1>7 DEF UpdateBreach, FindAlert, Throw, Continue, GoTo, Raising, EngineInv, TypeOK
  <2>3. QED
    BY <1>1, <2>1, <2>2
<1>8. ASSUME NEW e \in Evals,
             ReadDevice(e) \/ CreateBreach(e) \/ BeginResolve(e) \/ DatabaseFails(e)
      PROVE  OwnInv'
  <2>1. UNCHANGED <<status, todo, rule>>
    BY <1>8 DEF ReadDevice, CreateBreach, BeginResolve, DatabaseFails, database, cursor, held
  <2>2. \E place \in {"rules", "next", "done", "commit"} : pc' = [pc EXCEPT ![e] = place]
    BY <1>8 DEF ReadDevice, CreateBreach, BeginResolve, DatabaseFails, Throw, Continue, Resume, GoTo
  <2>3. QED
    BY <1>1, <2>1, <2>2 DEF Raising, EngineInv, TypeOK
<1>9. ASSUME Operate \/ Tick PROVE OwnInv'
  <2>1. UNCHANGED <<todo, pc, rule>>
    BY <1>9 DEF Operate, Tick, SetStatus, DeleteAlert, SetMaintenance, ToggleRule, cursor, held
  <2>2. \A a \in Alerts : status[a] = "None" => status'[a] = "None"
    BY <1>9
    DEF Operate, Tick, SetStatus, DeleteAlert, SetMaintenance, ToggleRule, database, EngineInv, TypeOK
  <2>3. QED
    BY <1>1, <2>1, <2>2
<1>10. QED
  BY <1>2, <1>3, <1>4, <1>5, <1>6, <1>7, <1>8, <1>9 DEF Next, Evaluate

\* With nobody else at work, what the deduplication saw still holds.
LEMMA NoneActive ==
  ASSUME EngineInv, OwnInv, Calm, NEW e \in Evals, pc[e] = "alert"
  PROVE  Active(rule[e]) = {}
<1> SUFFICES ASSUME NEW a \in Active(rule[e]) PROVE FALSE
  OBVIOUS
<1>1. a \in Alerts /\ a[1] \in Evals /\ a[2] = rule[e] /\ a = <<a[1], a[2]>> /\ status[a] # "None"
  BY AlertPairs DEF Active, ActiveStatuses
<1>2. a[1] \notin before[e]
  BY DEF EngineInv, DedupeInv, Calm
<1>3. e \notin before[a[1]]
  BY <1>1 DEF EngineInv, HistoryInv
<1>4. Looping(a[1])
  <2>1. rule[e] \in Rules
    BY DEF EngineInv, TypeOK
  <2>2. QED
    BY <1>1, <2>1 DEF EngineInv, AlertsInv
<1>5. a[1] = e
  BY <1>1, <1>2, <1>3, <1>4 DEF Calm, Serial, Overlap, Looping
<1>6. rule[e] \in Rules
  BY DEF EngineInv, TypeOK
<1>7. QED
  BY <1>1, <1>5, <1>6 DEF OwnInv, Raising
LEMMA CreateAlertRaises ==
  ASSUME EngineInv, ReadingInv, OwnInv, Calm, NEW e \in Evals, NEW r \in Rules, r = rule[e],
         CreateAlert(e)
  PROVE  Quiet \/ (clock' = clock /\ Monitor!Raise(e, r))
<1> DEFINE new == <<e, r>>
<1>1. /\ pc[e] = "alert" /\ UNCHANGED <<clock, breaches>>
      /\ status' = [status EXCEPT ![new] = IF suppress[e] THEN "SUPPRESS" ELSE "NEW"]
  BY DEF CreateAlert, world
<1>2. r \in Rules /\ new \in Alerts /\ status \in [Alerts -> Statuses]
  BY AlertPairs DEF EngineInv, TypeOK
<1>3. Active(r) = {}
  BY <1>1, NoneActive
<1>4. status[new] \notin ActiveStatuses
  BY <1>2, <1>3 DEF Active
<1>5. Running' = Running
  BY <1>1 DEF Running
<1>6. CASE suppress[e]
  <2>1. \A a \in Alerts : status'[a] \in ActiveStatuses <=> status[a] \in ActiveStatuses
    BY <1>1, <1>2, <1>4, <1>6 DEF ActiveStatuses
  <2>2. Raised' = Raised
    BY <2>1 DEF Raised, Active
  <2>3. QED
    BY <1>1, <1>5, <2>2 DEF Quiet
<1>7. CASE ~suppress[e]
  <2>1. \A a \in Alerts : status'[a] \in ActiveStatuses <=> status[a] \in ActiveStatuses \/ a = new
    BY <1>1, <1>2, <1>7 DEF ActiveStatuses
  <2>2. Raised' = Raised \cup {new}
    <3>1. Raised' = {a \in Alerts : status'[a] \in ActiveStatuses}
      BY AlertPairs DEF Raised, Active
    <3>2. QED
      BY <1>2, <2>1, <3>1, RaisedIs
  <2>3. sample[e][r] = "breach"
    BY <1>1 DEF EngineInv, LoopInv
  <2>4. PICK b \in RowsOf(r) : at[e] - b.first >= Duration[r]
    <3>1. PICK b \in row[e] : TRUE
      BY <1>1 DEF EngineInv, LoopInv
    <3>2. b.rule = r /\ at[e] - b.first >= Duration[b.rule]
      BY <1>1 DEF EngineInv, LoopInv, RowsInv
    <3>3. b \in breaches
      BY <1>1 DEF EngineInv, SerialInv, Calm
    <3>4. QED
      BY <3>2, <3>3 DEF RowsOf
  <2>5. clock - b.first >= Duration[r]
    <3>1. b.first \in Nat /\ at[e] \in Nat /\ clock \in Nat /\ at[e] <= clock /\ Duration[r] \in Nat
      BY <1>2 DEF EngineInv, TypeOK, ReadingInv, RowsOf, Row, Time
    <3>2. QED
      BY <2>4, <3>1
  <2>6. [rule |-> b.rule, since |-> b.first] \in Monitor!Of(r, Running)
    BY <1>2, RunningOf
  <2>7. \E x \in Monitor!Of(r, Running) : clock - x.since >= Duration[r]
    BY <2>5, <2>6
  <2>8. Monitor!AlertOf(r) = {}
    BY <1>2, <1>3, AlertOfIs
  <2>9. Monitor!Raise(e, r)
    BY <1>5, <2>2, <2>3, <2>7, <2>8 DEF Monitor!Raise, Running, Raised
  <2>10. QED
    BY <1>1, <2>9
<1>8. QED
  BY <1>6, <1>7

LEMMA CommitRecovers ==
  ASSUME EngineInv, ReadingInv, FoundInv, Calm, NEW e \in Evals, NEW r \in Rules, r = rule[e],
         CommitResolve(e)
  PROVE  Quiet \/ (clock' = clock /\ Monitor!Recover(e, r))
<1>1. CASE \E a \in found[e] : status[a] = "None"
  BY <1>1, StaysQuiet DEF CommitResolve, world
<1>2. CASE ~ \E a \in found[e] : status[a] = "None"
  <2>1. /\ pc[e] = "commit" /\ UNCHANGED clock
        /\ breaches' = breaches \ row[e]
        /\ status' = [a \in Alerts |-> IF a \in found[e] THEN "RESOLVED" ELSE status[a]]
    BY <1>2 DEF CommitResolve, ResolvedStatus, world
  <2>2. r \in Rules /\ sample[e][r] = "fine"
    BY <2>1 DEF EngineInv, TypeOK, ReadingInv
  <2>3. breaches' = breaches \ RowsOf(r)
    <3>1. RowsOf(r) \subseteq row[e]
      BY <2>1 DEF FoundInv, Calm
    <3>2. \A b \in row[e] : b.rule = r
      BY DEF EngineInv, RowsInv
    <3>3. QED
      BY <2>1, <3>1, <3>2 DEF RowsOf
  <2>4. Running' = Running \ Monitor!Of(r, Running)
    <3>1. ASSUME NEW b \in breaches
          PROVE  b \in breaches' <=>
                   [rule |-> b.rule, since |-> b.first] \notin Monitor!Of(r, Running)
      BY <2>3 DEF RowsOf, Monitor!Of, Running
    <3>2. QED
      BY <2>3, <3>1 DEF Running
  <2>5. Raised' = Raised \ Active(r)
    <3>1. Active(r) \subseteq found[e] /\ \A a \in found[e] : a[2] = r
      BY <2>1 DEF EngineInv, SerialInv, Calm, ReadingInv
    <3>2. \A a \in Alerts : status'[a] \in ActiveStatuses
                              <=> status[a] \in ActiveStatuses /\ a \notin Active(r)
      BY <2>1, <3>1 DEF Active, ActiveStatuses
    <3>3. Raised' = {a \in Alerts : status'[a] \in ActiveStatuses}
      BY AlertPairs DEF Raised, Active
    <3>4. QED
      BY <3>2, <3>3, RaisedIs
  <2>6. Monitor!Recover(e, r)
    BY <2>2, <2>4, <2>5, AlertOfIs DEF Monitor!Recover, Running, Raised
  <2>7. QED
    BY <2>1, <2>6
<1>3. QED
  BY <1>1, <1>2

LEMMA OperatorsDismiss ==
  ASSUME EngineInv, Calm, Calm', Operate
  PROVE  Quiet \/ (clock' = clock /\ \E a \in Raised : Monitor!Dismiss(a))
<1>1. ASSUME NEW a \in Alerts, UNCHANGED <<breaches, clock>>,
             \A b \in Alerts : b # a => status'[b] = status[b],
             status'[a] \in ActiveStatuses => status[a] \in ActiveStatuses
      PROVE  Quiet \/ (clock' = clock /\ \E b \in Raised : Monitor!Dismiss(b))
  <2>1. Running' = Running
    BY <1>1 DEF Running
  <2>2. Raised' = {b \in Alerts : status'[b] \in ActiveStatuses}
    BY AlertPairs DEF Raised, Active
  <2>3. CASE status'[a] \in ActiveStatuses \/ status[a] \notin ActiveStatuses
    <3>1. Raised' = Raised
      BY <1>1, <2>2, <2>3, RaisedIs
    <3>2. QED
      BY <1>1, <2>1, <3>1 DEF Quiet
  <2>4. CASE status'[a] \notin ActiveStatuses /\ status[a] \in ActiveStatuses
    <3>1. a \in Raised /\ Raised' = Raised \ {a}
      BY <1>1, <2>2, <2>4, RaisedIs
    <3>2. Monitor!Dismiss(a)
      BY <2>1, <3>1 DEF Monitor!Dismiss, Running, Raised
    <3>3. QED
      BY <1>1, <3>1, <3>2
  <2>5. QED
    BY <2>3, <2>4
<1>2. ASSUME NEW a \in Alerts, NEW new \in {"ACKNOWLEDGED", "RESOLVED", "SNOOZED"}, SetStatus(a, new)
      PROVE  Quiet \/ (clock' = clock /\ \E b \in Raised : Monitor!Dismiss(b))
  <2>1. status'[a] = new /\ \A b \in Alerts : b # a => status'[b] = status[b]
    BY <1>2 DEF SetStatus, EngineInv, TypeOK
  <2>2. new \in ActiveStatuses => status[a] \in ActiveStatuses
    BY <1>2 DEF SetStatus, Calm
  <2>3. QED
    BY <1>1, <1>2, <2>1, <2>2 DEF SetStatus, world
<1>3. ASSUME NEW a \in Alerts, DeleteAlert(a)
      PROVE  Quiet \/ (clock' = clock /\ \E b \in Raised : Monitor!Dismiss(b))
  <2>1. status'[a] = "None" /\ \A b \in Alerts : b # a => status'[b] = status[b]
    BY <1>3 DEF DeleteAlert, EngineInv, TypeOK
  <2>2. QED
    BY <1>1, <1>3, <2>1 DEF DeleteAlert, world, ActiveStatuses
<1>4. CASE SetMaintenance \/ \E r \in Rules : ToggleRule(r)
  BY <1>4, StaysQuiet DEF SetMaintenance, ToggleRule, world
<1>5. QED
  BY <1>2, <1>3, <1>4 DEF Operate
\* Every step of a calm engine is a step of the monitor, or nothing to it.
LEMMA CalmObserves ==
  ASSUME EngineInv, ReadingInv, FoundInv, OwnInv, Calm, Calm', Next
  PROVE  Quiet \/ Monitor!Observe \/ Monitor!Pass
<1>1. ASSUME NEW e \in Evals,
             ReadDevice(e) \/ ReadRules(e) \/ (\E r \in Rules : ReadBreach(e, r)) \/ UpdateBreach(e)
               \/ FindAlert(e) \/ BeginResolve(e) \/ DatabaseFails(e)
      PROVE  Quiet
  BY <1>1, StaysQuiet DEF ReadDevice, ReadRules, ReadBreach, UpdateBreach, FindAlert, BeginResolve,
                          DatabaseFails, database, world
<1>2. ASSUME NEW e \in Evals, CreateBreach(e) \/ CreateAlert(e) \/ CommitResolve(e)
      PROVE  Quiet \/ Monitor!Observe
  <2>1. PICK r \in Rules : r = rule[e]
    BY DEF EngineInv, TypeOK
  <2>2. ASSUME clock' = clock, Monitor!Start(e, r) \/ Monitor!Raise(e, r) \/ Monitor!Recover(e, r)
        PROVE  Monitor!Observe
    BY <2>2, Zenon DEF Monitor!Observe
  <2>3. QED
    BY <1>2, <2>1, <2>2, CreateBreachStarts, CreateAlertRaises, CommitRecovers
<1>3. CASE Operate
  BY <1>3, OperatorsDismiss DEF Monitor!Observe, Raised
<1>4. CASE Tick
  <2>1. clock' = clock + 1 /\ Running' = Running /\ Raised' = Raised
    BY <1>4 DEF Tick, database, Running, Raised, Active
  <2>2. QED
    BY <2>1 DEF Monitor!Pass, Running, Raised
<1>5. QED
  BY <1>1, <1>2, <1>3, <1>4 DEF Next, Evaluate

LEMMA CalmIsLost ==
  ASSUME EngineInv, [Next]_vars, Calm'
  PROVE  Calm
<1>1. reopened \subseteq reopened'
  BY DEF Next, Evaluate, Operate, Tick, ReadDevice, ReadRules, ReadBreach, CreateBreach, UpdateBreach,
         FindAlert, CreateAlert, BeginResolve, CommitResolve, DatabaseFails, SetStatus, DeleteAlert,
         SetMaintenance, ToggleRule, vars, history
<1>2. QED
  BY <1>1, CalmShrinks DEF Calm

LEMMA SamplesStand ==
  ASSUME [Next]_vars
  PROVE  sample' = sample
BY DEF Next, Evaluate, Operate, Tick, ReadDevice, ReadRules, ReadBreach, CreateBreach, UpdateBreach,
       FindAlert, CreateAlert, BeginResolve, CommitResolve, DatabaseFails, SetStatus, DeleteAlert,
       SetMaintenance, ToggleRule, vars, cursor

LEMMA StepMonitor ==
  ASSUME EngineInv, ReadingInv, FoundInv, OwnInv, [Next]_vars
  PROVE  [Monitor!MonitorNext]_<<sample, clock, Running, Raised, Calm>>
<1>1. sample' = sample
  BY SamplesStand
<1>2. CASE UNCHANGED vars
  <2>1. UNCHANGED <<clock, breaches, status, before, reopened, pc>>
    BY <1>2 DEF vars, database, world, history
  <2>2. Calm' = Calm
    BY <2>1 DEF Calm, Serial, Overlap
  <2>3. QED
    BY <1>1, <2>1, <2>2, StaysQuiet DEF Quiet
<1>3. CASE ~Calm'
  BY <1>1, <1>3 DEF Monitor!MonitorNext, Calm
<1>4. CASE Next /\ Calm'
  <2>1. Calm
    BY <1>4, CalmIsLost
  <2>2. CASE Quiet
    <3>1. Calm' = Calm
      BY <1>4, <2>1
    <3>2. QED
      BY <1>1, <2>2, <3>1 DEF Quiet
  <2>3. CASE Monitor!Observe \/ Monitor!Pass
    BY <1>1, <1>4, <2>1, <2>3 DEF Monitor!MonitorNext, Calm
  <2>4. QED
    BY <1>4, <2>1, <2>2, <2>3, CalmObserves
<1>5. QED
  BY <1>2, <1>3, <1>4

LEMMA InitMonitor == Init => Monitor!MonitorInit
<1> SUFFICES ASSUME Init PROVE Monitor!MonitorInit
  OBVIOUS
<1>1. Running = {} /\ Raised = {}
  BY AlertPairs DEF Init, Running, Raised, Active, ActiveStatuses
<1>2. Calm
  BY DEF Init, Calm, Serial
<1>3. QED
  BY <1>1, <1>2 DEF Init, Monitor!MonitorInit, Running, Raised, Calm

\* Evaluations that do not overlap are a monitor that takes each snapshot at once, for
\* any snapshots, rules, durations and failures, whatever operators do but reopen.
THEOREM EngineImplementsMonitor == Spec => ImplementsMonitor
<1>1. Init => ReadingInv /\ FoundInv /\ OwnInv
  BY CalmInit, AlertPairs DEF Init, OwnInv
<1>2. EngineInv /\ ReadingInv /\ FoundInv /\ OwnInv /\ [Next]_vars
        => (ReadingInv /\ FoundInv /\ OwnInv)'
  BY ReadingStep, FoundStep, OwnStep
<1>3. Spec => [](ReadingInv /\ FoundInv /\ OwnInv)
  BY <1>1, <1>2, EngineInvariant, PTL DEF Spec
<1>4. EngineInv /\ (ReadingInv /\ FoundInv /\ OwnInv) /\ [Next]_vars
        => [Monitor!MonitorNext]_<<sample, clock, Running, Raised, Calm>>
  BY StepMonitor
<1>5. QED
  BY <1>3, <1>4, InitMonitor, EngineInvariant, PTL
  DEF Spec, ImplementsMonitor, Monitor!MonitorSpec, Running, Raised, Calm
=============================================================================
