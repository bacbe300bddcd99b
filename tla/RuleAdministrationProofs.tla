----------------------- MODULE RuleAdministrationProofs -----------------------
(***************************************************************************)
(* What overlapping, failing and interrupted changes of alert rules cannot *)
(* break, for any number of rules and requests and any history limit: the  *)
(* version history, rollback and the rule cache.                           *)
(***************************************************************************)
EXTENDS RuleAdministration, TLAPS

\* What snapshots of a rule may say.
Said(r) == {SnapshotOf(c) : c \in committed[r]}

\* What was read of a rule was once in the database, and what a rollback goes
\* back to and the history are snapshots of what was; so are the rows.
HonestInv ==
  /\ \A r \in Rules : Exists(r) => row[r] \in committed[r]
  /\ \A q \in Requests : pc[q] \in Changing => seen[q] \in committed[rule[q]]
  /\ \A q \in Requests : pc[q] \in {"reread", "rollback"} => target[q] \in Said(rule[q])
  /\ \A r \in Rules : Entries(r) \subseteq Said(r)

\* While changes of a rule do not overlap, one request at most has read it, what
\* it has read is still so, and the row's version is the latest.
SerialInv ==
  \A r \in Rules : ~overlapped[r] =>
    /\ \A p, q \in Requests :
         pc[p] \in Changing /\ pc[q] \in Changing /\ rule[p] = r /\ rule[q] = r => p = q
    /\ \A q \in Requests : pc[q] \in Changing /\ rule[q] = r /\ Exists(r) =>
         seen[q].version = row[r].version /\ SaysTheSame(seen[q], row[r])
    /\ Exists(r) => \A c \in committed[r] :
         /\ c.version <= row[r].version
         /\ c.version = row[r].version => SaysTheSame(c, row[r])
    /\ \A a, b \in committed[r] : a.version = b.version => SaysTheSame(a, b)

\* An update's snapshot is in the history while the update is on its way.
KeptInv ==
  \A q \in Requests : pc[q] = "update" /\ ~overlapped[rule[q]] =>
    \E s \in Entries(rule[q]) : s.version = seen[q].version /\ s.settings = seen[q].settings

\* The answer to the last query, in the cache or on its way to it, is the rules
\* as they are, when no reload is due or was missed.
FreshInv ==
  /\ cacheRead <= reads /\ \A q \in Requests : fetchedRead[q] <= reads
  /\ (\A q \in Requests : pc[q] \notin {"query", "failed"}) =>
       /\ cacheRead = reads => cache = Live(row)
       /\ \A q \in Requests : pc[q] = "fill" /\ fetchedRead[q] = reads => fetched[q] = Live(row)

USE AdministrationAssumption DEF AdministrationAssumption

-----------------------------------------------------------------------------
(* The history *)

\* A pushed snapshot is in the history, which holds nothing else that is new and
\* stays within its limit (snapshotVersion).
LEMMA PushKeeps ==
  ASSUME NEW h \in Seq(Snapshot), Len(h) <= HistoryLimit, NEW s \in Snapshot
  PROVE  /\ Push(h, s) \in Seq(Snapshot) /\ Len(Push(h, s)) <= HistoryLimit
         /\ \E i \in DOMAIN Push(h, s) : Push(h, s)[i] = s
         /\ \A i \in DOMAIN Push(h, s) :
              Push(h, s)[i] = s \/ \E j \in DOMAIN h : Push(h, s)[i] = h[j]
<1> DEFINE a == Append(h, s)
<1>1. /\ a \in Seq(Snapshot) /\ Len(a) = Len(h) + 1 /\ a[Len(h) + 1] = s
      /\ \A i \in 1 .. Len(h) : a[i] = h[i]
  OBVIOUS
<1>2. CASE Len(h) < HistoryLimit
  <2>1. Push(h, s) = a
    BY <1>2 DEF Push
  <2> QED
    BY <1>1, <1>2, <2>1
<1>3. CASE Len(h) >= HistoryLimit
  <2>1. Push(h, s) = Tail(a)
    BY <1>3 DEF Push
  <2>2. /\ Tail(a) \in Seq(Snapshot) /\ Len(Tail(a)) = Len(h)
        /\ \A i \in 1 .. Len(h) : Tail(a)[i] = a[i + 1]
    BY <1>1, <1>3
  <2> HIDE DEF a
  <2>3. Tail(a)[Len(h)] = s /\ Len(h) \in DOMAIN Tail(a)
    BY <1>1, <1>3, <2>2
  <2>4. \A i \in DOMAIN Tail(a) : Tail(a)[i] = s \/ \E j \in DOMAIN h : Tail(a)[i] = h[j]
    <3> TAKE i \in DOMAIN Tail(a)
    <3>1. i \in 1 .. Len(h) /\ Tail(a)[i] = a[i + 1]
      BY <2>2
    <3>2. CASE i = Len(h)
      BY <3>1, <3>2, <2>3
    <3>3. CASE i < Len(h)
      BY <3>1, <3>3, <1>1
    <3> QED
      BY <3>1, <3>2, <3>3
  <2> QED
    BY <1>3, <2>1, <2>2, <2>3, <2>4
<1> QED
  BY <1>2, <1>3

\* A rule's history after a snapshot of a row.
LEMMA SnapshotTaken ==
  ASSUME TypeOK, NEW r \in Rules, NEW w \in Row, SnapshotVersion(r, w)
  PROVE  /\ history' \in [Rules -> Seq(Snapshot)] /\ \A t \in Rules : Len(history'[t]) <= HistoryLimit
         /\ SnapshotOf(w) \in Entries(r)'
         /\ Entries(r)' \subseteq Entries(r) \cup {SnapshotOf(w)}
         /\ \A t \in Rules \ {r} : Entries(t)' = Entries(t)
<1>1. SnapshotOf(w) \in Snapshot
  BY DEF SnapshotOf, Row, Snapshot
<1>2. history[r] \in Seq(Snapshot) /\ Len(history[r]) <= HistoryLimit
  BY DEF TypeOK
<1> DEFINE h == Push(history[r], SnapshotOf(w))
<1>3. /\ h \in Seq(Snapshot) /\ Len(h) <= HistoryLimit
      /\ \E i \in DOMAIN h : h[i] = SnapshotOf(w)
      /\ \A i \in DOMAIN h : h[i] = SnapshotOf(w) \/ \E j \in DOMAIN history[r] : h[i] = history[r][j]
  BY <1>1, <1>2, PushKeeps
<1>4. history' = [history EXCEPT ![r] = h]
  BY DEF SnapshotVersion
<1>5. history'[r] = h /\ \A t \in Rules \ {r} : history'[t] = history[t]
  BY <1>4 DEF TypeOK
<1> HIDE DEF h
<1>6. history' \in [Rules -> Seq(Snapshot)] /\ \A t \in Rules : Len(history'[t]) <= HistoryLimit
  BY <1>3, <1>4, <1>5 DEF TypeOK
<1> QED
  BY <1>3, <1>5, <1>6 DEF Entries

-----------------------------------------------------------------------------
(* Types *)

\* A new row, a renumbered row, a restored row and so on are rows.
LEMMA RowsAreRows ==
  /\ NewRows \subseteq Row /\ Templates \subseteq Row
  /\ \A old \in Row, b \in Body \cup Row :
       Renumbered(old, b) \in Row /\ Renumbered(old, b).version = old.version + 1
  /\ \A w \in Row, s \in Snapshot : Restored(w, s) \in Row
  /\ \A w \in Row : Archived(w) \in Row /\ Copied(w) \in Row
<1>1. NewRows \subseteq Row /\ Templates \subseteq Row
  BY DEF NewRows, Templates, Row
<1>2. \A old \in Row, b \in Body \cup Row :
        Renumbered(old, b) \in Row /\ Renumbered(old, b).version = old.version + 1
  BY DEF Renumbered, Row, Body
<1>3. \A w \in Row, s \in Snapshot : Restored(w, s) \in Row
  BY DEF Restored, Row, Snapshot
<1>4. \A w \in Row : Archived(w) \in Row /\ Copied(w) \in Row
  BY DEF Archived, Copied, Row
<1> QED
  BY <1>1, <1>2, <1>3, <1>4

\* What an update or a rollback writes of the row it has read.
LEMMA ChangesAreRows ==
  ASSUME TypeOK, NEW q \in Requests, WriteUpdate(q) \/ WriteRollback(q)
  PROVE  /\ rule[q] \in Rules /\ Exists(rule[q]) /\ row[rule[q]] \in Row /\ seen[q] \in Row
         /\ pc[q] \in Changing /\ UNCHANGED history
         /\ \E w \in Row : w.version = seen[q].version + 1 /\ Write(q, rule[q], w, "query")
<1>1. CASE WriteUpdate(q)
  <2>1. /\ rule[q] \in Rules /\ Exists(rule[q]) /\ row[rule[q]] \in Row /\ seen[q] \in Row
        /\ pc[q] \in Changing /\ UNCHANGED history
    BY <1>1 DEF WriteUpdate, Exists, TypeOK, Changing
  <2>2. PICK b \in Body : Write(q, rule[q], Renumbered(seen[q], b), "query")
    BY <1>1 DEF WriteUpdate
  <2> QED
    BY <2>1, <2>2, RowsAreRows
<1>2. CASE WriteRollback(q)
  <2>1. /\ rule[q] \in Rules /\ Exists(rule[q]) /\ row[rule[q]] \in Row /\ seen[q] \in Row
        /\ target[q] \in Snapshot /\ pc[q] \in Changing /\ UNCHANGED history
    BY <1>2 DEF WriteRollback, Exists, TypeOK, Changing
  <2>2. Write(q, rule[q], Renumbered(seen[q], Restored(row[rule[q]], target[q])), "query")
    BY <1>2 DEF WriteRollback
  <2>3. Restored(row[rule[q]], target[q]) \in Body \cup Row
    BY <2>1, RowsAreRows
  <2> QED
    BY <2>1, <2>2, <2>3, RowsAreRows
<1> QED
  BY <1>1, <1>2

\* What the queries of the cache return.
LEMMA LiveIsRows ==
  ASSUME NEW rows \in [Rules -> Row \cup {None}]
  PROVE  Live(rows) \in [Rules -> Row \cup {None}] /\ NoRules \in [Rules -> Row \cup {None}]
BY DEF Live, NoRules

\* The types that a write preserves.
LEMMA WriteTypes ==
  ASSUME TypeOK, NEW q \in Requests, NEW r \in Rules, NEW w \in Row, Write(q, r, w, "query"),
         history' \in [Rules -> Seq(Snapshot)], \A t \in Rules : Len(history'[t]) <= HistoryLimit
  PROVE  TypeOK'
<1>2. /\ row' \in [Rules -> Row \cup {None}] /\ committed' \in [Rules -> SUBSET Row]
      /\ overlapped' \in [Rules -> BOOLEAN]
  BY DEF TypeOK, Write
<1>3. /\ cache' \in [Rules -> Row \cup {None}] /\ cacheRead' \in Nat /\ reads' \in Nat
      /\ fetched' \in [Requests -> [Rules -> Row \cup {None}]] /\ fetchedRead' \in [Requests -> Nat]
  BY DEF TypeOK, Write, cached
<1>4. /\ pc' \in [Requests -> Places] /\ rule' \in [Requests -> Rules \cup {None}]
      /\ seen' \in [Requests -> Row \cup {None}] /\ target' \in [Requests -> Snapshot \cup {None}]
  BY DEF TypeOK, Write, GoTo, Forget, Places
<1>5. /\ pc'[q] = "query"
      /\ \A p \in Requests \ {q} : pc'[p] = pc[p] /\ seen'[p] = seen[p] /\ rule'[p] = rule[p] /\ target'[p] = target[p]
  BY DEF TypeOK, Write, GoTo, Forget
<1>6. \A p \in Requests : pc'[p] \in Changing \cup {"clone"} => seen'[p] # None /\ rule'[p] # None
  BY <1>5 DEF TypeOK, Changing
<1>7. \A p \in Requests : pc'[p] \in {"reread", "rollback"} => target'[p] # None
  BY <1>5 DEF TypeOK
<1> QED
  BY <1>2, <1>3, <1>4, <1>6, <1>7 DEF TypeOK

\* The types that a look-up preserves.
LEMMA FindTypes ==
  ASSUME TypeOK, NEW q \in Requests, NEW r \in Rules, NEW place \in Changing \cup {"clone"}, Find(q, r, place),
         history' \in [Rules -> Seq(Snapshot)], \A t \in Rules : Len(history'[t]) <= HistoryLimit,
         \/ place # "reread" /\ place # "rollback" /\ UNCHANGED target
         \/ \E s \in Snapshot : target' = [target EXCEPT ![q] = s]
  PROVE  TypeOK'
<1>1. row[r] \in Row
  BY DEF TypeOK, Find, Exists
<1>2. /\ row' \in [Rules -> Row \cup {None}] /\ committed' \in [Rules -> SUBSET Row]
      /\ overlapped' \in [Rules -> BOOLEAN]
  BY DEF TypeOK, Find
<1>3. /\ cache' \in [Rules -> Row \cup {None}] /\ cacheRead' \in Nat /\ reads' \in Nat
      /\ fetched' \in [Requests -> [Rules -> Row \cup {None}]] /\ fetchedRead' \in [Requests -> Nat]
  BY DEF TypeOK, Find, cached
<1>4. target' \in [Requests -> Snapshot \cup {None}]
  BY DEF TypeOK
<1>5. /\ pc' \in [Requests -> Places] /\ rule' \in [Requests -> Rules \cup {None}]
      /\ seen' \in [Requests -> Row \cup {None}]
  BY <1>1 DEF TypeOK, Find, GoTo, Places
<1>6. /\ pc'[q] = place /\ seen'[q] = row[r] /\ rule'[q] = r
      /\ \A p \in Requests \ {q} : pc'[p] = pc[p] /\ seen'[p] = seen[p] /\ rule'[p] = rule[p] /\ target'[p] = target[p]
      /\ place \in {"reread", "rollback"} => target'[q] # None
  BY DEF TypeOK, Find, GoTo
<1>7. \A p \in Requests : pc'[p] \in Changing \cup {"clone"} => seen'[p] # None /\ rule'[p] # None
  BY <1>1, <1>6, ZenonT(30) DEF TypeOK
<1>8. \A p \in Requests : pc'[p] \in {"reread", "rollback"} => target'[p] # None
  BY <1>6 DEF TypeOK
<1> QED
  BY <1>2, <1>3, <1>4, <1>5, <1>7, <1>8 DEF TypeOK

\* Every reachable state is well typed, for any rules, requests and limits.
THEOREM TypeCorrect == Spec => []TypeOK
<1>1. Init => TypeOK
  <2> SUFFICES ASSUME Init PROVE TypeOK
    OBVIOUS
  <2>1. row \in [Rules -> Row \cup {None}]
    BY RowsAreRows DEF Init
  <2>2. history \in [Rules -> Seq(Snapshot)] /\ \A r \in Rules : Len(history[r]) <= HistoryLimit
    BY DEF Init
  <2>3. /\ cache \in [Rules -> Row \cup {None}] /\ cacheRead \in Nat /\ reads \in Nat
        /\ fetched \in [Requests -> [Rules -> Row \cup {None}]] /\ fetchedRead \in [Requests -> Nat]
    BY <2>1, LiveIsRows DEF Init
  <2>4. committed \in [Rules -> SUBSET Row]
    BY <2>1 DEF Init, Exists
  <2>5. /\ pc \in [Requests -> Places] /\ rule \in [Requests -> Rules \cup {None}]
        /\ seen \in [Requests -> Row \cup {None}] /\ target \in [Requests -> Snapshot \cup {None}]
        /\ overlapped \in [Rules -> BOOLEAN]
    BY DEF Init, Places
  <2>6. \A q \in Requests : pc[q] \notin Changing \cup {"clone"}
    BY DEF Init, Changing
  <2> QED
    BY <2>1, <2>2, <2>3, <2>4, <2>5, <2>6 DEF TypeOK, Changing
<1>2. TypeOK /\ [Next]_vars => TypeOK'
  <2> SUFFICES ASSUME TypeOK, [Next]_vars PROVE TypeOK'
    OBVIOUS
  <2>0. UNCHANGED history =>
          history' \in [Rules -> Seq(Snapshot)] /\ \A t \in Rules : Len(history'[t]) <= HistoryLimit
    BY DEF TypeOK
  <2>1. ASSUME NEW q \in Requests, NEW r \in Rules, FindForUpdate(q, r) PROVE TypeOK'
    <3>1. row[r] \in Row
      BY <2>1 DEF FindForUpdate, Find, Exists, TypeOK
    <3>2. history' \in [Rules -> Seq(Snapshot)] /\ \A t \in Rules : Len(history'[t]) <= HistoryLimit
      BY <2>1, <3>1, SnapshotTaken DEF FindForUpdate
    <3> QED
      BY <2>1, <3>2, FindTypes DEF FindForUpdate, Changing
  <2>2. ASSUME NEW q \in Requests, WriteUpdate(q) \/ WriteRollback(q) PROVE TypeOK'
    BY <2>0, <2>2, ChangesAreRows, WriteTypes
  <2>3. ASSUME NEW q \in Requests, NEW r \in Rules, NEW s \in Entries(r), FindSnapshot(q, r, s.version)
        PROVE  TypeOK'
    <3>1. PICK i \in 1 .. HistoryLimit :
            /\ FoundAt(r, s.version, i)
            /\ target' = [target EXCEPT ![q] = [history[r][i] EXCEPT !.version = s.version]]
      BY <2>3 DEF FindSnapshot
    <3>2. history[r][i] \in Snapshot /\ history[r][i].version = s.version
      BY <3>1 DEF FoundAt, TypeOK
    <3>3. [history[r][i] EXCEPT !.version = s.version] = history[r][i]
      BY <3>2 DEF Snapshot
    <3>4. Find(q, r, "reread") /\ UNCHANGED history
      BY <2>3 DEF FindSnapshot
    <3> QED
      BY <2>0, <3>1, <3>2, <3>3, <3>4, FindTypes DEF Changing
  <2>4. ASSUME NEW q \in Requests, RereadVersion(q) PROVE TypeOK'
    <3>1. rule[q] \in Rules /\ row[rule[q]] \in Row
      BY <2>4 DEF RereadVersion, Exists, TypeOK, Changing
    <3>2. pc' \in [Requests -> Places] /\ seen' \in [Requests -> Row \cup {None}]
      BY <2>4, <3>1 DEF RereadVersion, GoTo, Places, Changing, TypeOK
    <3>3. \A p \in Requests : pc'[p] \in Changing \cup {"clone"} => seen'[p] # None /\ rule'[p] # None
      BY <2>4, <3>1 DEF RereadVersion, GoTo, Changing, TypeOK
    <3>4. \A p \in Requests : pc'[p] \in {"reread", "rollback"} => target'[p] # None
      BY <2>4 DEF RereadVersion, GoTo, TypeOK
    <3> QED
      BY <2>4, <3>2, <3>3, <3>4 DEF RereadVersion, TypeOK, cached
  <2>6. ASSUME NEW q \in Requests, NEW r \in Rules, CreateRule(q, r) PROVE TypeOK'
    <3>1. PICK w \in NewRows : Write(q, r, w, "query") /\ SnapshotVersion(r, w)
      BY <2>6 DEF CreateRule
    <3> QED
      BY <3>1, RowsAreRows, SnapshotTaken, WriteTypes
  <2>7. ASSUME NEW q \in Requests, NEW r \in Rules, ImportRule(q, r) PROVE TypeOK'
    BY <2>0, <2>7, RowsAreRows, WriteTypes DEF ImportRule
  <2>8. ASSUME NEW q \in Requests, NEW r \in Rules, FindForClone(q, r) PROVE TypeOK'
    BY <2>0, <2>8, FindTypes DEF FindForClone
  <2>9. ASSUME NEW q \in Requests, NEW r \in Rules, WriteClone(q, r) PROVE TypeOK'
    <3>1. seen[q] \in Row
      BY <2>9 DEF WriteClone, TypeOK
    <3> QED
      BY <2>0, <2>9, <3>1, RowsAreRows, WriteTypes DEF WriteClone
  <2>10. ASSUME NEW q \in Requests, NEW r \in Rules, ArchiveRule(q, r) PROVE TypeOK'
    <3>1. row[r] \in Row
      BY <2>10 DEF ArchiveRule, Exists, TypeOK
    <3> QED
      BY <2>0, <2>10, <3>1, RowsAreRows, WriteTypes DEF ArchiveRule
  <2>11. ASSUME NEW q \in Requests, NEW r \in Rules, DeleteRule(q, r) PROVE TypeOK'
    <3>1. row' \in [Rules -> Row \cup {None}] /\ pc' \in [Requests -> Places]
      BY <2>11 DEF DeleteRule, GoTo, Places, TypeOK
    <3>2. \A p \in Requests : pc'[p] \in Changing \cup {"clone"} => pc'[p] = pc[p]
      BY <2>11 DEF DeleteRule, GoTo, Changing, TypeOK
    <3> QED
      BY <2>11, <3>1, <3>2 DEF DeleteRule, TypeOK, cached, Changing
  <2>12. ASSUME NEW q \in Requests, ReadRules(q) PROVE TypeOK'
    <3>1. /\ fetched' \in [Requests -> [Rules -> Row \cup {None}]] /\ fetchedRead' \in [Requests -> Nat]
          /\ reads' \in Nat /\ pc' \in [Requests -> Places]
      BY <2>12, LiveIsRows DEF ReadRules, GoTo, Places, TypeOK
    <3>2. \A p \in Requests : pc'[p] \in Changing \cup {"clone"} => pc'[p] = pc[p]
      BY <2>12 DEF ReadRules, GoTo, Changing, TypeOK
    <3> QED
      BY <2>12, <3>1, <3>2 DEF ReadRules, TypeOK, Changing
  <2>13. ASSUME NEW q \in Requests, FillCache(q) PROVE TypeOK'
    <3>1. /\ fetched' \in [Requests -> [Rules -> Row \cup {None}]] /\ fetchedRead' \in [Requests -> Nat]
          /\ cache' \in [Rules -> Row \cup {None}] /\ cacheRead' \in Nat /\ pc' \in [Requests -> Places]
      BY <2>13, LiveIsRows DEF FillCache, GoTo, Places, TypeOK
    <3>2. \A p \in Requests : pc'[p] \in Changing \cup {"clone"} => pc'[p] = pc[p]
      BY <2>13 DEF FillCache, GoTo, Changing, TypeOK
    <3> QED
      BY <2>13, <3>1, <3>2 DEF FillCache, TypeOK, Changing
  <2>14. ASSUME NEW q \in Requests, Fail(q) PROVE TypeOK'
    <3>1. /\ fetched' \in [Requests -> [Rules -> Row \cup {None}]] /\ fetchedRead' \in [Requests -> Nat]
          /\ pc' \in [Requests -> Places] /\ rule' \in [Requests -> Rules \cup {None}]
          /\ seen' \in [Requests -> Row \cup {None}] /\ target' \in [Requests -> Snapshot \cup {None}]
      BY <2>14, LiveIsRows DEF Fail, Forget, GoTo, Places, TypeOK
    <3>2. \A p \in Requests : pc'[p] \in Changing \cup {"clone"} =>
            pc'[p] = pc[p] /\ rule'[p] = rule[p] /\ seen'[p] = seen[p] /\ target'[p] = target[p]
      BY <2>14 DEF Fail, Forget, GoTo, Changing, TypeOK
    <3> QED
      BY <2>14, <3>1, <3>2 DEF Fail, TypeOK, Changing
  <2>15. ASSUME Restart PROVE TypeOK'
    <3>1. PICK seeded \in [Rules -> Templates \cup {None}] :
            LET w == [r \in Rules |-> IF seeded[r] = None THEN row[r] ELSE seeded[r]]
            IN  /\ row' = w
                /\ committed' = [r \in Rules |-> IF seeded[r] = None THEN committed[r] ELSE {seeded[r]}]
                /\ cache' = Live(w)
      BY <2>15 DEF Restart
    <3>2. row' \in [Rules -> Row \cup {None}] /\ cache' = Live(row')
      BY <3>1, RowsAreRows DEF TypeOK
    <3>3. cache' \in [Rules -> Row \cup {None}]
      BY <3>2, LiveIsRows
    <3>5. committed' \in [Rules -> SUBSET Row]
      BY <3>1, RowsAreRows DEF TypeOK
    <3>6. /\ pc' = [q \in Requests |-> IF pc[q] = "idle" THEN "idle" ELSE "done"]
          /\ history' = [r \in Rules |-> << >>] /\ cacheRead' = 0 /\ reads' = 0
          /\ seen' = [q \in Requests |-> None] /\ rule' = seen' /\ target' = [q \in Requests |-> None]
          /\ fetched' = [q \in Requests |-> NoRules] /\ fetchedRead' = [q \in Requests |-> 0]
          /\ UNCHANGED overlapped
      BY <2>15 DEF Restart
    <3>7. /\ fetched' \in [Requests -> [Rules -> Row \cup {None}]] /\ fetchedRead' \in [Requests -> Nat]
          /\ rule' \in [Requests -> Rules \cup {None}] /\ seen' \in [Requests -> Row \cup {None}]
          /\ target' \in [Requests -> Snapshot \cup {None}]
      BY <3>6, LiveIsRows DEF TypeOK
    <3>8. pc' \in [Requests -> Places] /\ \A q \in Requests : pc'[q] \notin Changing \cup {"clone"}
      BY <3>6 DEF Places, Changing
    <3>9. history' \in [Rules -> Seq(Snapshot)] /\ \A r \in Rules : Len(history'[r]) <= HistoryLimit
      BY <3>6
    <3> QED
      BY <3>2, <3>3, <3>5, <3>6, <3>7, <3>8, <3>9 DEF TypeOK, Changing
  <2>16. CASE UNCHANGED vars
    BY <2>16 DEF TypeOK, vars, request, cached
  <2> QED
    BY <2>1, <2>2, <2>3, <2>4, <2>6, <2>7, <2>8, <2>9, <2>10, <2>11, <2>12, <2>13, <2>14, <2>15, <2>16
    DEF Next, Administer
<1> QED
  BY <1>1, <1>2, PTL DEF Spec

-----------------------------------------------------------------------------
(* The history is honest, and a rollback restores *)

\* A write adds what it writes to what was committed, and takes no part in the
\* look-ups of other requests.
LEMMA WriteFrame ==
  ASSUME TypeOK, NEW q \in Requests, NEW r \in Rules, NEW w \in Row, Write(q, r, w, "query")
  PROVE  /\ row'[r] = w /\ committed'[r] = committed[r] \cup {w}
         /\ \A t \in Rules \ {r} : row'[t] = row[t] /\ committed'[t] = committed[t]
         /\ \A t \in Rules : overlapped'[t] = overlapped[t]
         /\ pc'[q] = "query"
         /\ \A p \in Requests \ {q} :
              pc'[p] = pc[p] /\ rule'[p] = rule[p] /\ seen'[p] = seen[p] /\ target'[p] = target[p]
BY DEF TypeOK, Write, GoTo, Forget

\* A look-up reads a row that is there.
LEMMA FindFrame ==
  ASSUME TypeOK, NEW q \in Requests, NEW r \in Rules, NEW place \in Changing \cup {"clone"}, Find(q, r, place)
  PROVE  /\ row' = row /\ committed' = committed /\ row[r] \in Row /\ pc[q] = "idle"
         /\ pc'[q] = place /\ rule'[q] = r /\ seen'[q] = row[r]
         /\ \A p \in Requests \ {q} : pc'[p] = pc[p] /\ rule'[p] = rule[p] /\ seen'[p] = seen[p]
         /\ \A t \in Rules \ {r} : overlapped'[t] = overlapped[t]
         /\ overlapped'[r] =
              (overlapped[r] \/ (place \in Changing /\ \E p \in Requests : rule[p] = r /\ pc[p] \in Changing))
BY DEF TypeOK, Find, GoTo, Exists

\* The steps that change no rule and let no request hold anything new.
LEMMA OtherFrame ==
  ASSUME TypeOK, NEW q \in Requests, ReadRules(q) \/ FillCache(q) \/ Fail(q)
  PROVE  /\ UNCHANGED <<row, history, committed, overlapped>>
         /\ pc'[q] \notin Changing
         /\ \A p \in Requests \ {q} :
              pc'[p] = pc[p] /\ rule'[p] = rule[p] /\ seen'[p] = seen[p] /\ target'[p] = target[p]
<1>1. CASE ReadRules(q)
  BY <1>1 DEF TypeOK, ReadRules, GoTo, Changing
<1>2. CASE FillCache(q)
  BY <1>2 DEF TypeOK, FillCache, GoTo, Changing
<1>3. CASE Fail(q)
  BY <1>3 DEF TypeOK, Fail, Forget, GoTo, Changing
<1> QED
  BY <1>1, <1>2, <1>3

\* A write of an honest row keeps everything honest, if the history stays or
\* takes that row in.
LEMMA WriteHonest ==
  ASSUME TypeOK, HonestInv, NEW q \in Requests, NEW r \in Rules, NEW w \in Row, Write(q, r, w, "query"),
         UNCHANGED history \/ SnapshotVersion(r, w)
  PROVE  HonestInv'
<1>1. \A t \in Rules : committed[t] \subseteq committed'[t] /\ Said(t) \subseteq Said(t)'
  BY WriteFrame DEF Said
<1>2. \A t \in Rules : Exists(t)' => row'[t] \in committed'[t]
  BY WriteFrame DEF HonestInv, Exists
<1>0. \A p \in Requests : pc'[p] \in Changing =>
        /\ pc[p] = pc'[p] /\ rule'[p] = rule[p] /\ seen'[p] = seen[p] /\ target'[p] = target[p]
        /\ rule[p] \in Rules
  <2>1. "query" \notin Changing
    BY DEF Changing
  <2>2. \A p \in Requests : pc[p] \in Changing => rule[p] \in Rules
    BY DEF TypeOK
  <2> QED
    BY <2>1, <2>2, WriteFrame
<1>3. \A p \in Requests : pc'[p] \in Changing => seen'[p] \in committed'[rule'[p]]
  BY <1>0, <1>1 DEF HonestInv
<1>4. \A p \in Requests : pc'[p] \in {"reread", "rollback"} => target'[p] \in Said(rule[p])'
  <2> SUFFICES ASSUME NEW p \in Requests, pc'[p] \in {"reread", "rollback"}
               PROVE  target'[p] \in Said(rule[p])'
    OBVIOUS
  <2>1. target[p] \in Said(rule[p]) /\ rule[p] \in Rules /\ rule'[p] = rule[p] /\ target'[p] = target[p]
    BY <1>0 DEF HonestInv, Changing
  <2> QED
    BY <1>1, <2>1 DEF Said
<1>5. \A t \in Rules : Entries(t)' \subseteq Said(t)'
  <2>1. CASE UNCHANGED history
    BY <1>1, <2>1 DEF HonestInv, Entries
  <2>2. CASE SnapshotVersion(r, w)
    <3>1. /\ Entries(r)' \subseteq Entries(r) \cup {SnapshotOf(w)}
          /\ \A t \in Rules \ {r} : Entries(t)' = Entries(t)
      BY <2>2, SnapshotTaken
    <3>2. SnapshotOf(w) \in Said(r)'
      BY WriteFrame DEF Said
    <3> QED
      BY <1>1, <3>1, <3>2 DEF HonestInv
  <2> QED
    BY <2>1, <2>2
<1> QED
  BY <1>2, <1>3, <1>4, <1>5 DEF HonestInv

\* The steps of a request keep what it and others have read, and the history,
\* honest.
LEMMA HonestStep == TypeOK /\ HonestInv /\ [Next]_vars => HonestInv'
<1> SUFFICES ASSUME TypeOK, HonestInv, [Next]_vars PROVE HonestInv'
  OBVIOUS
\* A look-up: what it reads is in the database, what it is to go back to is said.
<1>0. ASSUME NEW q \in Requests, NEW r \in Rules, NEW place \in Changing \cup {"clone"}, Find(q, r, place),
             \A t \in Rules : Entries(t)' \subseteq Said(t),
             \A p \in Requests \ {q} : target'[p] = target[p],
             place \in {"reread", "rollback"} => target'[q] \in Said(r)
      PROVE  HonestInv'
  <2>1. row[r] \in committed[r] /\ \A t : Said(t)' = Said(t)
    BY <1>0, FindFrame DEF Said, HonestInv, Find
  <2>2. \A p \in Requests : pc'[p] \in Changing => seen'[p] \in committed'[rule'[p]]
    BY <1>0, <2>1, FindFrame DEF HonestInv
  <2>3. \A p \in Requests : pc'[p] \in {"reread", "rollback"} => target'[p] \in Said(rule[p])'
    <3> SUFFICES ASSUME NEW p \in Requests, pc'[p] \in {"reread", "rollback"}
                 PROVE  target'[p] \in Said(rule'[p])
      BY <1>0, FindFrame DEF Said
    <3>1. CASE p = q
      BY <1>0, <3>1, FindFrame
    <3>2. CASE p # q
      BY <1>0, <3>2, FindFrame DEF HonestInv
    <3> QED
      BY <3>1, <3>2
  <2>4. \A t \in Rules : Exists(t)' => row'[t] \in committed'[t]
    BY <1>0, FindFrame DEF HonestInv, Exists
  <2> QED
    BY <1>0, <2>1, <2>2, <2>3, <2>4 DEF HonestInv
<1>1. ASSUME NEW q \in Requests, NEW r \in Rules, FindForUpdate(q, r) PROVE HonestInv'
  <2>1. /\ Find(q, r, "update") /\ SnapshotVersion(r, row[r]) /\ UNCHANGED target
        /\ "update" \in Changing /\ row[r] \in Row /\ row[r] \in committed[r]
    BY <1>1 DEF FindForUpdate, Find, Exists, TypeOK, HonestInv, Changing
  <2>2. \A t \in Rules : Entries(t)' \subseteq Said(t)
    BY <2>1, SnapshotTaken DEF HonestInv, Said
  <2> QED
    BY <1>0, <2>1, <2>2
<1>2. ASSUME NEW q \in Requests, NEW r \in Rules, NEW v \in Entries(r), FindSnapshot(q, r, v.version)
      PROVE  HonestInv'
  <2>1. Find(q, r, "reread") /\ UNCHANGED history /\ "reread" \in Changing
    BY <1>2 DEF FindSnapshot, Changing
  <2>2. PICK i \in 1 .. HistoryLimit :
          /\ FoundAt(r, v.version, i)
          /\ target' = [target EXCEPT ![q] = [history[r][i] EXCEPT !.version = v.version]]
    BY <1>2 DEF FindSnapshot
  <2>3. history[r][i] \in Snapshot /\ history[r][i].version = v.version /\ history[r][i] \in Entries(r)
    BY <2>2 DEF FoundAt, TypeOK, Entries
  <2>4. [history[r][i] EXCEPT !.version = v.version] = history[r][i]
    BY <2>3 DEF Snapshot
  <2>5. target'[q] \in Said(r) /\ \A p \in Requests \ {q} : target'[p] = target[p]
    BY <2>2, <2>3, <2>4 DEF HonestInv, TypeOK
  <2>6. \A t \in Rules : Entries(t)' \subseteq Said(t)
    BY <2>1 DEF HonestInv, Entries
  <2> QED
    BY <1>0, <2>1, <2>5, <2>6
<1>3. ASSUME NEW q \in Requests, RereadVersion(q) PROVE HonestInv'
  <2>1. /\ UNCHANGED <<row, history, rule, target, committed>> /\ pc[q] = "reread"
        /\ rule[q] \in Rules /\ Exists(rule[q]) /\ seen'[q] = row[rule[q]]
        /\ pc'[q] = "rollback" /\ \A p \in Requests \ {q} : pc'[p] = pc[p] /\ seen'[p] = seen[p]
    BY <1>3 DEF RereadVersion, GoTo, TypeOK, Changing
  <2> QED
    BY <2>1 DEF HonestInv, Said, Entries, Exists, Changing
<1>4. ASSUME NEW q \in Requests, NEW r \in Rules, FindForClone(q, r) PROVE HonestInv'
  <2>1. Find(q, r, "clone") /\ UNCHANGED <<history, target>>
    BY <1>4 DEF FindForClone
  <2>2. \A t \in Rules : Entries(t)' \subseteq Said(t)
    BY <2>1 DEF HonestInv, Entries
  <2> QED
    BY <1>0, <2>1, <2>2
<1>5. ASSUME NEW q \in Requests, NEW r \in Rules, NEW w \in Row, Write(q, r, w, "query"),
             UNCHANGED history \/ SnapshotVersion(r, w)
      PROVE  HonestInv'
  BY <1>5, WriteHonest
<1>6. ASSUME NEW q \in Requests, NEW r \in Rules, DeleteRule(q, r) PROVE HonestInv'
  <2>1. /\ UNCHANGED <<history, rule, seen, target, committed>>
        /\ \A t \in Rules : row'[t] = row[t] \/ row'[t] = None
        /\ pc'[q] = "query" /\ \A p \in Requests \ {q} : pc'[p] = pc[p]
    BY <1>6 DEF DeleteRule, GoTo, TypeOK
  <2> QED
    BY <2>1 DEF HonestInv, Said, Entries, Exists, Changing
<1>7. ASSUME NEW q \in Requests, ReadRules(q) \/ FillCache(q) \/ Fail(q) PROVE HonestInv'
  BY <1>7, OtherFrame DEF HonestInv, Said, Entries, Exists, Changing
<1>8. CASE Restart
  <2>1. /\ history' = [r \in Rules |-> << >>]
        /\ pc' = [q \in Requests |-> IF pc[q] = "idle" THEN "idle" ELSE "done"]
    BY <1>8 DEF Restart
  <2>2. \A r \in Rules : Entries(r)' = {}
    BY <2>1 DEF Entries
  <2>3. \A q \in Requests : pc'[q] \notin Changing
    BY <2>1 DEF Changing
  <2>4. \A r \in Rules : row'[r] # None => row'[r] \in committed'[r]
    <3>1. PICK seeded \in [Rules -> Templates \cup {None}] :
            LET w == [r \in Rules |-> IF seeded[r] = None THEN row[r] ELSE seeded[r]]
            IN  /\ row' = w
                /\ committed' = [r \in Rules |-> IF seeded[r] = None THEN committed[r] ELSE {seeded[r]}]
      BY <1>8 DEF Restart
    <3> QED
      BY <3>1 DEF HonestInv, Exists
  <2> QED
    BY <2>2, <2>3, <2>4 DEF HonestInv, Exists, Changing
<1>9. CASE UNCHANGED vars
  BY <1>9 DEF HonestInv, Said, Entries, Exists, vars, request
<1>10. ASSUME NEW q \in Requests, WriteUpdate(q) \/ WriteRollback(q) PROVE HonestInv'
  BY <1>5, <1>10, ChangesAreRows
<1>12. ASSUME NEW q \in Requests, NEW r \in Rules, CreateRule(q, r) \/ ImportRule(q, r) PROVE HonestInv'
  BY <1>5, <1>12, RowsAreRows DEF CreateRule, ImportRule
<1>13. ASSUME NEW q \in Requests, NEW r \in Rules, WriteClone(q, r) PROVE HonestInv'
  <2>1. seen[q] \in Row
    BY <1>13 DEF WriteClone, TypeOK
  <2> QED
    BY <1>5, <1>13, <2>1, RowsAreRows DEF WriteClone
<1>14. ASSUME NEW q \in Requests, NEW r \in Rules, ArchiveRule(q, r) PROVE HonestInv'
  <2>1. row[r] \in Row
    BY <1>14 DEF ArchiveRule, Exists, TypeOK
  <2> QED
    BY <1>5, <1>14, <2>1, RowsAreRows DEF ArchiveRule
<1> QED
  BY <1>1, <1>2, <1>3, <1>4, <1>6, <1>7, <1>8, <1>9, <1>10, <1>12, <1>13, <1>14 DEF Next, Administer

LEMMA HonestInit == Init => HonestInv
BY DEF Init, HonestInv, Entries, Exists, Changing

\* The history never says of a version what the rule did not say in it, for any
\* rules, requests and limits.
THEOREM HonestHistory == Spec => []HistoryIsHonest
<1>1. HonestInv => HistoryIsHonest
  BY DEF HonestInv, HistoryIsHonest, Said
<1> QED
  BY <1>1, TypeCorrect, HonestInit, HonestStep, PTL DEF Spec

\* The steps of other requests leave a request where it is.
LEMMA OthersWait ==
  ASSUME TypeOK, NEW p \in Requests, NEW q \in Requests, p # q, Administer(p)
  PROVE  pc'[q] = pc[q]
BY ZenonT(30) DEF Administer, FindForUpdate, CreateRule, ImportRule, FindForClone, ArchiveRule, DeleteRule,
   FindSnapshot, WriteClone, WriteUpdate, RereadVersion, WriteRollback, ReadRules, FillCache, Fail,
   Find, Write, GoTo, TypeOK

\* A rollback writes back what a snapshot keeps of the version asked for, and takes
\* the rest of the rule as it is.
THEOREM RollbackIsFaithful == Spec => RollbackRestores
<1> DEFINE Faithful(q) ==
      LET r == rule[q] IN
      /\ \E c \in committed[r] :
           /\ c.version = target[q].version
           /\ c.settings = row'[r].settings /\ c.enabled = row'[r].enabled
      /\ row'[r].extras = row[r].extras /\ row'[r].archived = row[r].archived
<1>1. TypeOK /\ HonestInv /\ [Next]_vars =>
        [\A q \in Requests : pc[q] = "rollback" /\ pc'[q] = "query" => Faithful(q)]_vars
  <2> SUFFICES ASSUME TypeOK, HonestInv, [Next]_vars, NEW q \in Requests,
                      pc[q] = "rollback", pc'[q] = "query"
               PROVE  Faithful(q)
    OBVIOUS
  <2>1. WriteRollback(q)
    <3>1. ASSUME NEW p \in Requests, Administer(p) PROVE p = q
      BY <3>1, OthersWait
    <3>2. Administer(q) => WriteRollback(q)
      BY DEF Administer, FindForUpdate, CreateRule, ImportRule, FindForClone, ArchiveRule, DeleteRule,
         FindSnapshot, WriteClone, WriteUpdate, RereadVersion, ReadRules, FillCache, Fail, Find, GoTo, TypeOK
    <3>3. ~Restart
      BY DEF Restart
    <3>4. ~UNCHANGED vars
      BY DEF vars, request
    <3> QED
      BY <3>1, <3>2, <3>3, <3>4 DEF Next
  <2>2. rule[q] \in Rules /\ row[rule[q]] \in Row /\ target[q] \in Snapshot
    BY <2>1 DEF WriteRollback, Exists, TypeOK, Changing
  <2>3. row'[rule[q]] = Renumbered(seen[q], Restored(row[rule[q]], target[q]))
    BY <2>1, <2>2 DEF WriteRollback, Write, TypeOK
  <2>4. /\ row'[rule[q]].settings = target[q].settings /\ row'[rule[q]].enabled = target[q].enabled
        /\ row'[rule[q]].extras = row[rule[q]].extras /\ row'[rule[q]].archived = row[rule[q]].archived
    BY <2>2, <2>3 DEF Renumbered, Restored, Row
  <2>5. PICK c \in committed[rule[q]] : target[q] = SnapshotOf(c)
    BY DEF HonestInv, Said
  <2> QED
    BY <2>4, <2>5 DEF SnapshotOf
<1> QED
  BY <1>1, TypeCorrect, HonestInit, HonestStep, PTL DEF Spec, RollbackRestores

-----------------------------------------------------------------------------
(* Changes that do not overlap *)

\* What is read of a rule, or committed of it, shows that it is not new.
LEMMA HeldIsOld ==
  ASSUME TypeOK, HonestInv, NEW q \in Requests, pc[q] \in Changing
  PROVE  rule[q] \in Rules /\ committed[rule[q]] # {}
BY DEF TypeOK, HonestInv

\* A new rule's first row.
LEMMA BirthSerial ==
  ASSUME TypeOK, HonestInv, SerialInv, NEW q \in Requests, NEW r \in Rules, NEW w \in Row,
         Write(q, r, w, "query"), IsNew(r)
  PROVE  SerialInv'
<1>1. committed'[r] = {w} /\ row'[r] = w
  BY WriteFrame DEF IsNew
<1>2. \A p \in Requests : pc'[p] \in Changing =>
        p # q /\ pc[p] = pc'[p] /\ rule'[p] = rule[p] /\ seen'[p] = seen[p] /\ rule[p] # r
  <2>1. "query" \notin Changing
    BY DEF Changing
  <2> QED
    BY <2>1, WriteFrame, HeldIsOld DEF IsNew
<1>3. ASSUME NEW t \in Rules \ {r} PROVE row'[t] = row[t] /\ committed'[t] = committed[t] /\ overlapped'[t] = overlapped[t]
  BY WriteFrame
<1>4. \A a, b \in committed'[r] : a.version <= row'[r].version /\ SaysTheSame(a, row'[r]) /\ SaysTheSame(a, b)
  BY <1>1 DEF SaysTheSame, Row
<1> QED
  BY <1>2, <1>3, <1>4 DEF SerialInv, Exists

\* The next version of a rule, written by the only request that has read it.
LEMMA ChangeSerial ==
  ASSUME TypeOK, HonestInv, SerialInv, NEW q \in Requests, NEW r \in Rules, pc[q] \in Changing, rule[q] = r,
         Exists(r), NEW w \in Row, w.version = seen[q].version + 1, Write(q, r, w, "query")
  PROVE  SerialInv'
<1>1. row[r] \in Row /\ seen[q] \in Row
  BY DEF TypeOK, Exists
<1>3. row'[r] = w /\ committed'[r] = committed[r] \cup {w}
  BY WriteFrame
<1>4. \A p \in Requests : pc'[p] \in Changing =>
        p # q /\ pc[p] = pc'[p] /\ rule'[p] = rule[p] /\ seen'[p] = seen[p]
  <2>1. "query" \notin Changing
    BY DEF Changing
  <2> QED
    BY <2>1, WriteFrame
<1>5. /\ \A t \in Rules : overlapped'[t] = overlapped[t]
      /\ \A t \in Rules \ {r} : row'[t] = row[t] /\ committed'[t] = committed[t]
  BY WriteFrame
<1>6. ASSUME ~overlapped[r]
      PROVE  /\ \A p \in Requests : pc'[p] \in Changing => rule'[p] # r
             /\ \A c \in committed'[r] : c.version <= w.version /\ (c.version = w.version => SaysTheSame(c, w))
             /\ \A a, b \in committed'[r] : a.version = b.version => SaysTheSame(a, b)
  <2>1. \A p \in Requests : pc'[p] \in Changing => rule'[p] # r
    BY <1>4, <1>6 DEF SerialInv
  <2>2. seen[q].version = row[r].version
    BY <1>6 DEF SerialInv
  <2>3. \A c \in committed[r] : c.version <= row[r].version
    BY <1>6 DEF SerialInv
  <2>4. \A c \in committed[r] : c.version \in Int /\ row[r].version \in Int /\ w.version \in Int
    BY <1>1 DEF TypeOK, Row
  <2>5. \A c \in committed[r] : c.version <= w.version /\ c.version # w.version
    BY <2>2, <2>3, <2>4
  <2>6. w.version <= w.version /\ SaysTheSame(w, w)
    BY DEF Row, SaysTheSame
  <2>7. \A c \in committed'[r] : c.version <= w.version /\ (c.version = w.version => SaysTheSame(c, w))
    BY <1>3, <2>5, <2>6
  <2>8. \A a, b \in committed[r] : a.version = b.version => SaysTheSame(a, b)
    BY <1>6 DEF SerialInv
  <2>9. \A a, b \in committed'[r] : a.version = b.version => SaysTheSame(a, b)
    BY <1>3, <2>5, <2>6, <2>8
  <2> QED
    BY <2>1, <2>7, <2>9
<1> QED
  BY <1>3, <1>4, <1>5, <1>6 DEF SerialInv, Exists

\* Archiving a rule is no new version of it.
LEMMA ArchiveSerial ==
  ASSUME TypeOK, HonestInv, SerialInv, NEW q \in Requests, NEW r \in Rules, ArchiveRule(q, r)
  PROVE  SerialInv'
<1> DEFINE w == Archived(row[r])
<1>1. /\ row[r] \in Row /\ w \in Row /\ Write(q, r, w, "query") /\ Exists(r)
  BY RowsAreRows DEF ArchiveRule, TypeOK, Exists
<1>a. w.version = row[r].version /\ w.settings = row[r].settings /\ w.extras = row[r].extras
  BY <1>1 DEF Archived, Row
<1> HIDE DEF w
<1>b. w.version <= w.version /\ \A c : SaysTheSame(c, w) <=> SaysTheSame(c, row[r])
  BY <1>1, <1>a DEF SaysTheSame, Row
<1>2. /\ row'[r] = w /\ committed'[r] = committed[r] \cup {w}
      /\ \A t \in Rules : overlapped'[t] = overlapped[t]
      /\ \A t \in Rules \ {r} : row'[t] = row[t] /\ committed'[t] = committed[t]
  BY <1>1, WriteFrame
<1>3. \A p \in Requests : pc'[p] \in Changing =>
        pc[p] = pc'[p] /\ rule'[p] = rule[p] /\ seen'[p] = seen[p]
  <2>1. "query" \notin Changing
    BY DEF Changing
  <2> QED
    BY <1>1, <2>1, WriteFrame
<1>4. ASSUME ~overlapped[r]
      PROVE  /\ \A c \in committed'[r] : c.version <= w.version /\ (c.version = w.version => SaysTheSame(c, w))
             /\ \A a, b \in committed'[r] : a.version = b.version => SaysTheSame(a, b)
  <2>1. \A c \in committed[r] : c.version <= w.version /\ (c.version = w.version => SaysTheSame(c, w))
    BY <1>1, <1>4, <1>a, <1>b DEF SerialInv
  <2>2. \A a, b \in committed[r] : a.version = b.version => SaysTheSame(a, b)
    BY <1>4 DEF SerialInv
  <2>3. SaysTheSame(w, w) /\ \A c : SaysTheSame(c, w) => SaysTheSame(w, c)
    BY DEF SaysTheSame
  <2>4. \A c \in committed'[r] : c.version <= w.version /\ (c.version = w.version => SaysTheSame(c, w))
    BY <1>2, <1>b, <2>1, <2>3
  <2>5. \A a, b \in committed'[r] : a.version = b.version => SaysTheSame(a, b)
    BY <1>2, <2>1, <2>2, <2>3
  <2> QED
    BY <2>4, <2>5
<1>5. \A p \in Requests : pc'[p] \in Changing /\ rule'[p] = r /\ ~overlapped[r] =>
        seen'[p].version = w.version /\ SaysTheSame(seen'[p], w)
  BY <1>1, <1>3, <1>a, <1>b DEF SerialInv
<1> QED
  BY <1>2, <1>3, <1>4, <1>5 DEF SerialInv, Exists

\* A request that reads a rule to change it is the only one, or they overlap.
LEMMA FindSerial ==
  ASSUME TypeOK, HonestInv, SerialInv, NEW q \in Requests, NEW r \in Rules, NEW place \in Changing \cup {"clone"},
         Find(q, r, place)
  PROVE  SerialInv'
<1>1. ASSUME NEW t \in Rules, ~overlapped'[t]
      PROVE  /\ ~overlapped[t]
             /\ t = r /\ place \in Changing => \A p \in Requests : pc[p] \in Changing => rule[p] # r
  <2>1. CASE t # r
    BY <1>1, <2>1, FindFrame
  <2>2. CASE t = r
    <3>1. overlapped'[r] =
            (overlapped[r] \/ (place \in Changing /\ \E p \in Requests : rule[p] = r /\ pc[p] \in Changing))
      BY FindFrame
    <3>2. ~overlapped[r] /\ ~(place \in Changing /\ \E p \in Requests : rule[p] = r /\ pc[p] \in Changing)
      BY <1>1, <2>2, <3>1, Zenon
    <3> QED
      BY <2>2, <3>2
  <2> QED
    BY <2>1, <2>2
<1>2. "clone" \notin Changing
  BY DEF Changing
<1>3. ASSUME NEW t \in Rules, ~overlapped'[t]
      PROVE  \A p1, p2 \in Requests :
               pc'[p1] \in Changing /\ pc'[p2] \in Changing /\ rule'[p1] = t /\ rule'[p2] = t => p1 = p2
  BY <1>1, <1>2, <1>3, FindFrame DEF SerialInv
<1>4. ASSUME NEW t \in Rules, ~overlapped'[t]
      PROVE  \A p \in Requests : pc'[p] \in Changing /\ rule'[p] = t /\ Exists(t)' =>
               seen'[p].version = row'[t].version /\ SaysTheSame(seen'[p], row'[t])
  BY <1>1, <1>2, <1>4, FindFrame DEF SerialInv, Exists, SaysTheSame
<1>5. row' = row /\ committed' = committed
  BY FindFrame
<1> QED
  BY <1>1, <1>3, <1>4, <1>5 DEF SerialInv, Exists

\* While changes of a rule do not overlap, what is said of it stays in step.
LEMMA SerialStep == TypeOK /\ HonestInv /\ SerialInv /\ [Next]_vars => SerialInv'
<1> SUFFICES ASSUME TypeOK, HonestInv, SerialInv, [Next]_vars PROVE SerialInv'
  OBVIOUS
<1>1. ASSUME NEW q \in Requests, NEW r \in Rules, FindForUpdate(q, r) \/ FindForClone(q, r) PROVE SerialInv'
  BY <1>1, FindSerial DEF FindForUpdate, FindForClone, Changing
<1>2. ASSUME NEW q \in Requests, NEW r \in Rules, NEW v \in Entries(r), FindSnapshot(q, r, v.version)
      PROVE  SerialInv'
  BY <1>2, FindSerial DEF FindSnapshot, Changing
<1>3. ASSUME NEW q \in Requests, WriteUpdate(q) \/ WriteRollback(q) PROVE SerialInv'
  BY <1>3, ChangesAreRows, ChangeSerial
<1>5. ASSUME NEW q \in Requests, RereadVersion(q) PROVE SerialInv'
  <2>1. /\ UNCHANGED <<row, rule, committed, overlapped>> /\ pc[q] = "reread"
        /\ seen'[q] = row[rule[q]]
        /\ pc'[q] = "rollback" /\ \A p \in Requests \ {q} : pc'[p] = pc[p] /\ seen'[p] = seen[p]
    BY <1>5 DEF RereadVersion, GoTo, TypeOK
  <2>2. \A p \in Requests : pc'[p] \in Changing <=> pc[p] \in Changing
    BY <2>1 DEF Changing
  <2> QED
    BY <2>1, <2>2 DEF SerialInv, Exists, SaysTheSame
<1>6. ASSUME NEW q \in Requests, NEW r \in Rules, CreateRule(q, r) \/ ImportRule(q, r) PROVE SerialInv'
  BY <1>6, BirthSerial, RowsAreRows DEF CreateRule, ImportRule
<1>7. ASSUME NEW q \in Requests, NEW r \in Rules, WriteClone(q, r) PROVE SerialInv'
  <2>1. seen[q] \in Row
    BY <1>7 DEF WriteClone, TypeOK
  <2> QED
    BY <1>7, <2>1, BirthSerial, RowsAreRows DEF WriteClone
<1>8. ASSUME NEW q \in Requests, NEW r \in Rules, ArchiveRule(q, r) PROVE SerialInv'
  BY <1>8, ArchiveSerial
<1>9. ASSUME NEW q \in Requests, NEW r \in Rules, DeleteRule(q, r) PROVE SerialInv'
  <2>1. /\ UNCHANGED <<rule, seen, committed, overlapped>>
        /\ \A t \in Rules : row'[t] = row[t] \/ row'[t] = None
        /\ \A p \in Requests : pc'[p] \in Changing => pc'[p] = pc[p]
    BY <1>9 DEF DeleteRule, GoTo, TypeOK, Changing
  <2> QED
    BY <2>1 DEF SerialInv, Exists
<1>10. ASSUME NEW q \in Requests, ReadRules(q) \/ FillCache(q) \/ Fail(q) PROVE SerialInv'
  BY <1>10, OtherFrame DEF SerialInv, Exists
<1>11. CASE Restart
  <2>1. PICK seeded \in [Rules -> Templates \cup {None}] :
          LET w == [r \in Rules |-> IF seeded[r] = None THEN row[r] ELSE seeded[r]]
          IN  /\ row' = w
              /\ committed' = [r \in Rules |-> IF seeded[r] = None THEN committed[r] ELSE {seeded[r]}]
    BY <1>11, ZenonT(30) DEF Restart
  <2>2. \A q \in Requests : pc'[q] \notin Changing
    BY <1>11 DEF Restart, Changing
  <2>3. overlapped' = overlapped
    BY <1>11 DEF Restart
  <2>4. ASSUME NEW t \in Rules, ~overlapped[t]
        PROVE  /\ row'[t] # None => \A c \in committed'[t] :
                    /\ c.version <= row'[t].version
                    /\ c.version = row'[t].version => SaysTheSame(c, row'[t])
               /\ \A a, b \in committed'[t] : a.version = b.version => SaysTheSame(a, b)
    <3>1. CASE seeded[t] # None
      <4>1. seeded[t] \in Row /\ row'[t] = seeded[t] /\ committed'[t] = {seeded[t]}
        BY <2>1, <3>1, RowsAreRows
      <4>2. seeded[t].version <= seeded[t].version /\ SaysTheSame(seeded[t], seeded[t])
        BY <4>1 DEF Row, SaysTheSame
      <4> QED
        BY <4>1, <4>2
    <3>2. CASE seeded[t] = None
      <4>1. row'[t] = row[t] /\ committed'[t] = committed[t]
        BY <2>1, <3>2
      <4> QED
        BY <2>4, <4>1 DEF SerialInv, Exists
    <3> QED
      BY <3>1, <3>2
  <2> QED
    BY <2>2, <2>3, <2>4 DEF SerialInv, Exists
<1>12. CASE UNCHANGED vars
  BY <1>12 DEF SerialInv, Exists, vars, request
<1> QED
  BY <1>1, <1>2, <1>3, <1>5, <1>6, <1>7, <1>8, <1>9, <1>10, <1>11, <1>12 DEF Next, Administer

LEMMA SerialInit == Init => SerialInv
<1> SUFFICES ASSUME Init PROVE SerialInv
  OBVIOUS
<1>1. \A q \in Requests : pc[q] \notin Changing
  BY DEF Init, Changing
<1>2. \A r \in Rules : committed[r] = IF Exists(r) THEN {row[r]} ELSE {}
  BY DEF Init
<1>3. \A r \in Rules : Exists(r) => row[r].version <= row[r].version
  BY RowsAreRows DEF Init, Exists, Row
<1>4. \A a : SaysTheSame(a, a)
  BY DEF SaysTheSame
<1> QED
  BY <1>1, <1>2, <1>3, <1>4 DEF SerialInv

\* A version number names one state of what a rule says, when changes of the rule
\* have not overlapped.
THEOREM VersionsAreNames == Spec => []VersionNamesOneState
<1>1. SerialInv => VersionNamesOneState
  BY DEF SerialInv, VersionNamesOneState
<1> QED
  BY <1>1, TypeCorrect, HonestInit, HonestStep, SerialInit, SerialStep, PTL DEF Spec

-----------------------------------------------------------------------------
(* An update can be undone *)

\* The steps after which an update is under way have it begin or leave it alone.
LEMMA KeptStep == TypeOK /\ HonestInv /\ KeptInv /\ [Next]_vars => KeptInv'
<1> SUFFICES ASSUME TypeOK, HonestInv, KeptInv, [Next]_vars,
                    NEW q \in Requests, pc'[q] = "update", ~overlapped'[rule'[q]]
             PROVE  \E s \in Entries(rule[q])' : s.version = seen'[q].version /\ s.settings = seen'[q].settings
  BY DEF KeptInv, Entries
<1> DEFINE Goal == \E s \in Entries(rule[q])' : s.version = seen'[q].version /\ s.settings = seen'[q].settings
<1>a. "update" \in Changing
  BY DEF Changing
\* A step that leaves the update and its rule's history alone.
<1>0. ASSUME pc[q] = "update", rule'[q] = rule[q], seen'[q] = seen[q], ~overlapped[rule[q]],
             \A t \in Rules : t = rule[q] => Entries(t)' = Entries(t)
      PROVE  Goal
  <2>1. rule[q] \in Rules
    BY <1>0, <1>a DEF TypeOK
  <2>2. PICK s \in Entries(rule[q]) : s.version = seen[q].version /\ s.settings = seen[q].settings
    BY <1>0 DEF KeptInv
  <2>3. s \in Entries(rule[q])'
    BY <1>0, <2>1, <2>2 DEF Entries
  <2> QED
    BY <1>0, <2>2, <2>3
<1>1. ASSUME NEW p \in Requests, NEW r \in Rules, FindForUpdate(p, r) PROVE Goal
  <2>1. /\ Find(p, r, "update") /\ SnapshotVersion(r, row[r]) /\ row[r] \in Row /\ UNCHANGED target
    BY <1>1 DEF FindForUpdate, Find, Exists, TypeOK
  <2>2. SnapshotOf(row[r]) \in Entries(r)' /\ \A t \in Rules \ {r} : Entries(t)' = Entries(t)
    BY <2>1, SnapshotTaken
  <2>3. SnapshotOf(row[r]).version = row[r].version /\ SnapshotOf(row[r]).settings = row[r].settings
    BY DEF SnapshotOf
  <2>4. CASE p = q
    <3>1. rule'[q] = r /\ seen'[q] = row[r]
      BY <1>a, <2>1, <2>4, FindFrame
    <3>2. SnapshotOf(row[r]) \in Entries(rule[q])'
      BY <2>2, <3>1 DEF Entries
    <3> QED
      BY <2>3, <3>1, <3>2
  <2>5. CASE p # q
    <3>1. pc[q] = "update" /\ rule'[q] = rule[q] /\ seen'[q] = seen[q] /\ rule[q] \in Rules
      BY <1>a, <2>1, <2>5, FindFrame DEF TypeOK
    <3>2. rule[q] # r /\ ~overlapped[rule[q]]
      <4>1. overlapped'[r] =
              (overlapped[r] \/ ("update" \in Changing /\ \E z \in Requests : rule[z] = r /\ pc[z] \in Changing))
        BY <1>a, <2>1, FindFrame
      <4>2. rule[q] = r => overlapped'[r]
        BY <1>a, <3>1, <4>1, Zenon
      <4>3. rule[q] # r
        BY <3>1, <4>2
      <4> QED
        BY <1>a, <2>1, <3>1, <4>3, FindFrame
    <3> QED
      BY <1>0, <2>2, <3>1, <3>2
  <2> QED
    BY <2>4, <2>5
<1>2. ASSUME NEW p \in Requests, NEW r \in Rules, NEW place \in {"reread", "clone"}, Find(p, r, place),
             UNCHANGED history
      PROVE  Goal
  <2>1. /\ p # q /\ pc[q] = "update" /\ rule'[q] = rule[q] /\ seen'[q] = seen[q] /\ rule[q] \in Rules
    BY <1>a, <1>2, FindFrame DEF Changing, TypeOK
  <2>2. ~overlapped[rule[q]]
    <3>1. CASE rule[q] = r
      <4>1. overlapped'[r] =
              (overlapped[r] \/ (place \in Changing /\ \E z \in Requests : rule[z] = r /\ pc[z] \in Changing))
        BY <1>2, FindFrame DEF Changing
      <4>2. overlapped[r] => overlapped'[r]
        BY <4>1, Zenon
      <4> QED
        BY <2>1, <3>1, <4>2
    <3>2. CASE rule[q] # r
      BY <1>2, <2>1, <3>2, FindFrame DEF Changing
    <3> QED
      BY <3>1, <3>2
  <2>3. \A t \in Rules : t = rule[q] => Entries(t)' = Entries(t)
    BY <1>2, <2>1 DEF Entries
  <2> QED
    BY <1>0, <2>1, <2>2, <2>3
<1>3. ASSUME NEW p \in Requests, NEW r \in Rules, NEW w \in Row, Write(p, r, w, "query"),
             UNCHANGED history \/ (IsNew(r) /\ SnapshotVersion(r, w))
      PROVE  Goal
  <2>1. /\ p # q /\ pc[q] = "update" /\ rule'[q] = rule[q] /\ seen'[q] = seen[q] /\ rule[q] \in Rules
    BY <1>a, <1>3, WriteFrame DEF TypeOK
  <2>2. ~overlapped[rule[q]] /\ committed[rule[q]] # {}
    BY <1>3, <1>a, <2>1, WriteFrame, HeldIsOld
  <2>3. \A t \in Rules : t = rule[q] => Entries(t)' = Entries(t)
    <3>1. CASE UNCHANGED history
      BY <2>1, <3>1 DEF Entries
    <3>2. CASE IsNew(r) /\ SnapshotVersion(r, w)
      BY <1>3, <2>1, <2>2, <3>2, SnapshotTaken DEF IsNew
    <3> QED
      BY <1>3, <3>1, <3>2
  <2> QED
    BY <1>0, <2>1, <2>2, <2>3
<1>4. ASSUME NEW p \in Requests, NEW r \in Rules, NEW v \in Entries(r), FindSnapshot(p, r, v.version) PROVE Goal
  BY <1>2, <1>4 DEF FindSnapshot
<1>5. ASSUME NEW p \in Requests, NEW r \in Rules, FindForClone(p, r) PROVE Goal
  BY <1>2, <1>5 DEF FindForClone
<1>6. ASSUME NEW p \in Requests, WriteUpdate(p) \/ WriteRollback(p) PROVE Goal
  BY <1>3, <1>6, ChangesAreRows
<1>8. ASSUME NEW p \in Requests, NEW r \in Rules, CreateRule(p, r) \/ ImportRule(p, r) PROVE Goal
  BY <1>3, <1>8, RowsAreRows DEF CreateRule, ImportRule
<1>9. ASSUME NEW p \in Requests, NEW r \in Rules, WriteClone(p, r) PROVE Goal
  <2>1. seen[p] \in Row
    BY <1>9 DEF WriteClone, TypeOK
  <2> QED
    BY <1>3, <1>9, <2>1, RowsAreRows DEF WriteClone
<1>10. ASSUME NEW p \in Requests, NEW r \in Rules, ArchiveRule(p, r) PROVE Goal
  <2>1. row[r] \in Row
    BY <1>10 DEF ArchiveRule, Exists, TypeOK
  <2> QED
    BY <1>3, <1>10, <2>1, RowsAreRows DEF ArchiveRule
<1>11. ASSUME NEW p \in Requests, NEW r \in Rules, DeleteRule(p, r) PROVE Goal
  <2>1. UNCHANGED <<rule, seen, history, overlapped>> /\ pc[q] = "update"
    BY <1>11 DEF DeleteRule, GoTo, TypeOK
  <2> QED
    BY <1>0, <2>1 DEF Entries
<1>12. ASSUME NEW p \in Requests, ReadRules(p) \/ FillCache(p) \/ Fail(p) PROVE Goal
  <2>1. /\ UNCHANGED <<history, overlapped>> /\ pc[q] = "update" /\ rule'[q] = rule[q] /\ seen'[q] = seen[q]
    BY <1>12, <1>a, OtherFrame
  <2> QED
    BY <1>0, <2>1 DEF Entries
<1>13. ASSUME NEW p \in Requests, RereadVersion(p) PROVE Goal
  <2>1. /\ UNCHANGED <<history, overlapped, rule>> /\ pc[q] = "update" /\ seen'[q] = seen[q]
    BY <1>13 DEF RereadVersion, GoTo, TypeOK
  <2> QED
    BY <1>0, <2>1 DEF Entries
<1>14. CASE Restart
  BY <1>14 DEF Restart
<1>15. CASE UNCHANGED vars
  BY <1>0, <1>15 DEF Entries, vars, request
<1> QED
  BY <1>1, <1>4, <1>5, <1>6, <1>8, <1>9, <1>10, <1>11, <1>12, <1>13, <1>14, <1>15 DEF Next, Administer

LEMMA KeptInit == Init => KeptInv
BY DEF Init, KeptInv

\* The settings that an update replaces are in the history, when changes of the
\* rule have not overlapped.
THEOREM SettingsAreKept == Spec => SettingsAreUndoable
<1>1. TypeOK /\ HonestInv /\ SerialInv /\ KeptInv /\ [Next]_vars =>
        [\A q \in Requests :
           pc[q] = "update" /\ pc'[q] = "query" /\ ~overlapped[rule[q]] =>
             \E s \in Entries(rule[q]) :
               s.version = row[rule[q]].version /\ s.settings = row[rule[q]].settings]_vars
  <2> SUFFICES ASSUME TypeOK, HonestInv, SerialInv, KeptInv, [Next]_vars, NEW q \in Requests,
                      pc[q] = "update", pc'[q] = "query", ~overlapped[rule[q]]
               PROVE  \E s \in Entries(rule[q]) :
                        s.version = row[rule[q]].version /\ s.settings = row[rule[q]].settings
    OBVIOUS
  <2>1. Exists(rule[q])
    <3>1. ASSUME NEW p \in Requests, Administer(p) PROVE p = q
      BY <3>1, OthersWait
    <3>2. Administer(q) => WriteUpdate(q)
      BY DEF Administer, FindForUpdate, CreateRule, ImportRule, FindForClone, ArchiveRule, DeleteRule,
         FindSnapshot, WriteClone, RereadVersion, WriteRollback, ReadRules, FillCache, Fail, Find, GoTo, TypeOK
    <3>3. ~Restart /\ ~UNCHANGED vars
      BY DEF Restart, vars, request
    <3> QED
      BY <3>1, <3>2, <3>3 DEF Next, WriteUpdate
  <2>2. rule[q] \in Rules /\ pc[q] \in Changing
    BY DEF TypeOK, Changing
  <2>3. seen[q].version = row[rule[q]].version /\ seen[q].settings = row[rule[q]].settings
    BY <2>1, <2>2 DEF SerialInv, SaysTheSame
  <2> QED
    BY <2>3 DEF KeptInv
<1> QED
  BY <1>1, TypeCorrect, HonestInit, HonestStep, SerialInit, SerialStep, KeptInit, KeptStep, PTL
  DEF Spec, SettingsAreUndoable

-----------------------------------------------------------------------------
(* The cache *)

\* A step that leaves the cache, the queries and their answers alone, and the
\* rules too unless a reload is then due.
LEMMA UncachedStep ==
  ASSUME TypeOK, FreshInv, UNCHANGED cached,
         \A q \in Requests : pc'[q] \notin {"query", "failed"} => pc[q] \notin {"query", "failed"},
         \A q \in Requests : pc'[q] = "fill" => pc[q] = "fill",
         UNCHANGED row \/ \E q \in Requests : pc'[q] = "query"
  PROVE  FreshInv'
BY DEF FreshInv, cached

\* The answer to the last query stays the rules as they are.
LEMMA FreshStep == TypeOK /\ FreshInv /\ [Next]_vars => FreshInv'
<1> SUFFICES ASSUME TypeOK, FreshInv, [Next]_vars PROVE FreshInv'
  OBVIOUS
<1>1. ASSUME NEW q \in Requests, NEW r, NEW place \in Changing \cup {"clone"}, Find(q, r, place) PROVE FreshInv'
  <2>1. /\ UNCHANGED <<row, cached>> /\ pc[q] = "idle" /\ pc'[q] \notin {"query", "failed", "fill"}
        /\ \A p \in Requests \ {q} : pc'[p] = pc[p]
    BY <1>1 DEF Find, GoTo, TypeOK, Changing
  <2> QED
    BY <2>1, UncachedStep
<1>2. ASSUME NEW q \in Requests, NEW r, NEW w, Write(q, r, w, "query") PROVE FreshInv'
  <2>1. /\ UNCHANGED cached /\ pc'[q] = "query" /\ \A p \in Requests \ {q} : pc'[p] = pc[p]
    BY <1>2 DEF Write, GoTo, TypeOK
  <2> QED
    BY <2>1, UncachedStep
<1>3. ASSUME NEW q \in Requests, NEW r, DeleteRule(q, r) PROVE FreshInv'
  <2>1. /\ UNCHANGED cached /\ pc'[q] = "query" /\ \A p \in Requests \ {q} : pc'[p] = pc[p]
    BY <1>3 DEF DeleteRule, GoTo, TypeOK
  <2> QED
    BY <2>1, UncachedStep
<1>4. ASSUME NEW q \in Requests, RereadVersion(q) PROVE FreshInv'
  <2>1. /\ UNCHANGED <<row, cached>> /\ pc[q] = "reread" /\ pc'[q] = "rollback"
        /\ \A p \in Requests \ {q} : pc'[p] = pc[p]
    BY <1>4 DEF RereadVersion, GoTo, TypeOK
  <2> QED
    BY <2>1, UncachedStep
<1>5. ASSUME NEW q \in Requests, ReadRules(q) PROVE FreshInv'
  <2>1. /\ UNCHANGED <<row, cache, cacheRead>> /\ reads' = reads + 1 /\ reads \in Nat /\ cacheRead \in Nat
        /\ fetched'[q] = Live(row) /\ fetchedRead'[q] = reads + 1
        /\ \A p \in Requests \ {q} :
             pc'[p] = pc[p] /\ fetched'[p] = fetched[p] /\ fetchedRead'[p] = fetchedRead[p]
        /\ \A p \in Requests : fetchedRead[p] \in Nat
    BY <1>5 DEF ReadRules, GoTo, TypeOK
  <2>2. cacheRead' < reads' /\ \A p \in Requests \ {q} : fetchedRead'[p] < reads'
    BY <2>1 DEF FreshInv
  <2>3. cacheRead' <= reads' /\ \A p \in Requests : fetchedRead'[p] <= reads'
    BY <2>1, <2>2
  <2> QED
    BY <2>1, <2>2, <2>3 DEF FreshInv
<1>6. ASSUME NEW q \in Requests, FillCache(q) PROVE FreshInv'
  <2>1. /\ UNCHANGED <<row, reads>> /\ cache' = fetched[q] /\ cacheRead' = fetchedRead[q] /\ reads \in Nat
        /\ pc[q] = "fill" /\ pc'[q] = "done" /\ fetchedRead'[q] = 0
        /\ \A p \in Requests \ {q} :
             pc'[p] = pc[p] /\ fetched'[p] = fetched[p] /\ fetchedRead'[p] = fetchedRead[p]
    BY <1>6 DEF FillCache, GoTo, TypeOK
  <2>2. cacheRead' <= reads' /\ \A p \in Requests : fetchedRead'[p] <= reads'
    BY <2>1 DEF FreshInv
  <2> QED
    BY <2>1, <2>2 DEF FreshInv
<1>7. ASSUME NEW q \in Requests, Fail(q) PROVE FreshInv'
  <2>1. /\ UNCHANGED <<row, reads, cache, cacheRead>> /\ reads \in Nat
        /\ pc'[q] = "failed" \/ (pc'[q] = "done" /\ pc[q] \notin {"query", "failed"})
        /\ fetchedRead'[q] = 0
        /\ \A p \in Requests \ {q} :
             pc'[p] = pc[p] /\ fetched'[p] = fetched[p] /\ fetchedRead'[p] = fetchedRead[p]
    BY <1>7 DEF Fail, GoTo, TypeOK
  <2>2. fetchedRead'[q] = 0
    BY <1>7 DEF Fail, TypeOK
  <2>3. cacheRead' <= reads' /\ \A p \in Requests : fetchedRead'[p] <= reads'
    BY <2>1, <2>2 DEF FreshInv
  <2> QED
    BY <2>1, <2>3 DEF FreshInv
<1>8. CASE Restart
  <2>1. /\ cache' = Live(row') /\ cacheRead' = 0 /\ reads' = 0
        /\ fetchedRead' = [q \in Requests |-> 0]
        /\ pc' = [q \in Requests |-> IF pc[q] = "idle" THEN "idle" ELSE "done"]
    BY <1>8 DEF Restart
  <2> QED
    BY <2>1 DEF FreshInv
<1>9. CASE UNCHANGED vars
  <2>1. UNCHANGED <<row, cached, pc>>
    BY <1>9 DEF vars, request
  <2> QED
    BY <2>1, UncachedStep
<1>10. ASSUME NEW q \in Requests, Administer(q) PROVE FreshInv'
  BY <1>1, <1>2, <1>3, <1>4, <1>5, <1>6, <1>7, <1>10
  DEF Administer, FindForUpdate, CreateRule, ImportRule, FindForClone, ArchiveRule, FindSnapshot, WriteClone,
      WriteUpdate, WriteRollback, Changing
<1> QED
  BY <1>8, <1>9, <1>10 DEF Next

\* The cache is the rules as they are, once every write was followed by its
\* reload and the answer to the last query came last.
THEOREM CacheIsFresh == Spec => []CacheFollows
<1>1. Init => FreshInv
  BY DEF Init, FreshInv
<1>2. FreshInv => CacheFollows
  BY DEF FreshInv, CacheFollows
<1> QED
  BY <1>1, <1>2, TypeCorrect, FreshStep, PTL DEF Spec

-----------------------------------------------------------------------------
(* The refinement of VersionedRules *)

Torn == {r \in Rules : overlapped[r]}

\* A write of a rule becomes it.
LEMMA WriteBecomes ==
  ASSUME NEW q \in Requests, NEW r \in Rules, NEW w, Write(q, r, w, "query")
  PROVE  Versioned!Become(r, w)
BY DEF Write, Versioned!Become

\* An update or a rollback changes the rule that it has read.
LEMMA ChangesChange ==
  ASSUME TypeOK, HonestInv, SerialInv, NEW q \in Requests, WriteUpdate(q) \/ WriteRollback(q)
  PROVE  Versioned!VersionedNext
<1> DEFINE r == rule[q]
           c == seen[q]
<1>1. /\ r \in Rules /\ row[r] # None /\ pc[q] \in Changing
      /\ \E w \in Row : w.version = c.version + 1 /\ Write(q, r, w, "query")
  BY ChangesAreRows DEF Exists
<1>2. PICK w \in Row : w.version = c.version + 1 /\ Write(q, r, w, "query")
  BY <1>1
<1>3. c \in committed[r] /\ (~overlapped[r] => c.version = row[r].version)
  BY <1>1 DEF HonestInv, SerialInv, Exists
<1> DEFINE b == [settings |-> w.settings, extras |-> w.extras, enabled |-> w.enabled, archived |-> w.archived]
<1>4. b \in Versioned!Content /\ w = Versioned!Numbered(c.version + 1, b)
  BY <1>2 DEF Row, Versioned!Content, Versioned!Numbered
<1>5. Versioned!Become(r, w)
  BY <1>1, <1>2, WriteBecomes
<1>6. Versioned!Change(r, c, b)
  <2> HIDE DEF b, c, r
  <2> QED
    BY <1>1, <1>3, <1>4, <1>5 DEF Versioned!Change
<1> QED
  <2> HIDE DEF b, c, r
  <2> QED
    BY <1>1, <1>3, <1>4, <1>6 DEF Versioned!VersionedNext

\* New rows are newcomers.
LEMMA NewRowsAreNewcomers == NewRows \subseteq Versioned!Newcomers
<1> SUFFICES ASSUME NEW w \in NewRows PROVE w \in Versioned!Newcomers
  OBVIOUS
<1> DEFINE b == [settings |-> w.settings, extras |-> w.extras, enabled |-> w.enabled, archived |-> w.archived]
<1>1. w.version \in FirstVersions /\ b \in Versioned!Content /\ w = Versioned!Numbered(w.version, b)
  BY DEF NewRows, Versioned!Content, Versioned!Numbered
<1> HIDE DEF b
<1> QED
  BY <1>1 DEF Versioned!Newcomers

\* The first row of a rule enlists it.
LEMMA BirthEnlists ==
  ASSUME TypeOK, NEW q \in Requests, NEW r \in Rules, IsNew(r), NEW w \in NewRows, Write(q, r, w, "query")
  PROVE  Versioned!VersionedNext
<1> DEFINE fresh == [t \in Rules |-> IF t = r THEN w ELSE None]
<1>1. w # None /\ w \in Versioned!Newcomers
  BY RowsAreRows, NewRowsAreNewcomers
<1>2. fresh \in [Rules -> Versioned!Newcomers \cup {None}]
  BY <1>1
<1>3. /\ row' = [t \in Rules |-> IF fresh[t] = None THEN row[t] ELSE fresh[t]]
      /\ committed' = [t \in Rules |-> IF fresh[t] = None THEN committed[t] ELSE {fresh[t]}]
      /\ UNCHANGED Torn
  <2>1. /\ row' = [t \in Rules |-> IF t = r THEN w ELSE row[t]]
        /\ committed' = [t \in Rules |-> IF t = r THEN {w} ELSE committed[t]]
        /\ UNCHANGED Torn
    <3>1. row' = [t \in Rules |-> IF t = r THEN w ELSE row[t]]
      BY DEF TypeOK, Write
    <3>2. committed' = [committed EXCEPT ![r] = {w}]
      BY DEF Write, IsNew
    <3>3. committed' = [t \in Rules |-> IF t = r THEN {w} ELSE committed[t]]
      BY <3>2 DEF TypeOK
    <3>4. UNCHANGED Torn
      BY DEF Write, Torn
    <3> QED
      BY <3>1, <3>3, <3>4
  <2>2. \A t \in Rules : fresh[t] = IF t = r THEN w ELSE None
    OBVIOUS
  <2> HIDE DEF fresh
  <2>3. \A t \in Rules : fresh[t] = None <=> t # r
    BY <1>1, <2>2
  <2> QED
    BY <2>1, <2>2, <2>3
<1>4. \A t \in Rules : fresh[t] # None => committed[t] = {}
  BY DEF IsNew
<1> HIDE DEF fresh
<1>5. Versioned!Enlist(fresh)
  BY <1>3, <1>4 DEF Versioned!Enlist, Torn
<1> QED
  BY <1>2, <1>5 DEF Versioned!VersionedNext

\* A look-up changes nothing, or tears the rule.
LEMMA FindTears ==
  ASSUME TypeOK, NEW q \in Requests, NEW r \in Rules, NEW place \in Changing \cup {"clone"},
         Find(q, r, place)
  PROVE  Versioned!Tear(r) \/ UNCHANGED <<row, committed, Torn>>
<1>1. /\ UNCHANGED <<row, committed>>
      /\ \A t \in Rules \ {r} : overlapped'[t] = overlapped[t]
      /\ overlapped[r] => overlapped'[r]
  BY FindFrame, ZenonT(30)
<1>2. CASE overlapped'[r]
  <2>1. Torn' = Torn \cup {r}
    BY <1>1, <1>2 DEF Torn
  <2>2. QED
    BY <1>1, <2>1 DEF Versioned!Tear, Torn
<1>3. CASE ~overlapped'[r]
  BY <1>1, <1>3 DEF Torn
<1>4. QED
  BY <1>2, <1>3

LEMMA StepVersioned ==
  ASSUME TypeOK, HonestInv, SerialInv, [Next]_vars
  PROVE  [Versioned!VersionedNext]_<<row, committed, Torn>>
<1> DEFINE Goal == [Versioned!VersionedNext]_<<row, committed, Torn>>
<1>1. ASSUME UNCHANGED <<row, committed, overlapped>> PROVE Goal
  BY <1>1 DEF Torn
<1>2. ASSUME NEW q \in Requests, NEW r \in Rules, NEW place \in Changing \cup {"clone"},
             Find(q, r, place)
      PROVE  Goal
  BY <1>2, FindTears DEF Versioned!VersionedNext
<1>3. ASSUME NEW q \in Requests, NEW r \in Rules,
             FindForUpdate(q, r) \/ FindForClone(q, r) \/ \E v \in Entries(r) : FindSnapshot(q, r, v.version)
      PROVE  Goal
  BY <1>2, <1>3 DEF FindForUpdate, FindForClone, FindSnapshot, Changing
<1>4. ASSUME NEW q \in Requests, WriteUpdate(q) \/ WriteRollback(q) PROVE Goal
  BY <1>4, ChangesChange
<1>6. ASSUME NEW q \in Requests, NEW r \in Rules, CreateRule(q, r) \/ ImportRule(q, r) PROVE Goal
  BY <1>6, BirthEnlists DEF CreateRule, ImportRule
<1>7. ASSUME NEW q \in Requests, NEW r \in Rules, WriteClone(q, r) PROVE Goal
  <2>1. seen[q] \in Row
    BY <1>7 DEF WriteClone, TypeOK
  <2>2. Copied(seen[q]) \in NewRows
    BY <2>1 DEF Copied, Row, NewRows
  <2>3. QED
    BY <1>7, <2>2, BirthEnlists DEF WriteClone
<1>8. ASSUME NEW q \in Requests, NEW r \in Rules, ArchiveRule(q, r) PROVE Goal
  <2>1. Versioned!Become(r, Archived(row[r])) /\ row[r] # None
    BY <1>8, WriteBecomes DEF ArchiveRule, Exists
  <2>2. Versioned!Archive(r)
    BY <2>1 DEF Versioned!Archive, Archived
  <2>3. QED
    BY <2>2 DEF Versioned!VersionedNext
<1>9. ASSUME NEW q \in Requests, NEW r \in Rules, DeleteRule(q, r) PROVE Goal
  <2>1. UNCHANGED <<committed, Torn>> /\ row' \in {row, [row EXCEPT ![r] = None]}
    BY <1>9 DEF DeleteRule, Torn
  <2>2. Versioned!Remove(r) \/ row' = row
    BY <2>1 DEF Versioned!Remove, Torn
  <2>3. QED
    BY <2>1, <2>2 DEF Versioned!VersionedNext
<1>10. ASSUME NEW q \in Requests, RereadVersion(q) \/ ReadRules(q) \/ FillCache(q) \/ Fail(q)
       PROVE  Goal
  BY <1>1, <1>10 DEF RereadVersion, ReadRules, FillCache, Fail
<1>11. CASE Restart
  <2>1. PICK seeded \in [Rules -> Templates \cup {None}] :
          /\ \A r \in Rules : seeded[r] # None => IsNew(r)
          /\ row' = [r \in Rules |-> IF seeded[r] = None THEN row[r] ELSE seeded[r]]
          /\ committed' = [r \in Rules |-> IF seeded[r] = None THEN committed[r] ELSE {seeded[r]}]
    BY <1>11, ZenonT(30) DEF Restart
  <2>2. UNCHANGED Torn
    BY <1>11 DEF Restart, Torn
  <2>3. Versioned!Enlist(seeded)
    BY <2>1, <2>2 DEF Versioned!Enlist, IsNew, Torn
  <2>4. seeded \in [Rules -> Versioned!Newcomers \cup {None}]
    BY <2>1, NewRowsAreNewcomers DEF Templates
  <2>5. QED
    BY <2>3, <2>4 DEF Versioned!VersionedNext
<1>12. CASE UNCHANGED vars
  BY <1>1, <1>12 DEF vars
<1>13. QED
  BY <1>3, <1>4, <1>6, <1>7, <1>8, <1>9, <1>10, <1>11, <1>12 DEF Next, Administer

\* Every operation on alert rules is one atomic change of a rule that makes its
\* next version, for any number of rules and requests, as long as changes of that
\* rule do not overlap.
THEOREM AdministrationImplementsVersioned == Spec => ImplementsVersioned
<1>1. Init => Versioned!VersionedInit
  <2> SUFFICES ASSUME Init PROVE Versioned!VersionedInit
    OBVIOUS
  <2>1. \A w \in Templates : w \in Versioned!Newcomers /\ w.version = 1 /\ w.enabled /\ ~w.archived
    BY NewRowsAreNewcomers DEF Templates
  <2>2. row \in [Rules -> {None} \cup {w \in Versioned!Newcomers : w.version = 1 /\ w.enabled /\ ~w.archived}]
    BY <2>1 DEF Init
  <2> QED
    BY <2>2 DEF Init, Versioned!VersionedInit, Exists
<1>2. TypeOK /\ HonestInv /\ SerialInv /\ [Next]_vars
        => [Versioned!VersionedNext]_<<row, committed, {r \in Rules : overlapped[r]}>>
  BY StepVersioned DEF Torn
<1> QED
  BY <1>1, <1>2, TypeCorrect, HonestInit, HonestStep, SerialInit, SerialStep, PTL
  DEF Spec, ImplementsVersioned, Versioned!VersionedSpec
=============================================================================
