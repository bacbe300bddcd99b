-------------------------- MODULE RuleAdministration --------------------------
(***************************************************************************)
(* The administration of alert rules (rule-engine.service.ts, its rows     *)
(* through prisma-alert-rule.repository.ts): several requests change rules *)
(* at a time, each of them a sequence of database statements, beside two   *)
(* stores in memory, the version history that a rollback reads and the     *)
(* compiled cache that every change reloads.                               *)
(*                                                                         *)
(* A step is one statement and what the handler does up to its next await. *)
(* What a request asks for (new settings, the version to go back to) is    *)
(* chosen where the handler uses it.  The audit entry and the scores that  *)
(* follow a write change no rule; they matter because they can fail.       *)
(*                                                                         *)
(* A snapshot keeps fourteen fields of a rule, and a rollback writes those *)
(* back and leaves the others as they are: settings and enabled stand for  *)
(* the ones, extras and the archive's mark for the others.  A rule's name  *)
(* and description are left out.                                           *)
(***************************************************************************)
EXTENDS Integers, Sequences

CONSTANTS
  Rules,          \* rule ids, of rules that exist and of rules to be created
  Requests,       \* administrative requests, one operation each
  Settings,       \* what snapshots keep: threshold, severity, metric, schedule mode
  Extras,         \* what they leave out: cron expression, tags, category, dependencies
  FirstVersions,  \* the versions a rule may be created with
  HistoryLimit,   \* snapshots kept per rule (20 in the code)
  None            \* the answer of a look-up that finds nothing

\* What a request may set of a rule.
Body == [settings: Settings, extras: Extras, enabled: BOOLEAN, archived: BOOLEAN]
Row == [version: Int, settings: Settings, extras: Extras, enabled: BOOLEAN, archived: BOOLEAN]
Snapshot == [version: Int, settings: Settings, enabled: BOOLEAN]

ASSUME AdministrationAssumption ==
  /\ 1 \in FirstVersions /\ FirstVersions \subseteq Int
  /\ HistoryLimit \in Nat \ {0}
  /\ None \notin Row \cup Snapshot \cup Rules

VARIABLES
  row,         \* the database: a rule's row, or None
  history,     \* versionHistory: snapshots of a rule, oldest first, in memory
  cache,       \* compiledCache: the live rules, in memory
  cacheRead,   \* which query the cache was filled from
  reads,       \* the queries for the cache, counted
  pc,          \* where a request is
  rule,        \* the rule it is about
  seen,        \* the row it has read
  target,      \* the snapshot a rollback goes back to
  fetched,     \* the answer to its query for the cache
  fetchedRead, \* and which query that was
  committed,   \* every row a rule has had in the database
  overlapped   \* two changes of the rule were once under way together

request == <<pc, rule, seen, target>>
cached == <<cache, cacheRead, reads, fetched, fetchedRead>>
vars == <<row, history, request, cached, committed, overlapped>>

\* A request has read a rule that it is about to change.
Changing == {"update", "reread", "rollback"}
Places == Changing \cup {"idle", "clone", "query", "fill", "done", "failed"}

Exists(r) == row[r] # None
SnapshotOf(w) == [version |-> w.version, settings |-> w.settings, enabled |-> w.enabled]
Entries(r) == {history[r][i] : i \in DOMAIN history[r]}

\* findMany(true): the rules that are enabled and not archived.
Live(rows) == [r \in Rules |->
  IF rows[r] # None /\ rows[r].enabled /\ ~rows[r].archived THEN rows[r] ELSE None]

NoRules == [r \in Rules |-> None]

\* The rows that create may insert, and those of the default templates.
NewRows ==
  [version: FirstVersions, settings: Settings, extras: Extras, enabled: BOOLEAN, archived: BOOLEAN]
Templates == {w \in NewRows : w.version = 1 /\ w.enabled /\ ~w.archived}

Init ==
  /\ row \in [Rules -> {None} \cup Templates]
  /\ history = [r \in Rules |-> << >>]
  /\ cache = Live(row) /\ cacheRead = 0 /\ reads = 0
  /\ pc = [q \in Requests |-> "idle"]
  /\ rule = [q \in Requests |-> None]
  /\ seen = [q \in Requests |-> None]
  /\ target = [q \in Requests |-> None]
  /\ fetched = [q \in Requests |-> NoRules]
  /\ fetchedRead = [q \in Requests |-> 0]
  /\ committed = [r \in Rules |-> IF Exists(r) THEN {row[r]} ELSE {}]
  /\ overlapped = [r \in Rules |-> FALSE]

-----------------------------------------------------------------------------
(* The statements the operations are made of *)

GoTo(q, place) == pc' = [pc EXCEPT ![q] = place]

\* What a request has read is of no use to it any more.
Forget(q) ==
  /\ rule' = [rule EXCEPT ![q] = None]
  /\ seen' = [seen EXCEPT ![q] = None]
  /\ target' = [target EXCEPT ![q] = None]

\* findById, the first statement of a change.
Find(q, r, place) ==
  /\ pc[q] = "idle" /\ Exists(r)
  /\ GoTo(q, place)
  /\ rule' = [rule EXCEPT ![q] = r]
  /\ seen' = [seen EXCEPT ![q] = row[r]]
  /\ overlapped' = [overlapped EXCEPT ![r] =
       @ \/ (place \in Changing /\ \E p \in Requests : rule[p] = r /\ pc[p] \in Changing)]
  /\ UNCHANGED <<row, committed, cached>>

\* A write of rule r.
Write(q, r, w, place) ==
  /\ row' = [row EXCEPT ![r] = w]
  /\ committed' = [committed EXCEPT ![r] = @ \cup {w}]
  /\ GoTo(q, place)
  /\ Forget(q)
  /\ UNCHANGED <<overlapped, cached>>

\* mutant: a full history takes no more
PushUntilFull(snapshots, s) ==
  IF Len(snapshots) >= HistoryLimit THEN snapshots ELSE Append(snapshots, s)

\* snapshotVersion: the newest snapshot goes to the end, the oldest one goes
\* when there are more than HistoryLimit.
Push(snapshots, s) ==
  IF Len(snapshots) >= HistoryLimit THEN Tail(Append(snapshots, s)) ELSE Append(snapshots, s)

SnapshotVersion(r, w) == history' = [history EXCEPT ![r] = Push(@, SnapshotOf(w))]

-----------------------------------------------------------------------------
(* updateRule *)

\* mutant: the snapshot is left out
FindUnkept(q, r) == Find(q, r, "update") /\ UNCHANGED <<history, target>>

FindForUpdate(q, r) ==
  /\ Find(q, r, "update")
  /\ SnapshotVersion(r, row[r])
  /\ UNCHANGED target

\* mutant: the version is not counted
RenumberedSame(old, b) ==
  [version |-> old.version, settings |-> b.settings, extras |-> b.extras,
   enabled |-> b.enabled, archived |-> b.archived]

\* The version counts on from the one that was read.
Renumbered(old, b) ==
  [version |-> old.version + 1, settings |-> b.settings, extras |-> b.extras,
   enabled |-> b.enabled, archived |-> b.archived]

\* The request's body goes into the statement as it is, the archive's mark
\* included; what it does not name stays as the row has it by then.
WriteUpdate(q) ==
  /\ pc[q] = "update" /\ Exists(rule[q])
  /\ \E b \in Body : Write(q, rule[q], Renumbered(seen[q], b), "query")
  /\ UNCHANGED history

-----------------------------------------------------------------------------
(* rollbackToVersion *)

\* history.find: the first snapshot that has the version.
\* mutant: the newest one is taken
FoundNewest(r, v, i) == i \in DOMAIN history[r] /\ i = Len(history[r])

FoundAt(r, v, i) ==
  /\ i \in DOMAIN history[r] /\ history[r][i].version = v
  /\ \A j \in 1 .. i - 1 : history[r][j].version # v

\* getRollbackPreview and the second look-up in the same stretch.  What the
\* snapshot says is kept under the version asked for.
FindSnapshot(q, r, v) ==
  /\ Find(q, r, "reread")
  /\ \E i \in 1 .. HistoryLimit :
       /\ FoundAt(r, v, i)
       /\ target' = [target EXCEPT ![q] = [history[r][i] EXCEPT !.version = v]]
  /\ UNCHANGED history

\* The version is read once more for the number of the new one.
RereadVersion(q) ==
  /\ pc[q] = "reread" /\ Exists(rule[q])
  /\ seen' = [seen EXCEPT ![q] = row[rule[q]]]
  /\ GoTo(q, "rollback")
  /\ UNCHANGED <<row, history, rule, target, cached, committed, overlapped>>

\* What the snapshot has kept is written over the row; the rest of it stays.
Restored(w, s) == [w EXCEPT !.settings = s.settings, !.enabled = s.enabled]

WriteRollback(q) ==
  /\ pc[q] = "rollback" /\ Exists(rule[q])
  /\ Write(q, rule[q], Renumbered(seen[q], Restored(row[rule[q]], target[q])), "query")
  /\ UNCHANGED history

-----------------------------------------------------------------------------
(* createRule, importRules and cloneRule; archiveRule and deleteRule *)

\* A rule's id is new: no rule has had it.
IsNew(r) == committed[r] = {}

CreateRule(q, r) ==
  /\ pc[q] = "idle" /\ IsNew(r)
  /\ \E w \in NewRows : Write(q, r, w, "query") /\ SnapshotVersion(r, w)

\* An imported rule, whose name no rule had, is off and has no snapshot.
ImportRule(q, r) ==
  /\ pc[q] = "idle" /\ IsNew(r)
  /\ \E w \in NewRows : w.version = 1 /\ ~w.enabled /\ Write(q, r, w, "query")
  /\ UNCHANGED history

FindForClone(q, r) == Find(q, r, "clone") /\ UNCHANGED <<history, target>>

\* The repository has read the source and creates the copy, off, active and
\* without a snapshot.
Copied(w) == [w EXCEPT !.version = 1, !.enabled = FALSE, !.archived = FALSE]

WriteClone(q, copy) ==
  /\ pc[q] = "clone" /\ IsNew(copy)
  /\ Write(q, copy, Copied(seen[q]), "query")
  /\ UNCHANGED history

Archived(w) == [w EXCEPT !.enabled = FALSE, !.archived = TRUE]

\* What the handler looks up first decides nothing that the statement itself
\* does not.
ArchiveRule(q, r) ==
  /\ pc[q] = "idle" /\ Exists(r)
  /\ Write(q, r, Archived(row[r]), "query")
  /\ UNCHANGED history

\* A deletion that fails, or finds nothing, is not reported: the cache is
\* reloaded all the same.
\* mutant: it is not
DeleteUnloaded(q, r) ==
  /\ pc[q] = "idle"
  /\ row' = [row EXCEPT ![r] = None]
  /\ GoTo(q, "done")
  /\ UNCHANGED <<history, rule, seen, target, cached, committed, overlapped>>

DeleteRule(q, r) ==
  /\ pc[q] = "idle"
  /\ row' \in {row, [row EXCEPT ![r] = None]}
  /\ GoTo(q, "query")
  /\ UNCHANGED <<history, rule, seen, target, cached, committed, overlapped>>

-----------------------------------------------------------------------------
(* What follows a write, and what may go wrong *)

\* reloadRules, up to the answer and from the answer on: answers to different
\* requests may come in any order.
ReadRules(q) ==
  /\ pc[q] = "query"
  /\ fetched' = [fetched EXCEPT ![q] = Live(row)]
  /\ fetchedRead' = [fetchedRead EXCEPT ![q] = reads + 1]
  /\ reads' = reads + 1
  /\ GoTo(q, "fill")
  /\ UNCHANGED <<row, history, cache, cacheRead, rule, seen, target, committed, overlapped>>

FillCache(q) ==
  /\ pc[q] = "fill"
  /\ cache' = fetched[q]
  /\ cacheRead' = fetchedRead[q]
  /\ GoTo(q, "done")
  /\ fetched' = [fetched EXCEPT ![q] = NoRules] /\ fetchedRead' = [fetchedRead EXCEPT ![q] = 0]
  /\ UNCHANGED <<row, history, reads, rule, seen, target, committed, overlapped>>

\* A statement fails or finds no row: the exception ends the request.  After the
\* write, where the audit entry and the scores are stored, the cache stays as
\* it was.
Fail(q) ==
  /\ pc[q] \notin {"idle", "done", "failed"}
  /\ GoTo(q, IF pc[q] \in {"query", "fill"} THEN "failed" ELSE "done")
  /\ Forget(q)
  /\ fetched' = [fetched EXCEPT ![q] = NoRules] /\ fetchedRead' = [fetchedRead EXCEPT ![q] = 0]
  /\ UNCHANGED <<row, history, cache, cacheRead, reads, committed, overlapped>>

\* A new process (onModuleInit): the requests and the history are gone, the
\* default templates whose names no rule has are created, the cache is filled.
Restart ==
  \E seeded \in [Rules -> Templates \cup {None}] :
    LET w == [r \in Rules |-> IF seeded[r] = None THEN row[r] ELSE seeded[r]]
    IN  /\ \A r \in Rules : seeded[r] # None => IsNew(r)
        /\ row' = w
        /\ committed' = [r \in Rules |-> IF seeded[r] = None THEN committed[r] ELSE {seeded[r]}]
        /\ history' = [r \in Rules |-> << >>]
        /\ cache' = Live(w) /\ cacheRead' = 0 /\ reads' = 0
        /\ pc' = [q \in Requests |-> IF pc[q] = "idle" THEN "idle" ELSE "done"]
        /\ seen' = [q \in Requests |-> None] /\ rule' = seen' /\ target' = [q \in Requests |-> None]
        /\ fetched' = [q \in Requests |-> NoRules] /\ fetchedRead' = [q \in Requests |-> 0]
        /\ UNCHANGED overlapped

Administer(q) ==
  \/ \E r \in Rules :
       \/ FindForUpdate(q, r) \/ CreateRule(q, r) \/ ImportRule(q, r) \/ FindForClone(q, r)
       \/ ArchiveRule(q, r) \/ DeleteRule(q, r)
       \/ \E s \in Entries(r) : FindSnapshot(q, r, s.version)
       \/ WriteClone(q, r)
  \/ WriteUpdate(q) \/ RereadVersion(q) \/ WriteRollback(q)
  \/ ReadRules(q) \/ FillCache(q) \/ Fail(q)

Next == (\E q \in Requests : Administer(q)) \/ Restart

Spec == Init /\ [][Next]_vars

-----------------------------------------------------------------------------
(* Properties *)

\* Every variable has its type, a request that is about to write has read a
\* row, and a rollback knows what it goes back to.
TypeOK ==
  /\ row \in [Rules -> Row \cup {None}]
  /\ history \in [Rules -> Seq(Snapshot)] /\ \A r \in Rules : Len(history[r]) <= HistoryLimit
  /\ cache \in [Rules -> Row \cup {None}] /\ cacheRead \in Nat /\ reads \in Nat
  /\ pc \in [Requests -> Places] /\ rule \in [Requests -> Rules \cup {None}]
  /\ seen \in [Requests -> Row \cup {None}] /\ target \in [Requests -> Snapshot \cup {None}]
  /\ fetched \in [Requests -> [Rules -> Row \cup {None}]] /\ fetchedRead \in [Requests -> Nat]
  /\ committed \in [Rules -> SUBSET Row] /\ overlapped \in [Rules -> BOOLEAN]
  /\ \A q \in Requests : pc[q] \in Changing \cup {"clone"} => seen[q] # None /\ rule[q] # None
  /\ \A q \in Requests : pc[q] \in {"reread", "rollback"} => target[q] # None

\* What the history says of a version is what the rule said in that version,
\* whichever changes overlap, fail or die (snapshotVersion).
HistoryIsHonest == \A r \in Rules : Entries(r) \subseteq {SnapshotOf(c) : c \in committed[r]}

SaysTheSame(a, b) == a.settings = b.settings /\ a.extras = b.extras

\* A version number names one state of what a rule says, on which the history and
\* its look-up by number rest, unless two changes that had both read the rule
\* were under way together (updateRule, rollbackToVersion: read, then write
\* the version read plus one).
VersionNamesOneState ==
  \A r \in Rules : ~overlapped[r] =>
    \A a, b \in committed[r] : a.version = b.version => SaysTheSame(a, b)

\* The cache is the rules as they are, when each write since the start has been
\* followed by its reload and the answer to the last query came last
\* (reloadRules at the end of every operation).
CacheFollows ==
  (\A q \in Requests : pc[q] \notin {"query", "failed"}) /\ cacheRead = reads
    => cache = Live(row)

\* A rollback writes back what a row of the version asked for had in the fields
\* that snapshots keep, and takes the others from the row as it is, not as it
\* was read, though it reads the history, the rule and the rule again
\* (rollbackToVersion).
RollbackRestores ==
  [][\A q \in Requests : pc[q] = "rollback" /\ pc'[q] = "query" =>
       LET r == rule[q] IN
       /\ \E c \in committed[r] :
            /\ c.version = target[q].version
            /\ c.settings = row'[r].settings /\ c.enabled = row'[r].enabled
       /\ row'[r].extras = row[r].extras /\ row'[r].archived = row[r].archived]_vars

\* The settings that an update replaces can be gone back to: they are in the
\* history when the update is written, whatever the limit has dropped, unless
\* changes of the rule overlapped (updateRule, "snapshot before update").  The
\* extras it replaces are kept nowhere.
SettingsAreUndoable ==
  [][\A q \in Requests :
       pc[q] = "update" /\ pc'[q] = "query" /\ ~overlapped[rule[q]] =>
         \E s \in Entries(rule[q]) :
           s.version = row[rule[q]].version /\ s.settings = row[rule[q]].settings]_vars

Versioned == INSTANCE VersionedRules WITH
  past <- committed,
  torn <- {r \in Rules : overlapped[r]}

\* Reading a rule, taking its snapshot and writing it amount to one atomic change
\* that makes the next version of the rule as it is, unless two changes of the
\* rule overlapped (updateRule, rollbackToVersion); archiving, removing and
\* creating it make no next version, and no rule comes back.
ImplementsVersioned == Versioned!VersionedSpec
=============================================================================
