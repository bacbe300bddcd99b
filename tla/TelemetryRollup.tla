--------------------------- MODULE TelemetryRollup ---------------------------
(***************************************************************************)
(* One tier (1m, 15m, 1h or 1d) of the telemetry rollup: a cron job        *)
(* (TelemetryCronService) that takes a lock kept as a row of KeyValue,     *)
(* reads the time of its last run, fetches the raw snapshots stamped since *)
(* then, and adds their aggregates and the new time in one transaction     *)
(* (TelemetryAggregationService).  The tiers have keys of their own and    *)
(* share only the snapshots, which they read.                              *)
(*                                                                         *)
(* A snapshot is stamped by the agent when it is taken and stored when the *)
(* agent's outbox has delivered it.  How a run groups its snapshots into   *)
(* buckets is data: the model counts in how many rows a snapshot went.     *)
(***************************************************************************)
EXTENDS Integers, FiniteSets

CONSTANTS
  Snapshots,    \* snapshots of one behaviour
  Jobs,         \* bound: jobs alive at the same time
  MaxTime,      \* bound: the clock stops here, the cron goes on
  Period,       \* ticks between two firings of the cron
  Window,       \* how far the first run looks back (5 min for 1m)
  MaxDelay,     \* from taking a snapshot to storing it, in ticks
  MaxAhead,     \* how far an agent's clock may be ahead
  MaxCrashes,   \* bound: process deaths
  PromptLock    \* the lock's two statements are answered within a period

ASSUME RollupAssumption ==
  /\ MaxTime \in Nat
  /\ Period \in Nat \ {0}
  /\ Window \in Nat
  /\ MaxDelay \in Nat
  /\ MaxAhead \in Nat
  /\ MaxCrashes \in Nat
  /\ PromptLock \in BOOLEAN

Times == 0..MaxTime
Starts == (-Window)..MaxTime
Never == -Window - 1        \* no value in KeyValue yet

VARIABLES
  clock,
  \* the database
  stored,      \* rows of telemetry_snapshots
  stamp,       \* their timestamp
  lock,        \* KeyValue aggregation_lock_<tier>; no row reads as IDLE
  watermark,   \* KeyValue aggregation_last_run_<tier>, or Never
  counted,     \* in how many aggregates a snapshot is, saturated at 2
  \* the jobs of the process
  pc,          \* idle, check, take, read, fetch, commit, release
  since,       \* lastRun
  upTo,        \* now
  batch,       \* the snapshots fetched
  crashes,
  \* history
  late,        \* stored after a run had fetched past their timestamp
  horizon,     \* where the first successful run began
  orphaned     \* the lock was left RUNNING by a job that is gone

snapshotTable == <<stored, stamp, late>>
ledger == <<watermark, counted, horizon>>
work == <<since, upTo, batch>>
vars == <<clock, snapshotTable, lock, ledger, pc, work, crashes, orphaned>>

Acquiring == {j \in Jobs : pc[j] \in {"check", "take"}}
Holding == {j \in Jobs : pc[j] \in {"read", "fetch", "commit", "release"}}

GoTo(j, step) == pc' = [pc EXCEPT ![j] = step]

-----------------------------------------------------------------------------
\* Time passes; every Period-th tick fires the cron, whatever earlier firings
\* are still at work.
Fires == (clock + 1) % Period = 0 \/ clock = MaxTime
Tick ==
  /\ PromptLock => Acquiring = {}
  /\ clock' = IF clock = MaxTime THEN clock ELSE clock + 1
  /\ IF Fires
     THEN \E j \in Jobs : pc[j] = "idle" /\ GoTo(j, "check")
     ELSE UNCHANGED pc
  /\ UNCHANGED <<snapshotTable, lock, ledger, work, crashes, orphaned>>

\* A run that has fetched, or has committed, up to t will not look there again.
IsClosed(t) ==
  \/ watermark # Never /\ t <= watermark
  \/ \E j \in Jobs : pc[j] = "commit" /\ t <= upTo[j]

\* TelemetryService.ingest: the row carries the agent's timestamp.
Ingest(s, t) ==
  /\ s \notin stored
  /\ t \in Times
  /\ clock - MaxDelay <= t /\ t <= clock + MaxAhead
  /\ stored' = stored \cup {s}
  /\ stamp' = [stamp EXCEPT ![s] = t]
  /\ late' = IF IsClosed(t) THEN late \cup {s} ELSE late
  /\ UNCHANGED <<clock, lock, ledger, pc, work, crashes, orphaned>>

-----------------------------------------------------------------------------
\* acquireLock, first statement: a job that reads RUNNING gives up.
LockIsFree == lock # "RUNNING"
CheckLock(j) ==
  /\ pc[j] = "check"
  /\ GoTo(j, IF LockIsFree THEN "take" ELSE "idle")
  /\ UNCHANGED <<clock, snapshotTable, lock, ledger, work, crashes, orphaned>>

\* acquireLock, second statement.
TakeLock(j) ==
  /\ pc[j] = "take"
  /\ lock' = "RUNNING"
  /\ GoTo(j, "read")
  /\ UNCHANGED <<clock, snapshotTable, ledger, work, crashes, orphaned>>

\* Either statement fails, and acquireLock answers false.  The upsert may have
\* been applied although its answer was lost.
AcquireFails(j) ==
  /\ j \in Acquiring
  /\ lock' \in IF pc[j] = "take" THEN {lock, "RUNNING"} ELSE {lock}
  /\ orphaned' = (orphaned \/ lock' # lock)
  /\ GoTo(j, "idle")
  /\ UNCHANGED <<clock, snapshotTable, ledger, work, crashes>>

\* getDefaultLastRun, for the first run.
DefaultLastRun == clock - Window

\* The last run's time is read, then the clock.
ReadLastRun(j) ==
  /\ pc[j] = "read"
  /\ since' = [since EXCEPT ![j] = IF watermark = Never THEN DefaultLastRun ELSE watermark]
  /\ upTo' = [upTo EXCEPT ![j] = clock]
  /\ GoTo(j, "fetch")
  /\ UNCHANGED <<clock, snapshotTable, lock, ledger, batch, crashes, orphaned>>

InRangeClosed(j, t) == since[j] <= t /\ t <= upTo[j]   \* mutant: gte lastRun
\* timestamp: gt lastRun, lte now.
InRange(j, t) == since[j] < t /\ t <= upTo[j]

FetchSnapshots(j) ==
  /\ pc[j] = "fetch"
  /\ batch' = [batch EXCEPT ![j] = {s \in stored : InRange(j, stamp[s])}]
  /\ GoTo(j, "commit")
  /\ UNCHANGED <<clock, snapshotTable, lock, ledger, since, upTo, crashes, orphaned>>

CommitTime(j) == clock          \* mutant: the time of the commit is recorded
RunTime(j) == upTo[j]

\* One transaction: an aggregate per device and bucket, and the run's time.  A
\* run that fetched nothing writes the time alone.
Commit(j) ==
  /\ pc[j] = "commit"
  /\ counted' = [s \in Snapshots |->
                   IF s \in batch[j] /\ counted[s] < 2 THEN counted[s] + 1 ELSE counted[s]]
  /\ watermark' = RunTime(j)
  /\ horizon' = IF watermark = Never THEN since[j] ELSE horizon
  /\ GoTo(j, "release")
  /\ UNCHANGED <<clock, snapshotTable, lock, work, crashes, orphaned>>

AfterFailureIdle == "idle"      \* mutant: no finally around the run
AfterFailure == "release"
\* A statement of the run fails; nothing of a failed transaction stays.  (A
\* transaction whose answer alone is lost has been applied: that is Commit.)
RunFails(j) ==
  /\ pc[j] \in {"read", "fetch", "commit"}
  /\ GoTo(j, AfterFailure)
  /\ UNCHANGED <<clock, snapshotTable, lock, ledger, work, crashes, orphaned>>

\* releaseLock, in the finally of the cron handler; its own failure is logged.
ReleaseLock(j) ==
  /\ pc[j] = "release"
  /\ lock' = "IDLE"
  /\ GoTo(j, "idle")
  /\ UNCHANGED <<clock, snapshotTable, ledger, work, crashes, orphaned>>

ReleaseFails(j) ==
  /\ pc[j] = "release"
  /\ orphaned' = TRUE
  /\ GoTo(j, "idle")
  /\ UNCHANGED <<clock, snapshotTable, lock, ledger, work, crashes>>

\* The process dies, or is stopped while a job runs, and is started again.
Crash ==
  /\ crashes < MaxCrashes
  /\ crashes' = crashes + 1
  /\ pc' = [j \in Jobs |-> "idle"]
  /\ orphaned' = (orphaned \/ lock = "RUNNING")
  /\ UNCHANGED <<clock, snapshotTable, lock, ledger, work>>

-----------------------------------------------------------------------------
Init ==
  /\ clock = 0
  /\ stored = {}
  /\ stamp = [s \in Snapshots |-> 0]
  /\ lock = "IDLE"
  /\ watermark = Never
  /\ counted = [s \in Snapshots |-> 0]
  /\ pc = [j \in Jobs |-> "idle"]
  /\ since = [j \in Jobs |-> 0]
  /\ upTo = [j \in Jobs |-> 0]
  /\ batch = [j \in Jobs |-> {}]
  /\ crashes = 0
  /\ late = {}
  /\ horizon = Never
  /\ orphaned = FALSE

Run(j) ==
  \/ CheckLock(j) \/ TakeLock(j) \/ AcquireFails(j)
  \/ ReadLastRun(j) \/ FetchSnapshots(j) \/ Commit(j) \/ RunFails(j)
  \/ ReleaseLock(j) \/ ReleaseFails(j)

Next ==
  \/ Tick
  \/ \E s \in Snapshots, t \in Times : Ingest(s, t)
  \/ \E j \in Jobs : Run(j)
  \/ Crash

Spec == Init /\ [][Next]_vars

\* The clock runs, every statement is answered or fails, and no statement of a
\* run fails every time it is tried.
Fairness ==
  /\ WF_vars(Tick)
  /\ \A j \in Jobs : WF_vars(Run(j))
  /\ SF_vars(\E j \in Jobs : CheckLock(j))
  /\ SF_vars(\E j \in Jobs : TakeLock(j))
  /\ SF_vars(\E j \in Jobs : ReadLastRun(j))
  /\ SF_vars(\E j \in Jobs : FetchSnapshots(j))
  /\ SF_vars(\E j \in Jobs : Commit(j))

FairSpec == Spec /\ Fairness

-----------------------------------------------------------------------------
\* Every variable ranges over what its declaration says; a run looks back at
\* most Window from the start of time.
TypeOK ==
  /\ clock \in Times
  /\ stored \subseteq Snapshots
  /\ stamp \in [Snapshots -> Times]
  /\ lock \in {"IDLE", "RUNNING"}
  /\ watermark \in Times \cup {Never}
  /\ counted \in [Snapshots -> 0..2]
  /\ pc \in [Jobs -> {"idle", "check", "take", "read", "fetch", "commit", "release"}]
  /\ since \in [Jobs -> Starts]
  /\ upTo \in [Jobs -> Times]
  /\ batch \in [Jobs -> SUBSET Snapshots]
  /\ crashes \in 0..MaxCrashes
  /\ late \subseteq Snapshots
  /\ horizon \in Starts \cup {Never}
  /\ orphaned \in BOOLEAN

\* No snapshot is in two aggregates, whatever runs fail or die at whatever
\* point and are repeated, as long as the lock's two statements together take
\* less than a period: lock, last run and transaction make the rollup
\* exactly-once.
CountedOnce == PromptLock => \A s \in Snapshots : counted[s] <= 1

\* A run's time is moved past a snapshot only when the snapshot is in an
\* aggregate, unless it came late or lies before the first run's window: what
\* a failed or interrupted run had fetched is fetched again.
NothingSkipped ==
  PromptLock /\ watermark # Never =>
    \A s \in stored \ late :
      horizon < stamp[s] /\ stamp[s] <= watermark => counted[s] = 1

Once == INSTANCE OnceRollup WITH
  Moments <- Starts,
  arrived <- stored,
  passed <- late,
  cut <- watermark,
  rolled <- counted

\* Lock, last run, fetch and transaction of overlapping, failing and dying jobs
\* amount to one atomic rollup of what lies between two cuts in time, if the lock
\* is acquired within a period (acquireLock, aggregateSnapshots).
ImplementsOnce == Once!OnceSpec

\* Every snapshot that does not come late ends up in an aggregate, or before the
\* first window, or the lock was left behind by a job that is gone.
TimelyIsRolledUp ==
  \A s \in Snapshots :
    s \in stored \ late ~>
      (counted[s] > 0 \/ orphaned \/ (watermark # Never /\ stamp[s] <= horizon))
=============================================================================
