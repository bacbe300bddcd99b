------------------------ MODULE TelemetryRollupProofs ------------------------
(***************************************************************************)
(* What failed, overlapping and killed rollup jobs cannot break, for any   *)
(* number of snapshots and jobs, periods and delays: a snapshot is rolled  *)
(* up at most once, and none that came in time is passed over.             *)
(***************************************************************************)
EXTENDS TelemetryRollup, TLAPS

\* The lock: one job at a time acquires or holds it, and RUNNING says so.
LockInv ==
  /\ \A i, j \in Jobs : i \in Acquiring /\ j \in Acquiring => i = j
  /\ \A i, j \in Jobs : i \in Holding /\ j \in Holding => i = j
  /\ \A i, j \in Jobs : pc[i] = "take" => j \notin Holding
  /\ Holding # {} => lock = "RUNNING"

Reading(j) == pc[j] \in {"fetch", "commit"}

\* A run works from the last run's time to its own.
RangeInv ==
  /\ watermark <= clock
  /\ \A j \in Jobs : Reading(j) =>
       /\ watermark <= upTo[j] /\ upTo[j] <= clock
       /\ watermark # Never => since[j] = watermark

\* What a run commits is what its range holds, but for what came late.
BatchInv ==
  \A j \in Jobs : pc[j] = "commit" =>
    /\ \A s \in batch[j] : s \in stored /\ InRange(j, stamp[s])
    /\ \A s \in stored \ late : InRange(j, stamp[s]) => s \in batch[j]

\* What was rolled up, and all of it, lies before the last run's time.
LedgerInv ==
  /\ \A s \in Snapshots : counted[s] # 0 =>
       counted[s] = 1 /\ s \in stored /\ stamp[s] <= watermark
  /\ watermark # Never =>
       \A s \in stored \ late :
         horizon < stamp[s] /\ stamp[s] <= watermark => counted[s] = 1

RollupInv == LockInv /\ RangeInv /\ BatchInv /\ LedgerInv

USE RollupAssumption DEF RollupAssumption

-----------------------------------------------------------------------------
\* Every reachable state is well typed, for any snapshots, jobs and periods.
THEOREM TypeCorrect == Spec => []TypeOK
<1>1. Init => TypeOK
  <2> SUFFICES ASSUME Init PROVE TypeOK
    OBVIOUS
  <2>1. 0 \in Times /\ 0 \in Starts
    BY DEF Times, Starts
  <2>2. /\ clock \in Times /\ stored \subseteq Snapshots /\ stamp \in [Snapshots -> Times]
        /\ lock \in {"IDLE", "RUNNING"} /\ watermark \in Times \cup {Never}
        /\ counted \in [Snapshots -> 0..2]
    BY <2>1 DEF Init
  <2>3. pc \in [Jobs -> {"idle", "check", "take", "read", "fetch", "commit", "release"}]
    BY DEF Init
  <2>4. /\ since \in [Jobs -> Starts] /\ upTo \in [Jobs -> Times]
        /\ batch \in [Jobs -> SUBSET Snapshots] /\ crashes \in 0..MaxCrashes
    BY <2>1 DEF Init
  <2>5. late \subseteq Snapshots /\ horizon \in Starts \cup {Never} /\ orphaned \in BOOLEAN
    BY DEF Init
  <2>6. QED
    BY <2>2, <2>3, <2>4, <2>5 DEF TypeOK
<1>2. TypeOK /\ [Next]_vars => TypeOK'
  <2> SUFFICES ASSUME TypeOK, [Next]_vars PROVE TypeOK'
    OBVIOUS
  <2> USE DEF TypeOK
  <2>1. CASE Tick
    BY <2>1 DEF Tick, Fires, GoTo, Times, snapshotTable, ledger, work
  <2>2. ASSUME NEW s \in Snapshots, NEW t \in Times, Ingest(s, t) PROVE TypeOK'
    BY <2>2 DEF Ingest, ledger, work
  <2>3. ASSUME NEW j \in Jobs, Run(j) PROVE TypeOK'
    <3> USE DEF GoTo, snapshotTable, ledger, work
    <3>1. CASE CheckLock(j)      BY <3>1 DEF CheckLock
    <3>2. CASE TakeLock(j)       BY <3>2 DEF TakeLock
    <3>3. CASE AcquireFails(j)   BY <3>3 DEF AcquireFails
    <3>4. CASE ReadLastRun(j)
      <4>1. since' \in [Jobs -> Starts]
        BY <3>4 DEF ReadLastRun, DefaultLastRun, Times, Starts, Never
      <4>2. QED
        BY <3>4, <4>1 DEF ReadLastRun
    <3>5. CASE FetchSnapshots(j)
      <4>1. batch' \in [Jobs -> SUBSET Snapshots]
        BY <3>5 DEF FetchSnapshots
      <4>2. QED
        BY <3>5, <4>1 DEF FetchSnapshots
    <3>6. CASE Commit(j)
      <4>1. counted' \in [Snapshots -> 0..2]
        BY <3>6 DEF Commit
      <4>2. QED
        BY <3>6, <4>1 DEF Commit, RunTime
    <3>7. CASE RunFails(j)       BY <3>7 DEF RunFails, AfterFailure
    <3>8. CASE ReleaseLock(j)    BY <3>8 DEF ReleaseLock
    <3>9. CASE ReleaseFails(j)   BY <3>9 DEF ReleaseFails
    <3>10. QED
      BY <2>3, <3>1, <3>2, <3>3, <3>4, <3>5, <3>6, <3>7, <3>8, <3>9 DEF Run
  <2>4. CASE Crash
    BY <2>4 DEF Crash, snapshotTable, ledger, work
  <2>5. CASE UNCHANGED vars
    BY <2>5 DEF vars, snapshotTable, ledger, work
  <2>6. QED
    BY <2>1, <2>2, <2>3, <2>4, <2>5 DEF Next
<1>3. QED
  BY <1>1, <1>2, PTL DEF Spec

-----------------------------------------------------------------------------
\* A step of one job leaves the place of every other job alone.
LEMMA OnlyOneMoves ==
  ASSUME TypeOK, NEW j \in Jobs, Run(j)
  PROVE  \A i \in Jobs : i # j => pc'[i] = pc[i]
BY DEF TypeOK, Run, GoTo, CheckLock, TakeLock, AcquireFails, ReadLastRun, FetchSnapshots,
       Commit, RunFails, ReleaseLock, ReleaseFails

\* At most one job acquires, at most one holds, as long as the cron does not
\* fire into an acquisition.
LEMMA LockStep ==
  ASSUME TypeOK, PromptLock, LockInv, [Next]_vars
  PROVE  LockInv'
<1> USE DEF LockInv, Acquiring, Holding
<1>1. CASE Tick
  <2>1. /\ \A i \in Jobs : pc[i] \notin {"check", "take"}
        /\ lock' = lock
    BY <1>1 DEF Tick
  <2>2. QED
    BY <1>1, <2>1 DEF Tick, GoTo, TypeOK
<1>2. ASSUME NEW s \in Snapshots, NEW t \in Times, Ingest(s, t) PROVE LockInv'
  BY <1>2 DEF Ingest
<1>3. ASSUME NEW j \in Jobs, Run(j) PROVE LockInv'
  <2>1. \A i \in Jobs : i # j => pc'[i] = pc[i]
    BY <1>3, OnlyOneMoves
  <2> USE <2>1 DEF GoTo, TypeOK
  <2>2. CASE CheckLock(j)
    BY <2>2 DEF CheckLock, LockIsFree
  <2>3. CASE TakeLock(j)
    BY <2>3 DEF TakeLock
  <2>4. CASE AcquireFails(j)
    BY <2>4 DEF AcquireFails
  <2>5. CASE ReadLastRun(j) \/ FetchSnapshots(j) \/ Commit(j) \/ RunFails(j)
    <3>1. j \in Holding /\ pc'[j] \notin {"check", "take"} /\ lock' = lock
      BY <2>5 DEF ReadLastRun, FetchSnapshots, Commit, RunFails, AfterFailure
    <3>2. QED
      BY <3>1
  <2>6. CASE ReleaseLock(j)
    BY <2>6 DEF ReleaseLock
  <2>7. CASE ReleaseFails(j)
    BY <2>7 DEF ReleaseFails
  <2>8. QED
    BY <1>3, <2>2, <2>3, <2>4, <2>5, <2>6, <2>7 DEF Run
<1>4. CASE Crash
  BY <1>4 DEF Crash
<1>5. CASE UNCHANGED vars
  BY <1>5 DEF vars
<1>6. QED
  BY <1>1, <1>2, <1>3, <1>4, <1>5 DEF Next

\* The steps that touch neither the runs at work nor what they write.
LEMMA FrameStep ==
  ASSUME TypeOK, RangeInv, BatchInv, LedgerInv,
         UNCHANGED <<snapshotTable, ledger, since, upTo, batch>>,
         clock' \in Times, clock <= clock',
         \A i \in Jobs : pc'[i] # pc[i] => pc'[i] \notin {"fetch", "commit"}
  PROVE  RangeInv' /\ BatchInv' /\ LedgerInv'
<1>1. RangeInv'
  BY DEF RangeInv, Reading, TypeOK, Times, Never, ledger
<1>2. BatchInv'
  BY DEF BatchInv, InRange, snapshotTable
<1>3. LedgerInv'
  BY DEF LedgerInv, snapshotTable, ledger
<1>4. QED
  BY <1>1, <1>2, <1>3

\* A snapshot is stored: behind a run that has looked there it counts as late.
LEMMA IngestStep ==
  ASSUME TypeOK, RangeInv, BatchInv, LedgerInv,
         NEW s \in Snapshots, NEW t \in Times, Ingest(s, t)
  PROVE  RangeInv' /\ BatchInv' /\ LedgerInv'
<1> USE DEF Ingest, ledger, work
<1>1. RangeInv'
  BY DEF RangeInv, Reading
<1>2. stamp'[s] = t /\ \A r \in Snapshots : r # s => stamp'[r] = stamp[r]
  BY DEF TypeOK
<1>3. stored' = stored \cup {s} /\ s \notin stored /\ stored \subseteq Snapshots
  BY DEF TypeOK
<1>4. BatchInv'
  <2> SUFFICES ASSUME NEW j \in Jobs, pc[j] = "commit"
               PROVE  /\ \A r \in batch[j] : r \in stored' /\ InRange(j, stamp[r])'
                      /\ \A r \in stored' \ late' : InRange(j, stamp[r])' => r \in batch[j]
    BY DEF BatchInv
  <2>1. s \notin late' => ~InRange(j, stamp[s])'
    BY <1>2 DEF InRange, IsClosed
  <2>2. QED
    BY <1>2, <1>3, <2>1 DEF BatchInv, InRange
<1>5. LedgerInv'
  <2>1. counted[s] = 0
    BY <1>3 DEF LedgerInv
  <2>2. s \notin late' /\ watermark # Never => ~(stamp'[s] <= watermark)
    BY <1>2 DEF IsClosed
  <2>3. QED
    BY <1>2, <1>3, <2>1, <2>2 DEF LedgerInv
<1>6. QED
  BY <1>1, <1>4, <1>5

\* A run commits: what it adds was in no aggregate, and it adds all there is.
LEMMA CommitStep ==
  ASSUME TypeOK, LockInv, RangeInv, BatchInv, LedgerInv, NEW j \in Jobs, Commit(j)
  PROVE  RangeInv' /\ BatchInv' /\ LedgerInv'
<1> USE DEF Commit, RunTime, GoTo
<1>1. /\ watermark <= upTo[j] /\ upTo[j] <= clock /\ watermark' = upTo[j]
      /\ watermark # Never => since[j] = watermark
  BY DEF RangeInv, Reading
<1>2. \A i \in Jobs : ~Reading(i)'
  BY DEF Reading, LockInv, Holding, TypeOK
<1>3. RangeInv'
  BY <1>1, <1>2 DEF RangeInv
<1>4. BatchInv'
  BY <1>2 DEF BatchInv, Reading
<1>5. upTo[j] \in Times /\ since[j] \in Starts /\ stamp \in [Snapshots -> Times]
  BY DEF TypeOK
<1>6. \A s \in Snapshots : watermark = Never => ~(stamp[s] <= watermark)
  BY <1>5 DEF Times, Never
<1>7. \A s \in batch[j] : /\ s \in stored /\ since[j] < stamp[s] /\ stamp[s] <= upTo[j]
                          /\ counted[s] = 0
  <2> SUFFICES ASSUME NEW s \in batch[j]
               PROVE  /\ s \in stored /\ since[j] < stamp[s] /\ stamp[s] <= upTo[j]
                      /\ counted[s] = 0
    OBVIOUS
  <2>1. s \in Snapshots /\ s \in stored /\ since[j] < stamp[s] /\ stamp[s] <= upTo[j]
    BY DEF BatchInv, InRange, TypeOK
  <2>2. ~(stamp[s] <= watermark)
    BY <1>1, <1>5, <1>6, <2>1 DEF Times, Starts
  <2>3. QED
    BY <2>1, <2>2 DEF LedgerInv
<1>8. \A s \in Snapshots : counted'[s] = IF s \in batch[j] THEN 1 ELSE counted[s]
  BY <1>7 DEF TypeOK
<1>9. \A s \in Snapshots : counted'[s] # 0 =>
        counted'[s] = 1 /\ s \in stored /\ stamp[s] <= watermark'
  <2> SUFFICES ASSUME NEW s \in Snapshots, counted'[s] # 0
               PROVE  counted'[s] = 1 /\ s \in stored /\ stamp[s] <= watermark'
    OBVIOUS
  <2>1. CASE s \in batch[j]
    BY <1>1, <1>7, <1>8, <2>1
  <2>2. CASE s \notin batch[j]
    <3>1. counted[s] = 1 /\ s \in stored /\ stamp[s] <= watermark /\ counted'[s] = 1
      BY <1>8, <2>2 DEF LedgerInv
    <3>2. watermark # Never
      BY <1>6, <3>1
    <3>3. QED
      BY <1>1, <1>5, <3>1, <3>2 DEF TypeOK, Times
  <2>3. QED
    BY <2>1, <2>2
<1>10. ASSUME NEW s \in stored \ late, horizon' < stamp[s], stamp[s] <= upTo[j]
       PROVE  counted'[s] = 1
  <2>1. s \in Snapshots /\ stamp[s] \in Times
    BY <1>5 DEF TypeOK
  <2>2. CASE since[j] < stamp[s]
    BY <1>8, <1>10, <2>1, <2>2 DEF BatchInv, InRange
  <2>3. CASE ~(since[j] < stamp[s])
    <3>1. watermark # Never
      BY <1>10, <2>3
    <3>2. horizon < stamp[s] /\ stamp[s] <= watermark
      BY <1>1, <1>5, <1>10, <2>1, <2>3, <3>1 DEF Times, Starts
    <3>3. counted[s] = 1
      BY <3>1, <3>2 DEF LedgerInv
    <3>4. QED
      BY <1>8, <2>1, <3>3
  <2>4. QED
    BY <2>2, <2>3
<1>11. LedgerInv'
  BY <1>1, <1>9, <1>10 DEF LedgerInv, snapshotTable
<1>12. QED
  BY <1>3, <1>4, <1>11

\* Every step of a job keeps the range, the batch and the ledger right.
LEMMA RunStep ==
  ASSUME TypeOK, LockInv, RangeInv, BatchInv, LedgerInv, NEW j \in Jobs, Run(j), TypeOK'
  PROVE  RangeInv' /\ BatchInv' /\ LedgerInv'
<1>1. \A i \in Jobs : i # j => pc'[i] = pc[i]
  BY OnlyOneMoves
<1>2. ASSUME /\ CheckLock(j) \/ TakeLock(j) \/ AcquireFails(j)
                \/ RunFails(j) \/ ReleaseLock(j) \/ ReleaseFails(j)
      PROVE  RangeInv' /\ BatchInv' /\ LedgerInv'
  <2>1. /\ UNCHANGED <<clock, snapshotTable, ledger, since, upTo, batch>>
        /\ pc'[j] \notin {"fetch", "commit"}
    BY <1>2 DEF CheckLock, TakeLock, AcquireFails, RunFails, AfterFailure, ReleaseLock,
                ReleaseFails, GoTo, TypeOK, work
  <2>2. clock' \in Times /\ clock <= clock'
    BY <2>1 DEF TypeOK, Times
  <2>3. QED
    BY <1>1, <2>1, <2>2, FrameStep
<1>3. CASE ReadLastRun(j)
  <2> USE <1>3 DEF ReadLastRun, GoTo, snapshotTable, ledger
  <2>1. since'[j] = (IF watermark = Never THEN DefaultLastRun ELSE watermark) /\ upTo'[j] = clock
    BY DEF TypeOK
  <2>2. \A i \in Jobs : i # j => /\ since'[i] = since[i] /\ upTo'[i] = upTo[i]
                                 /\ Reading(i)' = Reading(i)
    BY <1>1 DEF TypeOK, Reading
  <2>3. RangeInv'
    BY <2>1, <2>2 DEF RangeInv, TypeOK, Times
  <2>4. pc'[j] = "fetch"
    BY DEF TypeOK
  <2>5. BatchInv'
    BY <1>1, <2>2, <2>4 DEF BatchInv, InRange
  <2>6. LedgerInv'
    BY DEF LedgerInv
  <2>7. QED
    BY <2>3, <2>5, <2>6
<1>4. CASE FetchSnapshots(j)
  <2> USE <1>4 DEF FetchSnapshots, GoTo, snapshotTable, ledger
  <2>1. batch'[j] = {s \in stored : InRange(j, stamp[s])}
    BY DEF TypeOK
  <2>2. \A i \in Jobs : i # j => batch'[i] = batch[i]
    BY DEF TypeOK
  <2>3. RangeInv'
    BY <1>1 DEF RangeInv, Reading, TypeOK
  <2>4. BatchInv'
    BY <1>1, <2>1, <2>2 DEF BatchInv, InRange
  <2>5. LedgerInv'
    BY DEF LedgerInv
  <2>6. QED
    BY <2>3, <2>4, <2>5
<1>5. CASE Commit(j)
  BY <1>5, CommitStep
<1>6. QED
  BY <1>2, <1>3, <1>4, <1>5 DEF Run

\* RollupInv is inductive when the lock is acquired within a period.
LEMMA NextInv ==
  ASSUME PromptLock
  PROVE  TypeOK /\ TypeOK' /\ RollupInv /\ [Next]_vars => RollupInv'
<1> SUFFICES ASSUME TypeOK, TypeOK', RollupInv, [Next]_vars PROVE RollupInv'
  OBVIOUS
<1> USE DEF RollupInv
<1>1. LockInv'
  BY LockStep
<1>2. ASSUME NEW s \in Snapshots, NEW t \in Times, Ingest(s, t)
      PROVE  RangeInv' /\ BatchInv' /\ LedgerInv'
  BY <1>2, IngestStep
<1>3. ASSUME NEW j \in Jobs, Run(j)
      PROVE  RangeInv' /\ BatchInv' /\ LedgerInv'
  BY <1>3, RunStep
<1>4. ASSUME Tick \/ Crash \/ UNCHANGED vars
      PROVE  RangeInv' /\ BatchInv' /\ LedgerInv'
  <2>1. UNCHANGED <<snapshotTable, ledger, since, upTo, batch>>
    BY <1>4 DEF Tick, Crash, vars, work
  <2>2. clock' \in Times /\ clock <= clock'
    BY <1>4 DEF Tick, Crash, vars, TypeOK, Times
  <2>3. \A i \in Jobs : pc'[i] # pc[i] => pc'[i] \notin {"fetch", "commit"}
    BY <1>4 DEF Tick, Crash, vars, GoTo, TypeOK
  <2>4. QED
    BY <2>1, <2>2, <2>3, FrameStep
<1>5. QED
  BY <1>1, <1>2, <1>3, <1>4 DEF Next

LEMMA InitInv == Init => RollupInv
<1> SUFFICES ASSUME Init PROVE RollupInv
  OBVIOUS
<1>1. \A j \in Jobs : pc[j] = "idle"
  BY DEF Init
<1>2. LockInv /\ BatchInv
  BY <1>1 DEF LockInv, BatchInv, Acquiring, Holding
<1>3. RangeInv /\ LedgerInv
  BY <1>1 DEF Init, RangeInv, LedgerInv, Reading, Never
<1>4. QED
  BY <1>2, <1>3 DEF RollupInv

\* Without prompt locking nothing is claimed; with it, the invariant holds.
LEMMA RollupHolds == Spec => [](PromptLock => RollupInv)
<1>1. CASE PromptLock
  <2>1. TypeOK /\ TypeOK' /\ RollupInv /\ [Next]_vars => RollupInv'
    BY <1>1, NextInv
  <2>2. RollupInv => (PromptLock => RollupInv)
    OBVIOUS
  <2>3. QED
    BY <2>1, <2>2, InitInv, TypeCorrect, PTL DEF Spec
<1>2. CASE ~PromptLock
  <2>1. PromptLock => RollupInv
    BY <1>2
  <2>2. QED
    BY <2>1, PTL
<1>3. QED
  BY <1>1, <1>2

\* No crash, failure or overlap makes a snapshot part of two aggregates.
THEOREM RolledUpOnce == Spec => []CountedOnce
<1>1. TypeOK /\ (PromptLock => RollupInv) => CountedOnce
  BY DEF RollupInv, LedgerInv, CountedOnce, TypeOK
<1>2. QED
  BY <1>1, TypeCorrect, RollupHolds, PTL

\* The last run's time never passes a snapshot that came in time and is in no
\* aggregate.
THEOREM NothingPassedOver == Spec => []NothingSkipped
<1>1. (PromptLock => RollupInv) => NothingSkipped
  BY DEF RollupInv, LedgerInv, NothingSkipped
<1>2. QED
  BY <1>1, RollupHolds, PTL

-----------------------------------------------------------------------------
(* The refinement of OnceRollup.                                           *)

\* A run's transaction is one rollup, from the last run's time to its own.
LEMMA CommitRollsUp ==
  ASSUME TypeOK, LockInv, RangeInv, BatchInv, LedgerInv, NEW j \in Jobs, Commit(j)
  PROVE  Once!RollUp(since[j], upTo[j])
<1> USE DEF Commit, RunTime
<1>1. /\ watermark # Never => since[j] = watermark
      /\ watermark <= upTo[j]
      /\ watermark' = upTo[j]
  BY DEF RangeInv, Reading
<1>2. Once!Between(since[j], upTo[j]) = {s \in stored : InRange(j, stamp[s])}
  BY DEF Once!Between, InRange
<1>3. /\ batch[j] \subseteq Once!Between(since[j], upTo[j])
      /\ Once!Between(since[j], upTo[j]) \ late \subseteq batch[j]
  BY <1>2 DEF BatchInv
<1>4. \A s \in batch[j] : counted[s] = 0
  <2> SUFFICES ASSUME NEW s \in batch[j] PROVE counted[s] = 0
    OBVIOUS
  <2>1. /\ s \in Snapshots /\ stamp[s] \in Times /\ since[j] < stamp[s]
        /\ since[j] \in Starts /\ watermark \in Times \cup {Never}
    BY DEF BatchInv, InRange, TypeOK
  <2>2. ~(stamp[s] <= watermark)
    BY <1>1, <2>1 DEF Times, Starts, Never
  <2>3. QED
    BY <2>1, <2>2 DEF LedgerInv
<1>5. counted' = [s \in Snapshots |-> IF s \in batch[j] THEN 1 ELSE counted[s]]
  <2>1. \A s \in Snapshots :
          (IF s \in batch[j] /\ counted[s] < 2 THEN counted[s] + 1 ELSE counted[s])
            = (IF s \in batch[j] THEN 1 ELSE counted[s])
    BY <1>4
  <2>2. QED
    BY <2>1
<1>6. UNCHANGED <<stored, stamp, late>>
  BY DEF snapshotTable
<1>7. QED
  BY <1>1, <1>3, <1>4, <1>5, <1>6 DEF Once!RollUp

\* A snapshot that is stored arrives, late if a run has looked past its stamp.
LEMMA IngestArrives ==
  ASSUME NEW s \in Snapshots, NEW t \in Times, Ingest(s, t)
  PROVE  Once!Arrive(s, t)
<1>1. watermark # Never /\ t <= watermark => late' = late \cup {s}
  BY DEF Ingest, IsClosed
<1>2. late' \in {late, late \cup {s}}
  BY DEF Ingest
<1>3. QED
  BY <1>1, <1>2 DEF Ingest, Once!Arrive, ledger

LEMMA StepOnce ==
  ASSUME TypeOK, RollupInv, [Next]_vars
  PROVE  [Once!OnceNext]_<<stored, stamp, late, watermark, counted>>
<1> DEFINE Goal == [Once!OnceNext]_<<stored, stamp, late, watermark, counted>>
<1>1. ASSUME UNCHANGED <<snapshotTable, ledger>> PROVE Goal
  BY <1>1 DEF snapshotTable, ledger
<1>2. ASSUME NEW s \in Snapshots, NEW t \in Times, Ingest(s, t) PROVE Goal
  <2>1. t \in Starts
    BY DEF Times, Starts
  <2>2. QED
    BY <1>2, <2>1, IngestArrives DEF Once!OnceNext
<1>3. ASSUME NEW j \in Jobs, Run(j) PROVE Goal
  <2>1. CASE Commit(j)
    <3>1. Once!RollUp(since[j], upTo[j])
      BY <2>1, CommitRollsUp DEF RollupInv
    <3>2. since[j] \in Starts /\ upTo[j] \in Starts
      BY DEF TypeOK, Times, Starts
    <3>3. QED
      BY <3>1, <3>2 DEF Once!OnceNext
  <2>2. CASE ~Commit(j)
    BY <1>1, <1>3, <2>2 DEF Run, CheckLock, TakeLock, AcquireFails, ReadLastRun,
       FetchSnapshots, RunFails, ReleaseLock, ReleaseFails
  <2>3. QED
    BY <2>1, <2>2
<1>4. CASE Tick \/ Crash \/ UNCHANGED vars
  BY <1>1, <1>4 DEF Tick, Crash, vars
<1>5. QED
  BY <1>2, <1>3, <1>4 DEF Next

\* With its lock acquired within a period, a tier is an atomic rollup between cuts
\* in time, for any number of snapshots and jobs and whatever fails or dies.
THEOREM RollupImplementsOnce ==
  ASSUME PromptLock
  PROVE  Spec => ImplementsOnce
<1>1. Init => Once!OnceInit
  <2>1. 0 \in Starts
    BY DEF Starts
  <2>2. QED
    BY <2>1 DEF Init, Once!OnceInit
<1>2. (PromptLock => RollupInv) => RollupInv
  OBVIOUS
<1>3. TypeOK /\ RollupInv /\ [Next]_vars
        => [Once!OnceNext]_<<stored, stamp, late, watermark, counted>>
  BY StepOnce
<1>4. QED
  BY <1>1, <1>2, <1>3, TypeCorrect, RollupHolds, PTL DEF Spec, ImplementsOnce, Once!OnceSpec

\* While no job acquires the lock, two jobs are enough for one to be free: the cron
\* always finds one to fire, and further jobs would only give up.
THEOREM TwoJobsSuffice ==
  ASSUME PromptLock, NEW i \in Jobs, NEW j \in Jobs, i # j
  PROVE  Spec => [](Acquiring = {} => pc[i] = "idle" \/ pc[j] = "idle")
<1>1. TypeOK /\ (PromptLock => RollupInv)
        => (Acquiring = {} => pc[i] = "idle" \/ pc[j] = "idle")
  BY DEF RollupInv, LockInv, Acquiring, Holding, TypeOK
<1>2. QED
  BY <1>1, TypeCorrect, RollupHolds, PTL
=============================================================================
