------------------------- MODULE AgentOutboxProofs -------------------------
(***************************************************************************)
(* Safety of the agent's outbox for every number of messages, batch size   *)
(* and threshold.                                                          *)
(*                                                                         *)
(* The safety properties are not inductive one by one: that a delivered    *)
(* row was processed rests on what a dispatch cycle holds between two      *)
(* awaits (DispatchInv), that a dead-lettered row was posted MaxRetries    *)
(* times on the retry count trailing the POSTs (RetryInv), and that a      *)
(* half-open breaker probes alone on the breaker never pausing inside a    *)
(* cycle (BreakerInv).                                                     *)
(***************************************************************************)
EXTENDS AgentOutbox, FiniteSetTheorems, TLAPS

\* What the two tables hold together.
TableInv ==
  /\ NothingVanishes
  /\ delivered \subseteq stored
  /\ DeliveredWasProcessed

\* What the dispatcher knows of its batch while it awaits other things.
DispatchInv ==
  /\ batch \subseteq Due
  /\ pc \in {"idle", "stopped", "decommissioned"} => batch = {}
  /\ pc = "await" => inflight \in Due \ batch
  /\ pc # "await" => inflight = None
  /\ pc = "await" /\ reply = "ok" => inflight \in processed

\* The recorded failures of a row trail its POSTs.
RetryInv ==
  /\ \A m \in Ids : m >= nextId => retryCount[m] = 0
  /\ pc # "decommissioned" => \A m \in stored : retryCount[m] < MaxRetries
  /\ \A m \in Ids : retryCount[m] <= posts[m]
  /\ pc = "await" => retryCount[inflight] < posts[inflight]
  /\ DeadOnlyAfterMaxRetries

\* The breaker pauses only between cycles, and counts as open only around a
\* batch of one.
BreakerInv ==
  /\ pausing => HalfOpen /\ pc \notin {"token", "loop", "await"}
  /\ HalfOpen => \A m, n \in batch : m = n
  /\ HalfOpenProbesAlone

OutboxInv == TypeOK /\ TableInv /\ DispatchInv /\ RetryInv /\ BreakerInv

USE OutboxAssumption DEF OutboxAssumption, None

\* FlagsTypeOK stays folded: Boolean variables and arithmetic are proved apart.
USE DEF DatabaseTypeOK, DispatcherTypeOK, EnvironmentTypeOK

-----------------------------------------------------------------------------
\* The drain order is total on rows.
LEMMA PrecedesTotal ==
  ASSUME TypeOK, NEW m \in Ids, NEW n \in Ids, m # n
  PROVE  Precedes(m, n) \/ Precedes(n, m)
BY DEF Precedes, Priority, TypeOK, Ids

\* A fetch of size one, the half-open breaker's, yields at most one row.
LEMMA HalfOpenFetch ==
  ASSUME TypeOK, NEW m \in Pending(1), NEW n \in Pending(1)
  PROVE  m = n
<1>1. ASSUME NEW a \in Pending(1), NEW b \in Due PROVE ~Precedes(b, a)
  <2> DEFINE before == {c \in Due : Precedes(c, a)}
  <2>1. IsFiniteSet(Ids)
    BY FS_Interval DEF Ids
  <2>2. IsFiniteSet(before)
    BY <2>1, FS_Subset DEF TypeOK, Due
  <2>3. Cardinality(before) \in Nat
    BY <2>2, FS_CardinalityType
  <2>4. Cardinality(before) < 1
    BY <1>1 DEF Pending
  <2>5. before = {}
    BY <2>2, <2>3, <2>4, FS_EmptySet
  <2> QED
    BY <2>5
<1>2. m \in Due /\ n \in Due /\ m \in Ids /\ n \in Ids
  BY DEF Pending, Due, TypeOK
<1> QED
  BY <1>1, <1>2, PrecedesTotal

-----------------------------------------------------------------------------
\* Initially the invariant holds.
LEMMA InitOutboxInv == Init => OutboxInv
<1> SUFFICES ASSUME Init PROVE OutboxInv
  OBVIOUS
<1>1. TypeOK
  <2>1. DatabaseTypeOK
    BY DEF Init, AllKinds
  <2>2. DispatcherTypeOK
    BY DEF Init, AllReplies
  <2>3. EnvironmentTypeOK
    BY DEF Init
  <2>4. FlagsTypeOK
    BY DEF Init, FlagsTypeOK
  <2> QED
    BY <2>1, <2>2, <2>3, <2>4 DEF TypeOK
<1>2. TableInv
  BY DEF Init, TableInv, NothingVanishes, DeliveredWasProcessed
<1>3. DispatchInv
  BY DEF Init, DispatchInv, Due
<1>4. RetryInv
  BY DEF Init, RetryInv, DeadOnlyAfterMaxRetries, Ids
<1>5. BreakerInv
  BY DEF Init, BreakerInv, HalfOpen, HalfOpenProbesAlone
<1> QED
  BY <1>1, <1>2, <1>3, <1>4, <1>5 DEF OutboxInv

\* Inserting a row.
LEMMA EnqueueStep ==
  ASSUME OutboxInv, NEW k \in Kinds, Enqueue(k)
  PROVE  OutboxInv'
<1> USE DEF OutboxInv, Enqueue, Running
<1>1. TypeOK'
  <2>0. DatabaseTypeOK /\ nextId \in Ids /\ k \in AllKinds
    BY DEF TypeOK
  <2>4. kind' \in [Ids -> AllKinds]
    BY <2>0
  <2>5. nextId' \in 1..(MaxMessages + 1)
    BY <2>0 DEF Ids
  <2>1. DatabaseTypeOK'
    BY <2>0, <2>4, <2>5
  <2>2. (DispatcherTypeOK /\ EnvironmentTypeOK)'
    BY DEF TypeOK, cycle, counters, backend
  <2>3. FlagsTypeOK'
    BY DEF TypeOK, FlagsTypeOK, counters, backend
  <2> QED
    BY <2>1, <2>2, <2>3 DEF TypeOK
<1>2. TableInv'
  <2>1. 1..(nextId' - 1) = 1..(nextId - 1) \cup {nextId}
    BY DEF TypeOK, Ids
  <2>2. nextId \notin stored \cup deadLetters
    BY DEF TypeOK, TableInv, NothingVanishes
  <2> QED
    BY <2>1, <2>2 DEF TableInv, NothingVanishes, DeliveredWasProcessed, cycle, backend
<1>3. DispatchInv'
  BY DEF DispatchInv, Due, cycle, backend
<1>4. RetryInv'
  BY DEF RetryInv, DeadOnlyAfterMaxRetries, TypeOK, Ids, cycle, backend
<1>5. BreakerInv'
  BY DEF BreakerInv, HalfOpen, HalfOpenProbesAlone, cycle, counters
<1> QED
  BY <1>1, <1>2, <1>3, <1>4, <1>5

\* Steps that change neither tables nor history: timers, token, registration,
\* rotation, removal, restart.
LEMMA FetchStep == ASSUME OutboxInv, FetchBatch PROVE OutboxInv'
<1> USE DEF OutboxInv, FetchBatch, MayFetch, FetchSize
<1>1. batch' \subseteq Due
  BY DEF Pending
<1>2. TypeOK'
  <2>1. (DatabaseTypeOK /\ DispatcherTypeOK /\ EnvironmentTypeOK)'
    BY <1>1 DEF TypeOK, Due, rows, database, counters, backend
  <2>2. FlagsTypeOK'
    BY DEF TypeOK, Due, rows, database, counters, backend, FlagsTypeOK
  <2> QED
    BY <2>1, <2>2 DEF TypeOK
<1>3. TableInv'
  BY DEF TableInv, NothingVanishes, DeliveredWasProcessed, rows, database, backend
<1>4. DispatchInv'
  BY <1>1 DEF DispatchInv, Due, rows, database, backend
<1>5. RetryInv'
  BY DEF RetryInv, DeadOnlyAfterMaxRetries, rows, database, backend
<1>6. BreakerInv'
  BY HalfOpenFetch DEF BreakerInv, DispatchInv, HalfOpen, HalfOpenProbesAlone, counters
<1> QED
  BY <1>2, <1>3, <1>4, <1>5, <1>6

LEMMA ReadTokenStep == ASSUME OutboxInv, ReadToken PROVE OutboxInv'
<1> USE DEF OutboxInv, ReadToken
<1>1. TypeOK'
  <2>1. (DatabaseTypeOK /\ DispatcherTypeOK /\ EnvironmentTypeOK)'
    BY DEF TypeOK, rows, database, counters, backend
  <2>2. FlagsTypeOK'
    BY DEF TypeOK, rows, database, counters, backend, FlagsTypeOK
  <2> QED
    BY <2>1, <2>2 DEF TypeOK
<1>2. TableInv'
  BY DEF TableInv, NothingVanishes, DeliveredWasProcessed, rows, database, backend
<1>3. DispatchInv'
  BY DEF DispatchInv, Due, rows, database, backend
<1>4. RetryInv'
  BY DEF RetryInv, DeadOnlyAfterMaxRetries, rows, database, backend
<1>5. BreakerInv'
  BY DEF BreakerInv, DispatchInv, HalfOpen, HalfOpenProbesAlone, counters
<1> QED
  BY <1>1, <1>2, <1>3, <1>4, <1>5

LEMMA PostStep ==
  ASSUME OutboxInv, NEW m \in Ids, Post(m)
  PROVE  OutboxInv'
<1> USE DEF OutboxInv, Post
<1>1. TypeOK'
  <2>1. (DatabaseTypeOK /\ DispatcherTypeOK /\ EnvironmentTypeOK)'
    BY DEF TypeOK, Answers, SmallerOf, rows, database, counters
  <2>2. FlagsTypeOK'
    BY DEF TypeOK, Answers, SmallerOf, rows, database, counters, FlagsTypeOK
  <2> QED
    BY <2>1, <2>2 DEF TypeOK
<1>2. TableInv'
  BY DEF TableInv, NothingVanishes, DeliveredWasProcessed, rows, database
<1>3. DispatchInv'
  BY DEF DispatchInv, Due, rows, database
<1>4. RetryInv'
  <2>1. m \in stored
    BY DEF DispatchInv, Due
  <2>2. retryCount[m] < MaxRetries /\ retryCount[m] <= posts[m]
    BY <2>1 DEF RetryInv
  <2>3. posts'[m] > retryCount'[m] /\ (posts[m] = MaxRetries => posts'[m] = MaxRetries)
    BY <2>2 DEF TypeOK, SmallerOf, rows, database
  <2>4. \A n \in Ids \ {m} : posts'[n] = posts[n]
    BY DEF TypeOK
  <2>5. \A n \in Ids : retryCount'[n] = retryCount[n] /\ posts'[n] >= posts[n]
    BY <2>3, <2>4 DEF TypeOK, SmallerOf, rows, database
  <2>6. \A n \in Ids : n >= nextId' => retryCount'[n] = 0
    BY <2>5 DEF RetryInv, rows
  <2>7. \A n \in stored' : retryCount'[n] < MaxRetries
    BY <2>5 DEF RetryInv, rows, database, TypeOK
  <2>8. \A n \in Ids : retryCount'[n] <= posts'[n]
    BY <2>5, <1>1 DEF RetryInv, TypeOK
  <2>9. DeadOnlyAfterMaxRetries'
    BY <2>3, <2>4, <2>5 DEF RetryInv, DeadOnlyAfterMaxRetries, TypeOK, rows, database
  <2> QED
    BY <2>3, <2>6, <2>7, <2>8, <2>9 DEF RetryInv
<1>5. BreakerInv'
  BY DEF BreakerInv, HalfOpen, HalfOpenProbesAlone, counters
<1> QED
  BY <1>1, <1>2, <1>3, <1>4, <1>5

-----------------------------------------------------------------------------
\* A failed POST, counted or not: the part of the invariant the tables and the
\* retry counts carry.
LEMMA MarkFailedTables ==
  ASSUME OutboxInv, pc = "await", NEW saved \in BOOLEAN, MarkFailed(inflight, saved),
         NextIteration, UNCHANGED <<nextId, processed, posts>>
  PROVE  /\ TableInv'
         /\ RetryInv'
         /\ stored' \subseteq Ids /\ delivered' \subseteq Ids
         /\ deadLetters' \subseteq Ids /\ backoff' \subseteq Ids
         /\ retryCount' \in [Ids -> 0..MaxRetries]
<1> USE DEF OutboxInv, NextIteration
<1>0. inflight \in Ids /\ inflight \in stored /\ inflight \notin delivered
  BY DEF DispatchInv, Due, TypeOK
<1>1. retryCount[inflight] < posts[inflight] /\ retryCount[inflight] < MaxRetries
  BY <1>0 DEF RetryInv
<1>2. pc' # "decommissioned" /\ pc' # "await"
  OBVIOUS
<1>3. CASE ~saved
  BY <1>2, <1>3 DEF MarkFailed, MoveToDeadLetters, database, TypeOK, TableInv, NothingVanishes,
     DeliveredWasProcessed, RetryInv, DeadOnlyAfterMaxRetries
<1>4. CASE saved
  <2>1. /\ retryCount' = [retryCount EXCEPT ![inflight] = @ + 1]
        /\ delivered' = delivered
    BY <1>0, <1>4 DEF MarkFailed, Exhausted, MoveToDeadLetters
  <2>2. retryCount' \in [Ids -> 0..MaxRetries]
    BY <2>1, <1>0, <1>1 DEF TypeOK
  <2>3. /\ retryCount'[inflight] = retryCount[inflight] + 1
        /\ \A n \in Ids \ {inflight} : retryCount'[n] = retryCount[n]
    BY <2>1, <1>0 DEF TypeOK
  <2>4. inflight < nextId
    BY <1>0 DEF TableInv, NothingVanishes, TypeOK
  <2>5. CASE retryCount[inflight] + 1 >= MaxRetries
    <3>1. /\ deadLetters' = deadLetters \cup {inflight}
          /\ stored' = stored \ {inflight}
          /\ backoff' = backoff
      BY <2>5, <1>0, <1>4 DEF MarkFailed, Exhausted, MoveToDeadLetters
    <3>2. retryCount'[inflight] = MaxRetries /\ posts[inflight] = MaxRetries
      BY <2>5, <2>3, <1>0, <1>1 DEF TypeOK
    <3>3. TableInv'
      BY <3>1, <2>1, <1>0 DEF TableInv, NothingVanishes, DeliveredWasProcessed
    <3>4. RetryInv'
      <4>1. \A n \in Ids : n >= nextId' => retryCount'[n] = 0
        BY <2>3, <2>4, <1>0 DEF RetryInv, TypeOK, Ids
      <4>2. \A n \in stored' : retryCount'[n] < MaxRetries
        BY <3>1, <2>3, <1>2 DEF RetryInv, TypeOK
      <4>3. \A n \in Ids : retryCount'[n] <= posts'[n]
        BY <2>3, <3>2, <1>1 DEF RetryInv, TypeOK
      <4>4. DeadOnlyAfterMaxRetries'
        BY <3>1, <3>2, <2>3 DEF RetryInv, DeadOnlyAfterMaxRetries, TypeOK
      <4> QED
        BY <4>1, <4>2, <4>3, <4>4, <1>2 DEF RetryInv
    <3> QED
      BY <3>1, <3>3, <3>4, <2>1, <2>2, <1>0 DEF TypeOK
  <2>6. CASE ~(retryCount[inflight] + 1 >= MaxRetries)
    <3>1. /\ backoff' = backoff \cup {inflight}
          /\ stored' = stored /\ deadLetters' = deadLetters
      BY <2>6, <1>0, <1>4 DEF MarkFailed, Exhausted, MoveToDeadLetters
    <3>2. TableInv'
      BY <3>1, <2>1, <1>0 DEF TableInv, NothingVanishes, DeliveredWasProcessed
    <3>3. inflight \notin deadLetters
      BY <1>0 DEF TableInv, NothingVanishes
    <3>4. RetryInv'
      <4>1. \A n \in Ids : n >= nextId' => retryCount'[n] = 0
        BY <2>3, <2>4, <1>0 DEF RetryInv, TypeOK, Ids
      <4>2. \A n \in stored' : retryCount'[n] < MaxRetries
        BY <3>1, <2>3, <2>6, <1>0, <1>1 DEF RetryInv, TypeOK
      <4>3. \A n \in Ids : retryCount'[n] <= posts'[n]
        BY <2>3, <1>0, <1>1 DEF RetryInv, TypeOK
      <4>4. DeadOnlyAfterMaxRetries'
        BY <3>1, <3>3, <2>3 DEF RetryInv, DeadOnlyAfterMaxRetries, TypeOK
      <4> QED
        BY <4>1, <4>2, <4>3, <4>4, <1>2 DEF RetryInv
    <3> QED
      BY <3>1, <3>2, <3>4, <2>1, <2>2, <1>0 DEF TypeOK
  <2> QED
    BY <2>5, <2>6
<1> QED
  BY <1>3, <1>4

\* Whatever the handler did to the row it settled, the rest of the batch is due.
LEMMA NextIterationKeepsBatch ==
  ASSUME OutboxInv, pc = "await", NextIteration,
         \A m \in batch : m \in stored' /\ m \notin delivered' /\ m \notin backoff'
  PROVE  DispatchInv'
BY DEF OutboxInv, DispatchInv, NextIteration, Due

\* MarkFailed touches no row but the one it is about.
LEMMA MarkFailedElsewhere ==
  ASSUME OutboxInv, pc = "await", NEW saved \in BOOLEAN, MarkFailed(inflight, saved)
  PROVE  \A m \in batch : m \in stored' /\ m \notin delivered' /\ m \notin backoff'
BY DEF OutboxInv, DispatchInv, Due, MarkFailed, MoveToDeadLetters, database

\* After a reply that closes the breaker.
LEMMA ClosedBreaker ==
  ASSUME TypeOK, ResetCircuitBreaker, NextIteration
  PROVE  BreakerInv'
BY DEF BreakerInv, ResetCircuitBreaker, HalfOpen, HalfOpenProbesAlone, NextIteration

LEMMA HandleReplyStep ==
  ASSUME OutboxInv, NEW saved \in BOOLEAN, HandleReply(saved)
  PROVE  OutboxInv'
<1>1. CASE HandleSuccess(saved)
  <2> USE <1>1 DEF OutboxInv, HandleSuccess, MarkDelivered
  <2>1. inflight \in Ids /\ inflight \in processed /\ inflight \in stored
    BY DEF DispatchInv, Due, TypeOK
  <2>2. pc' \in {"idle", "loop"} /\ inflight' = None
    BY DEF NextIteration
  <2>3. TypeOK'
    <3>1. (DatabaseTypeOK /\ DispatcherTypeOK /\ EnvironmentTypeOK)'
      BY <2>1, <2>2 DEF TypeOK, NextIteration, ResetCircuitBreaker, backend
    <3>2. FlagsTypeOK'
      BY DEF TypeOK, NextIteration, ResetCircuitBreaker, backend, FlagsTypeOK
    <3> QED
      BY <3>1, <3>2 DEF TypeOK
  <2>4. TableInv'
    BY <2>1, <2>2 DEF TableInv, NothingVanishes, DeliveredWasProcessed, backend
  <2>5. DispatchInv'
    <3>1. \A m \in batch : m \in stored' /\ m \notin delivered' /\ m \notin backoff'
      BY DEF DispatchInv, Due
    <3> QED
      BY <3>1, NextIterationKeepsBatch
  <2>6. RetryInv'
    BY <2>2 DEF RetryInv, DeadOnlyAfterMaxRetries, backend
  <2>7. BreakerInv'
    BY ClosedBreaker
  <2> QED
    BY <2>3, <2>4, <2>5, <2>6, <2>7
<1>2. ASSUME HandleRejected(saved) \/ HandleUnauthorized(saved) \/ HandleNoAnswer(saved)
      PROVE  OutboxInv'
  <2>1. /\ pc = "await"
        /\ MarkFailed(inflight, saved)
        /\ NextIteration
        /\ UNCHANGED <<kind, nextId, removed, processed, posts, crashes>>
    BY <1>2 DEF HandleRejected, HandleUnauthorized, HandleNoAnswer, backend
  <2>2. /\ TableInv'
        /\ RetryInv'
        /\ stored' \subseteq Ids /\ delivered' \subseteq Ids
        /\ deadLetters' \subseteq Ids /\ backoff' \subseteq Ids
        /\ retryCount' \in [Ids -> 0..MaxRetries]
    BY <2>1, MarkFailedTables
  <2>3. DispatchInv'
    BY <2>1, MarkFailedElsewhere, NextIterationKeepsBatch
  <2>4. BreakerInv'
    <3>1. CASE HandleNoAnswer(saved)
      <4>1. /\ netErrors' = SmallerOf(netErrors + 1, BreakerThreshold)
            /\ pausing' = (pausing \/ netErrors + 1 >= BreakerThreshold)
        BY <3>1 DEF HandleNoAnswer, HandleNetworkError
      <4>2. ~pausing
        BY <2>1 DEF OutboxInv, BreakerInv
      <4>3. HalfOpen' <=> netErrors + 1 >= BreakerThreshold
        BY <4>1 DEF HalfOpen, SmallerOf, OutboxInv, TypeOK
      <4>4. pausing' <=> netErrors + 1 >= BreakerThreshold
        BY <4>1, <4>2
      <4>5. pc' \in {"idle", "loop"} /\ (pausing' => pc' = "idle" /\ batch' = {})
        BY <2>1 DEF NextIteration
      <4> QED
        BY <4>3, <4>4, <4>5, <2>1 DEF BreakerInv, HalfOpenProbesAlone, NextIteration
    <3>2. CASE HandleRejected(saved) \/ HandleUnauthorized(saved)
      BY <3>2, ClosedBreaker DEF OutboxInv, HandleRejected, HandleUnauthorized
    <3> QED
      BY <1>2, <3>1, <3>2
  <2>5. /\ netErrors' \in 0..BreakerThreshold
        /\ authErrors' \in 0..AuthThreshold
        /\ credential' \in {"current", "stale", "none"}
    BY <1>2 DEF OutboxInv, TypeOK, HandleRejected, HandleUnauthorized, HandleNoAnswer,
       HandleNetworkError, ResetCircuitBreaker, SmallerOf
  <2>6. TypeOK'
    <3>1. (DatabaseTypeOK /\ DispatcherTypeOK /\ EnvironmentTypeOK)'
      BY <2>1, <2>2, <2>5 DEF OutboxInv, TypeOK, NextIteration
    <3>2. FlagsTypeOK'
      BY <1>2, <2>1 DEF OutboxInv, TypeOK, FlagsTypeOK, HandleRejected,
           HandleUnauthorized, HandleNoAnswer, HandleNetworkError, ResetCircuitBreaker
    <3> QED
      BY <3>1, <3>2 DEF TypeOK
  <2> QED
    BY <2>2, <2>3, <2>4, <2>6 DEF OutboxInv
<1> QED
  BY <1>1, <1>2 DEF HandleReply

LEMMA HandleGoneStep ==
  ASSUME OutboxInv, NEW purged \in BOOLEAN, HandleGone(purged)
  PROVE  OutboxInv'
<1> USE DEF OutboxInv, HandleGone
<1>1. TypeOK'
  <2>1. (DatabaseTypeOK /\ DispatcherTypeOK /\ EnvironmentTypeOK)'
    BY DEF TypeOK, database, counters, backend
  <2>2. FlagsTypeOK'
    BY DEF TypeOK, database, counters, backend, FlagsTypeOK
  <2> QED
    BY <2>1, <2>2 DEF TypeOK
<1>2. TableInv'
  BY DEF TableInv, NothingVanishes, DeliveredWasProcessed, database, backend
<1>3. DispatchInv'
  BY DEF DispatchInv, Due
<1>4. RetryInv'
  BY DEF RetryInv, DeadOnlyAfterMaxRetries, database, backend
<1>5. BreakerInv'
  BY DEF BreakerInv, HalfOpen, HalfOpenProbesAlone, counters
<1> QED
  BY <1>1, <1>2, <1>3, <1>4, <1>5

\* Timers, registration, rotation, removal, death and restart of the process.
LEMMA EnvironmentStep ==
  ASSUME OutboxInv,
         \/ \E m \in Ids : BackoffExpires(m)
         \/ BreakerExpires \/ Readopt \/ Register \/ RotateToken \/ RemoveDevice
         \/ Crash \/ Restart
  PROVE  OutboxInv'
<1> USE DEF OutboxInv, BackoffExpires, BreakerExpires, Readopt, Register, RotateToken,
            RemoveDevice, Crash, Restart, Running, rows, database, cycle, counters, backend
<1>1. TypeOK'
  <2>1. (DatabaseTypeOK /\ DispatcherTypeOK /\ EnvironmentTypeOK)'
    BY DEF TypeOK
  <2>2. FlagsTypeOK'
    BY DEF TypeOK, FlagsTypeOK
  <2> QED
    BY <2>1, <2>2 DEF TypeOK
<1>2. TableInv'
  BY DEF TableInv, NothingVanishes, DeliveredWasProcessed
<1>3. DispatchInv'
  BY DEF DispatchInv, Due
<1>4. RetryInv'
  BY DEF RetryInv, DeadOnlyAfterMaxRetries
<1>5. BreakerInv'
  BY DEF BreakerInv, HalfOpen, HalfOpenProbesAlone
<1> QED
  BY <1>1, <1>2, <1>3, <1>4, <1>5

\* Stuttering.
LEMMA StutterStep == ASSUME OutboxInv, UNCHANGED vars PROVE OutboxInv'
<1> USE DEF OutboxInv, vars, rows, database, cycle, counters, backend
<1>1. (DatabaseTypeOK /\ DispatcherTypeOK /\ EnvironmentTypeOK)'
  BY DEF TypeOK
<1>2. FlagsTypeOK'
  BY DEF TypeOK, FlagsTypeOK
<1>3. TableInv' /\ DispatchInv'
  BY DEF TableInv, NothingVanishes, DeliveredWasProcessed, DispatchInv, Due
<1>4. RetryInv'
  BY DEF RetryInv, DeadOnlyAfterMaxRetries
<1>5. BreakerInv'
  BY DEF BreakerInv, HalfOpen, HalfOpenProbesAlone
<1> QED
  BY <1>1, <1>2, <1>3, <1>4, <1>5 DEF TypeOK

\* OutboxInv is inductive.
LEMMA StepOutboxInv == OutboxInv /\ [Next]_vars => OutboxInv'
<1> SUFFICES ASSUME OutboxInv, [Next]_vars PROVE OutboxInv'
  OBVIOUS
<1>1. CASE \E k \in Kinds : Enqueue(k)
  BY <1>1, EnqueueStep
<1>2. CASE Dispatch
  BY <1>2, FetchStep, ReadTokenStep, PostStep, HandleReplyStep, HandleGoneStep DEF Dispatch
<1>3. CASE \/ \E m \in Ids : BackoffExpires(m)
           \/ BreakerExpires \/ Readopt \/ Register \/ RotateToken \/ RemoveDevice
           \/ Crash \/ Restart
  BY <1>3, EnvironmentStep
<1>4. CASE UNCHANGED vars
  BY <1>4, StutterStep
<1> QED
  BY <1>1, <1>2, <1>3, <1>4 DEF Next

\* The invariant holds in every reachable state of the outbox.
THEOREM OutboxInvariant == Spec => []OutboxInv
BY InitOutboxInv, StepOutboxInv, PTL DEF Spec

\* Type correctness of tables, dispatcher and environment.
THEOREM TypeCorrect == Spec => []TypeOK
<1>1. OutboxInv => TypeOK
  BY DEF OutboxInv
<1> QED
  BY <1>1, OutboxInvariant, PTL

\* A row marked delivered was processed by the backend.
THEOREM DeliveredOnlyIfProcessed == Spec => []DeliveredWasProcessed
<1>1. OutboxInv => DeliveredWasProcessed
  BY DEF OutboxInv, TableInv
<1> QED
  BY <1>1, OutboxInvariant, PTL

\* Every inserted message stays in exactly one of the two tables.
THEOREM NoMessageLost == Spec => []NothingVanishes
<1>1. OutboxInv => NothingVanishes
  BY DEF OutboxInv, TableInv
<1> QED
  BY <1>1, OutboxInvariant, PTL

\* A dead letter has MaxRetries recorded failures and as many POSTs.
THEOREM DeadLettersWereRetried == Spec => []DeadOnlyAfterMaxRetries
<1>1. OutboxInv => DeadOnlyAfterMaxRetries
  BY DEF OutboxInv, RetryInv
<1> QED
  BY <1>1, OutboxInvariant, PTL

\* The half-open breaker sends one message.
THEOREM SingleProbe == Spec => []HalfOpenProbesAlone
<1>1. OutboxInv => HalfOpenProbesAlone
  BY DEF OutboxInv, BreakerInv
<1> QED
  BY <1>1, OutboxInvariant, PTL

-----------------------------------------------------------------------------
\* Only Post starts a POST.
LEMMA OnlyPostSends ==
  ASSUME OutboxInv, [Next]_vars, inflight = None, inflight' # None
  PROVE  \E m \in Ids : Post(m)
BY DEF OutboxInv, DispatchInv, Next, vars, Dispatch, HandleReply, NextIteration, Enqueue,
   FetchBatch, ReadToken, HandleSuccess, HandleRejected, HandleUnauthorized,
   HandleNoAnswer, HandleGone, BackoffExpires, BreakerExpires, Readopt, Register,
   RotateToken, RemoveDevice, Crash, Restart, cycle

\* No POST starts while the breaker pauses.
THEOREM BreakerSilences == Spec => SilentWhilePausing
<1>1. OutboxInv /\ [Next]_vars =>
        [inflight = None /\ inflight' # None => ~pausing]_vars
  <2> SUFFICES ASSUME OutboxInv, [Next]_vars, inflight = None, inflight' # None
               PROVE  ~pausing
    OBVIOUS
  <2>1. pc = "loop"
    BY OnlyPostSends DEF Post
  <2> QED
    BY <2>1 DEF OutboxInv, BreakerInv
<1> QED
  BY <1>1, OutboxInvariant, PTL DEF Spec, SilentWhilePausing

\* Only rows that are due at that moment are posted.
THEOREM PostsAreDue == Spec => OnlyDueRowsPosted
<1>1. OutboxInv /\ [Next]_vars =>
        [inflight = None /\ inflight' # None =>
           inflight' \in stored \ (delivered \cup backoff)]_vars
  <2> SUFFICES ASSUME OutboxInv, [Next]_vars, inflight = None, inflight' # None
               PROVE  inflight' \in stored \ (delivered \cup backoff)
    OBVIOUS
  <2>1. inflight' \in batch
    BY OnlyPostSends DEF Post
  <2> QED
    BY <2>1 DEF OutboxInv, DispatchInv, Due
<1> QED
  BY <1>1, OutboxInvariant, PTL DEF Spec, OnlyDueRowsPosted

\* Only a row's own reply marks it or counts a failure of it.
THEOREM OwnReplySettles == Spec => OnlyOwnReplySettles
<1>1. OutboxInv /\ [Next]_vars =>
        [\A m \in Ids :
           (delivered # delivered' /\ m \in delivered') \/ retryCount'[m] # retryCount[m]
             => m \in delivered \/ (pc = "await" /\ inflight = m)]_vars
  <2> SUFFICES ASSUME OutboxInv, [Next]_vars
               PROVE  \/ UNCHANGED <<delivered, retryCount>>
                      \/ /\ pc = "await"
                         /\ delivered' \subseteq delivered \cup {inflight}
                         /\ \A m \in Ids \ {inflight} : retryCount'[m] = retryCount[m]
    OBVIOUS
  <2>1. ASSUME NEW b \in BOOLEAN, HandleSuccess(b)
        PROVE  /\ pc = "await"
               /\ delivered' \subseteq delivered \cup {inflight}
               /\ retryCount' = retryCount
    BY <2>1 DEF HandleSuccess, MarkDelivered
  <2>2. ASSUME NEW b \in BOOLEAN,
               HandleRejected(b) \/ HandleUnauthorized(b) \/ HandleNoAnswer(b)
        PROVE  /\ pc = "await"
               /\ delivered' = delivered
               /\ \A m \in Ids \ {inflight} : retryCount'[m] = retryCount[m]
    <3>1. pc = "await" /\ MarkFailed(inflight, b)
      BY <2>2 DEF HandleRejected, HandleUnauthorized, HandleNoAnswer
    <3> QED
      BY <3>1 DEF MarkFailed, database, OutboxInv, TypeOK
  <2>3. ASSUME NEW b \in BOOLEAN, HandleGone(b)
        PROVE  pc = "await" /\ delivered' \subseteq delivered /\ retryCount' = retryCount
    BY <2>3 DEF HandleGone, database
  <2>4. ASSUME ~ \E b \in BOOLEAN : HandleReply(b) \/ HandleGone(b)
        PROVE  UNCHANGED <<delivered, retryCount>>
    BY <2>4 DEF Next, Dispatch, vars, rows, database, Enqueue, FetchBatch, ReadToken, Post,
       BackoffExpires, BreakerExpires, Readopt, Register, RotateToken, RemoveDevice,
       Crash, Restart
  <2> QED
    BY <2>1, <2>2, <2>3, <2>4 DEF HandleReply
<1> QED
  BY <1>1, OutboxInvariant, PTL DEF Spec, OnlyOwnReplySettles

-----------------------------------------------------------------------------
\* The refinement: the initial state and every step of the outbox, read through
\* MessageStatus, are those of the abstract mailbox.
LEMMA MailboxInitially == Init => Mailbox!MailboxInit
BY DEF Init, Mailbox!MailboxInit, MessageStatus, Ids

\* A step that leaves tables, Ids and history alone and does not end the agent
\* is invisible to the mailbox.
LEMMA InvisibleStep ==
  ASSUME UNCHANGED <<stored, delivered, deadLetters, nextId, processed>>,
         pc = "decommissioned" <=> pc' = "decommissioned"
  PROVE  UNCHANGED Mailbox!mailbox
BY DEF Mailbox!mailbox, MessageStatus

\* Inserting a row submits the message.
LEMMA EnqueueSubmits ==
  ASSUME OutboxInv, NEW k \in Kinds, Enqueue(k)
  PROVE  Mailbox!Submit(nextId)
<1>1. nextId \notin stored \cup deadLetters \cup delivered
  BY DEF OutboxInv, TableInv, NothingVanishes, Enqueue, Running, TypeOK
<1>2. nextId \in Ids /\ nextId' = nextId + 1 /\ stored' = stored \cup {nextId}
  BY DEF Enqueue
<1>3. UNCHANGED <<delivered, deadLetters, pc, processed>> /\ pc # "decommissioned"
  BY DEF Enqueue, Running, cycle, backend
<1>4. MessageStatus[nextId] = "absent"
  BY <1>2 DEF MessageStatus, OutboxInv, TypeOK
<1>5. \A m \in Ids : m >= nextId' <=> (m >= nextId /\ m # nextId)
  BY <1>2 DEF Ids
<1>6. MessageStatus' = [MessageStatus EXCEPT ![nextId] = "pending"]
  BY <1>1, <1>2, <1>3, <1>5 DEF MessageStatus
<1> QED
  BY <1>2, <1>3, <1>4, <1>6 DEF Mailbox!Submit

\* A POST is a handling by the backend, or nothing.
LEMMA PostHandles ==
  ASSUME OutboxInv, NEW m \in Ids, Post(m)
  PROVE  Mailbox!Handle(m) \/ UNCHANGED Mailbox!mailbox
<1>1. MessageStatus' = MessageStatus
  BY DEF Post, rows, database, MessageStatus
<1>2. MessageStatus[m] = "pending"
  BY DEF Post, OutboxInv, DispatchInv, TableInv, NothingVanishes, Due, TypeOK, MessageStatus
<1> QED
  BY <1>1, <1>2 DEF Post, Mailbox!Handle, Mailbox!mailbox

\* Until its reply is handled the posted row is pending.
LEMMA InflightIsPending ==
  ASSUME OutboxInv, pc = "await"
  PROVE  inflight \in Ids /\ inflight < nextId /\ MessageStatus[inflight] = "pending"
BY DEF OutboxInv, DispatchInv, TableInv, NothingVanishes, Due, TypeOK, MessageStatus

\* A 2xx confirms the message, or its mark is lost.
LEMMA SuccessConfirms ==
  ASSUME OutboxInv, NEW saved \in BOOLEAN, HandleSuccess(saved)
  PROVE  Mailbox!Confirm(inflight) \/ UNCHANGED Mailbox!mailbox
<1>1. pc' \in {"idle", "loop"}
  BY DEF HandleSuccess, NextIteration
<1>2. CASE saved
  <2>1. delivered' = delivered \cup {inflight}
    BY <1>2 DEF HandleSuccess, MarkDelivered, OutboxInv, DispatchInv, Due
  <2>2. inflight \notin deadLetters
    BY DEF HandleSuccess, OutboxInv, DispatchInv, TableInv, NothingVanishes, Due
  <2>3. MessageStatus' = [MessageStatus EXCEPT ![inflight] = "confirmed"]
    BY <2>1, <2>2, InflightIsPending DEF HandleSuccess, MarkDelivered, MessageStatus
  <2> QED
    BY <1>1, <2>3, InflightIsPending
    DEF HandleSuccess, Mailbox!Confirm, OutboxInv, DispatchInv, backend
<1>3. CASE ~saved
  BY <1>1, <1>3, InvisibleStep DEF HandleSuccess, MarkDelivered, backend
<1> QED
  BY <1>2, <1>3

\* A failed POST abandons the message if its retries are used up, and is
\* invisible otherwise.
LEMMA FailureAbandons ==
  ASSUME OutboxInv, NEW saved \in BOOLEAN, pc = "await", MarkFailed(inflight, saved),
         NextIteration, UNCHANGED <<nextId, processed>>
  PROVE  Mailbox!Abandon(inflight) \/ UNCHANGED Mailbox!mailbox
<1>1. pc' \in {"idle", "loop"} /\ delivered' = delivered
  BY DEF NextIteration, MarkFailed, MoveToDeadLetters, database
<1>2. CASE stored' = stored /\ deadLetters' = deadLetters
  BY <1>1, <1>2, InvisibleStep
<1>3. CASE stored' = stored \ {inflight} /\ deadLetters' = deadLetters \cup {inflight}
  <2>1. MessageStatus' = [MessageStatus EXCEPT ![inflight] = "abandoned"]
    BY <1>1, <1>3, InflightIsPending DEF MessageStatus
  <2> QED
    BY <1>1, <2>1, InflightIsPending DEF Mailbox!Abandon
<1> QED
  BY <1>2, <1>3 DEF MarkFailed, MoveToDeadLetters, database

\* A decommission closes the mailbox.
LEMMA GoneCloses ==
  ASSUME OutboxInv, NEW purged \in BOOLEAN, HandleGone(purged)
  PROVE  Mailbox!Close
<1>1. CASE purged
  <2>1. MessageStatus' = [m \in Ids |->
                            IF MessageStatus[m] = "absent" THEN "absent" ELSE "discarded"]
    BY <1>1 DEF HandleGone, MessageStatus
  <2> QED
    BY <2>1 DEF HandleGone, Mailbox!Close, backend
<1>2. CASE ~purged
  BY <1>2 DEF HandleGone, Mailbox!Close, MessageStatus, database, backend
<1> QED
  BY <1>1, <1>2

\* The outbox implements the at-least-once mailbox.
THEOREM OutboxImplementsMailbox == Spec => ImplementsMailbox
<1>1. OutboxInv /\ [Next]_vars => [Mailbox!MailboxNext]_(Mailbox!mailbox)
  <2> SUFFICES ASSUME OutboxInv, [Next]_vars
               PROVE  Mailbox!MailboxNext \/ UNCHANGED Mailbox!mailbox
    OBVIOUS
  <2> USE DEF Mailbox!MailboxNext
  <2>1. CASE \E k \in Kinds : Enqueue(k)
    BY <2>1, EnqueueSubmits DEF Enqueue
  <2>2. CASE \E m \in Ids : Post(m)
    BY <2>2, PostHandles
  <2>3. ASSUME NEW saved \in BOOLEAN, HandleReply(saved)
        PROVE  Mailbox!MailboxNext \/ UNCHANGED Mailbox!mailbox
    <3>1. inflight \in Ids
      BY <2>3, InflightIsPending DEF HandleReply, HandleSuccess, HandleRejected,
         HandleUnauthorized, HandleNoAnswer
    <3>2. CASE HandleSuccess(saved)
      BY <3>1, <3>2, SuccessConfirms
    <3>3. CASE HandleRejected(saved) \/ HandleUnauthorized(saved) \/ HandleNoAnswer(saved)
      BY <3>1, <3>3, FailureAbandons
      DEF HandleRejected, HandleUnauthorized, HandleNoAnswer, backend
    <3> QED
      BY <2>3, <3>2, <3>3 DEF HandleReply
  <2>4. CASE \E b \in BOOLEAN : HandleGone(b)
    BY <2>4, GoneCloses
  <2>5. CASE \/ FetchBatch \/ ReadToken \/ \E m \in Ids : BackoffExpires(m)
             \/ BreakerExpires \/ Readopt \/ Register \/ RotateToken
             \/ RemoveDevice \/ Crash \/ Restart \/ UNCHANGED vars
    BY <2>5, InvisibleStep DEF FetchBatch, ReadToken, BackoffExpires, BreakerExpires,
       Readopt, Register, RotateToken, RemoveDevice, Crash, Restart, Running, vars, rows,
       database, cycle, backend
  <2> QED
    BY <2>1, <2>2, <2>3, <2>4, <2>5 DEF Next, Dispatch
<1> QED
  BY <1>1, MailboxInitially, OutboxInvariant, PTL
  DEF Spec, ImplementsMailbox, Mailbox!MailboxSpec
=============================================================================
