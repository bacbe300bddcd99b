---------------------------- MODULE AgentOutbox ----------------------------
(***************************************************************************)
(* The store-and-forward pipeline of the Windows agent: the collectors     *)
(* insert rows into the SQLite table OutboxMessages (OutboxQueueService),  *)
(* one dispatcher loop (OutboxDispatcherService) posts the due rows to the *)
(* backend in batches, with per-row exponential backoff, a dead-letter     *)
(* table, a circuit breaker and a counter of authentication failures.      *)
(*                                                                         *)
(* Time is abstracted to what the code compares it with: a row is "due" or *)
(* in backoff, the breaker's pause is running or over.  Expiry is a step.  *)
(* A row's Id is its insertion rank, so Ids stand for CreatedAt as well.   *)
(***************************************************************************)
EXTENDS Naturals, FiniteSets

CONSTANTS
  MaxMessages,       \* bound: rows inserted in one behaviour
  Kinds,             \* message types the collectors enqueue
  Replies,           \* what a POST can end with in this environment
  BatchSize,         \* rows fetched per cycle (10)
  MaxRetries,        \* failures before a row is dead-lettered (10)
  BreakerThreshold,  \* consecutive network errors that open the breaker (5)
  AuthThreshold,     \* consecutive 401/403 that drop the credential (5)
  MaxCrashes         \* bound: process deaths in one behaviour

AllKinds == {"heartbeat", "telemetry", "inventory"}
AllReplies == {"ok", "rejected", "unauthorized", "gone", "serverError", "noResponse"}

ASSUME OutboxAssumption ==
  /\ MaxMessages \in Nat \ {0}
  /\ Kinds \subseteq AllKinds
  /\ Replies \subseteq AllReplies
  /\ "noResponse" \in Replies
  /\ BatchSize \in Nat \ {0}
  /\ MaxRetries \in Nat \ {0}
  /\ BreakerThreshold \in Nat \ {0}
  /\ AuthThreshold \in Nat \ {0}
  /\ MaxCrashes \in Nat

Ids == 1..MaxMessages
None == 0

VARIABLES
  \* the SQLite database, which survives the process
  stored,       \* Ids of the rows of OutboxMessages
  delivered,    \* those whose DeliveredAt is set
  deadLetters,  \* Ids whose payload was moved to DeadLetterMessages
  backoff,      \* rows whose NextRetryAt lies in the future
  retryCount,   \* RetryCount per row
  kind,         \* MessageType per row
  nextId,       \* next autoincrement Id
  \* the credential stores on disk, as GetDeviceTokenAsync resolves them
  credential,   \* "current", "stale" or "none", relative to the server
  \* the dispatcher's memory
  pc,           \* idle, token, loop, await; stopped, decommissioned
  batch,        \* rows of the fetched batch not yet posted
  inflight,     \* row whose POST is outstanding, or None
  reply,        \* how that POST ended
  token,        \* the token read for this batch
  netErrors,    \* _consecutiveNetworkErrors, saturated at BreakerThreshold
  authErrors,   \* _consecutiveAuthErrors, saturated at AuthThreshold
  pausing,      \* now < _circuitBreakerUntil
  reregister,   \* _reRegistrationSignal is released
  \* the environment, and history the properties speak of
  removed,      \* an administrator has decommissioned the device
  processed,    \* rows the backend has processed at least once
  posts,        \* POSTs per row, saturated at MaxRetries
  crashes

database == <<stored, delivered, deadLetters, backoff, retryCount>>
rows     == <<database, kind, nextId>>
counters == <<netErrors, authErrors, pausing>>
cycle    == <<pc, batch, inflight, reply, token>>
backend  == <<removed, processed, posts>>
vars == <<rows, credential, cycle, counters, reregister, backend, crashes>>

Running == pc \notin {"stopped", "decommissioned"}

SmallerOf(a, b) == IF a < b THEN a ELSE b

(***************************************************************************)
(* The queue.                                                              *)
(***************************************************************************)

\* The priority each collector passes to EnqueueAsync.
Priority(k) == IF k = "heartbeat" THEN 1 ELSE 2

\* ORDER BY Priority, CreatedAt.
Precedes(m, n) ==
  \/ Priority(kind[m]) < Priority(kind[n])
  \/ Priority(kind[m]) = Priority(kind[n]) /\ m < n

DueDelivered == {m \in stored : m \notin backoff}        \* mutant: DeliveredAt ignored
Due == {m \in stored : m \notin delivered /\ m \notin backoff}

\* GetPendingMessagesAsync: the first `size` due rows of that order.
Pending(size) ==
  {m \in Due : Cardinality({n \in Due : Precedes(n, m)}) < size}

\* EnqueueAsync, committed.  An insert that fails three times is swallowed by
\* ExecuteWithRetryAsync and leaves no trace: a stuttering step here.
Enqueue(k) ==
  /\ Running
  /\ nextId \in Ids
  /\ stored' = stored \cup {nextId}
  /\ kind' = [kind EXCEPT ![nextId] = k]
  /\ nextId' = nextId + 1
  /\ UNCHANGED <<delivered, deadLetters, backoff, retryCount, credential, cycle,
                 counters, reregister, backend, crashes>>

\* Mutant: one success marks the rest of the batch too.
MarkBatchDelivered(m, saved) ==
  /\ delivered' = IF saved THEN delivered \cup batch \cup {m} ELSE delivered
  /\ UNCHANGED <<stored, deadLetters, backoff, retryCount>>

\* MarkDeliveredAsync(m); `saved` is FALSE when all three attempts failed.
MarkDelivered(m, saved) ==
  /\ delivered' = IF saved /\ m \in stored THEN delivered \cup {m} ELSE delivered
  /\ UNCHANGED <<stored, deadLetters, backoff, retryCount>>

ExhaustedEarly(m) == retryCount[m] + 2 >= MaxRetries      \* mutant: off by one
\* RetryCount, once incremented, has reached the limit.
Exhausted(m) == retryCount[m] + 1 >= MaxRetries

\* Mutant: the row is removed before the dead letter is added, which fails.
RemoveOnly(m) ==
  /\ stored' = stored \ {m}
  /\ UNCHANGED deadLetters
MoveToDeadLetters(m) ==
  /\ deadLetters' = deadLetters \cup {m}
  /\ stored' = stored \ {m}

\* MarkFailedAsync(m): count the failure, then back off or dead-letter, in one
\* SaveChanges.
MarkFailed(m, saved) ==
  IF saved /\ m \in stored
  THEN /\ retryCount' = [retryCount EXCEPT ![m] = @ + 1]
       /\ IF Exhausted(m)
          THEN MoveToDeadLetters(m) /\ UNCHANGED backoff
          ELSE /\ backoff' = backoff \cup {m}
               /\ UNCHANGED <<deadLetters, stored>>
       /\ UNCHANGED delivered
  ELSE UNCHANGED database

BackoffExpires(m) ==
  /\ m \in backoff
  /\ backoff' = backoff \ {m}
  /\ UNCHANGED <<stored, delivered, deadLetters, retryCount, kind, nextId,
                 credential, cycle, counters, reregister, backend, crashes>>

(***************************************************************************)
(* The circuit breaker.                                                    *)
(***************************************************************************)
HandleNetworkError ==
  /\ netErrors' = SmallerOf(netErrors + 1, BreakerThreshold)
  /\ pausing' = (pausing \/ netErrors + 1 >= BreakerThreshold)

ResetCircuitBreaker ==
  /\ netErrors' = 0
  /\ pausing' = FALSE

BreakerExpires ==
  /\ pausing
  /\ pausing' = FALSE
  /\ UNCHANGED <<rows, credential, cycle, netErrors, authErrors, reregister,
                 backend, crashes>>

(***************************************************************************)
(* One dispatch cycle.                                                     *)
(***************************************************************************)
HalfOpen == netErrors >= BreakerThreshold

MayFetchNever == ~HalfOpen          \* mutant: an open breaker never half-opens
MayFetch == ~(HalfOpen /\ pausing)

FetchSize == IF HalfOpen THEN 1 ELSE BatchSize

\* Breaker check and fetch.  An empty or failed fetch ends the cycle.
FetchBatch ==
  /\ pc = "idle"
  /\ MayFetch
  /\ batch' = Pending(FetchSize)
  /\ batch' # {}
  /\ pc' = "token"
  /\ UNCHANGED <<rows, credential, inflight, reply, token, counters, reregister,
                 backend, crashes>>

\* The token is read once; every message of the batch is sent with it.
ReadToken ==
  /\ pc = "token"
  /\ IF credential = "none"
     THEN /\ pc' = "idle"
          /\ batch' = {}
          /\ UNCHANGED token
     ELSE /\ pc' = "loop"
          /\ token' = credential
          /\ UNCHANGED batch
  /\ UNCHANGED <<rows, credential, inflight, reply, counters, reregister,
                 backend, crashes>>

\* What the backend may answer to a POST with the token of this batch
\* (DeviceAuthGuard): 410 for a removed device, 401 for an unknown token.
\* 5xx and a lost answer are possible whatever the token.
Answers ==
  {r \in Replies :
     /\ r = "gone" => removed
     /\ r = "unauthorized" => ~removed /\ token = "stale"
     /\ r \in {"ok", "rejected"} => ~removed /\ token = "current"}

MayProcess(r) == r \in {"ok", "serverError", "noResponse"} /\ token = "current" /\ ~removed

\* The loop body up to SendAsync.  The backend may have processed a message
\* whose answer is a 5xx or never arrives (timeout, reset connection).
Post(m) ==
  /\ pc = "loop"
  /\ m \in batch
  /\ \A n \in batch \ {m} : Precedes(m, n)
  /\ batch' = batch \ {m}
  /\ inflight' = m
  /\ posts' = [posts EXCEPT ![m] = SmallerOf(@ + 1, MaxRetries)]
  /\ reply' \in Answers
  /\ \/ MayProcess(reply') /\ processed' = processed \cup {m}
     \/ reply' # "ok" /\ UNCHANGED processed
  /\ pc' = "await"
  /\ UNCHANGED <<rows, credential, token, counters, reregister, removed, crashes>>

\* Head of the foreach for the next message: it breaks while the breaker pauses.
\* Nothing is awaited between the end of one iteration and this test.
NextIteration ==
  /\ inflight' = None
  /\ batch' = IF pausing' THEN {} ELSE batch
  /\ pc' = IF batch' = {} THEN "idle" ELSE "loop"
  /\ UNCHANGED <<reply, token>>

\* 2xx.
HandleSuccess(saved) ==
  /\ pc = "await"
  /\ reply = "ok"
  /\ authErrors' = 0
  /\ MarkDelivered(inflight, saved)
  /\ ResetCircuitBreaker
  /\ NextIteration
  /\ UNCHANGED <<kind, nextId, credential, reregister, backend, crashes>>

\* 4xx other than 401, 403 and 410: a failure of the message, yet proof that
\* the network works, so the breaker closes.
HandleRejected(saved) ==
  /\ pc = "await"
  /\ reply = "rejected"
  /\ MarkFailed(inflight, saved)
  /\ ResetCircuitBreaker
  /\ NextIteration
  /\ UNCHANGED <<kind, nextId, authErrors, credential, reregister, backend, crashes>>

\* 401 or 403.  From the AuthThreshold-th one in a row each clears the token
\* stores and releases the re-registration signal.  device.json and
\* appsettings.json are not cleared, so the token may survive (AgentCredentials
\* models which store yields what).
HandleUnauthorized(saved) ==
  /\ pc = "await"
  /\ reply = "unauthorized"
  /\ authErrors' = SmallerOf(authErrors + 1, AuthThreshold)
  /\ IF authErrors + 1 >= AuthThreshold
     THEN /\ credential' \in {credential, "none"}
          /\ reregister' = TRUE
     ELSE UNCHANGED <<credential, reregister>>
  /\ MarkFailed(inflight, saved)
  /\ ResetCircuitBreaker
  /\ NextIteration
  /\ UNCHANGED <<kind, nextId, backend, crashes>>

\* 5xx, HttpRequestException, timeout or SocketException.
HandleNoAnswer(saved) ==
  /\ pc = "await"
  /\ reply \in {"serverError", "noResponse"}
  /\ MarkFailed(inflight, saved)
  /\ HandleNetworkError
  /\ NextIteration
  /\ UNCHANGED <<kind, nextId, authErrors, credential, reregister, backend, crashes>>

\* 410 or a "decommissioned" body: DecommissionManager deletes the identity and
\* the database (a file still open is skipped) and exits; the service is
\* unregistered, so nothing restarts it.
HandleGone(purged) ==
  /\ pc = "await"
  /\ reply = "gone"
  /\ pc' = "decommissioned"
  /\ batch' = {}
  /\ inflight' = None
  /\ credential' \in {credential, "none"}
  /\ IF purged
     THEN /\ stored' = {} /\ delivered' = {} /\ deadLetters' = {} /\ backoff' = {}
          /\ UNCHANGED retryCount
     ELSE UNCHANGED database
  /\ UNCHANGED <<kind, nextId, reply, token, counters, reregister, backend, crashes>>

(***************************************************************************)
(* The rest of the agent and the backend.                                  *)
(***************************************************************************)

\* The registration loop answers the signal: it adopts whatever token the
\* stores still yield.
Readopt ==
  /\ Running
  /\ reregister
  /\ credential # "none"
  /\ reregister' = FALSE
  /\ UNCHANGED <<rows, credential, cycle, counters, backend, crashes>>

\* With no stored token it registers: the backend replaces the device's token,
\* so that one of a batch under way becomes stale.
Register ==
  /\ Running
  /\ ~removed
  /\ credential = "none"
  /\ credential' = "current"
  /\ token' = "stale"
  /\ reregister' = FALSE
  /\ UNCHANGED <<rows, pc, batch, inflight, reply, counters, backend, crashes>>

\* The same machine registers from elsewhere (console mode, installer): the
\* device's token is replaced; the stores hold the new one or still the old one.
RotateToken ==
  /\ ~removed
  /\ credential = "current"
  /\ credential' \in {"current", "stale"}
  /\ token' = "stale"
  /\ UNCHANGED <<rows, pc, batch, inflight, reply, counters, reregister, backend, crashes>>

\* An administrator deletes the device: DeviceAuthGuard answers 410 from now on.
RemoveDevice ==
  /\ "gone" \in Replies
  /\ ~removed
  /\ removed' = TRUE
  /\ UNCHANGED <<rows, credential, cycle, counters, reregister, processed, posts, crashes>>

\* The process dies or the service is stopped: memory is lost, the database stays.
Crash ==
  /\ Running
  /\ crashes < MaxCrashes
  /\ crashes' = crashes + 1
  /\ pc' = "stopped"
  /\ batch' = {}
  /\ inflight' = None
  /\ netErrors' = 0
  /\ authErrors' = 0
  /\ pausing' = FALSE
  /\ reregister' = FALSE
  /\ UNCHANGED <<rows, credential, reply, token, backend>>

Restart ==
  /\ pc = "stopped"
  /\ pc' = "idle"
  /\ UNCHANGED <<rows, credential, batch, inflight, reply, token, counters,
                 reregister, backend, crashes>>

-----------------------------------------------------------------------------
Init ==
  /\ stored = {}
  /\ delivered = {}
  /\ deadLetters = {}
  /\ backoff = {}
  /\ retryCount = [m \in Ids |-> 0]
  /\ kind = [m \in Ids |-> "heartbeat"]
  /\ nextId = 1
  /\ credential \in {"current", "none"}
  /\ pc = "idle"
  /\ batch = {}
  /\ inflight = None
  /\ reply = "noResponse"
  /\ token = "stale"
  /\ netErrors = 0
  /\ authErrors = 0
  /\ pausing = FALSE
  /\ reregister = FALSE
  /\ removed = FALSE
  /\ processed = {}
  /\ posts = [m \in Ids |-> 0]
  /\ crashes = 0

HandleReply(saved) ==
  \/ HandleSuccess(saved)
  \/ HandleRejected(saved)
  \/ HandleUnauthorized(saved)
  \/ HandleNoAnswer(saved)

Dispatch ==
  \/ FetchBatch
  \/ ReadToken
  \/ \E m \in Ids : Post(m)
  \/ \E b \in BOOLEAN : HandleReply(b) \/ HandleGone(b)

Next ==
  \/ \E k \in Kinds : Enqueue(k)
  \/ Dispatch
  \/ \E m \in Ids : BackoffExpires(m)
  \/ BreakerExpires
  \/ Readopt
  \/ Register
  \/ RotateToken
  \/ RemoveDevice
  \/ Crash
  \/ Restart

Spec == Init /\ [][Next]_vars

\* The hosted service's loop never ends, timers run out, the service manager
\* restarts a dead process, every POST ends (its timeout is 30 s), and SQLite
\* is not locked at every single commit.
Fairness ==
  /\ WF_vars(FetchBatch)
  /\ WF_vars(ReadToken)
  /\ WF_vars(\E m \in Ids : Post(m))
  /\ WF_vars(\E b \in BOOLEAN : HandleReply(b) \/ HandleGone(b))
  /\ SF_vars(HandleReply(TRUE))
  /\ \A m \in Ids : WF_vars(BackoffExpires(m))
  /\ WF_vars(BreakerExpires)
  /\ WF_vars(Restart)

FairSpec == Spec /\ Fairness

-----------------------------------------------------------------------------
DatabaseTypeOK ==
  /\ stored \subseteq Ids
  /\ delivered \subseteq Ids
  /\ deadLetters \subseteq Ids
  /\ backoff \subseteq Ids
  /\ retryCount \in [Ids -> 0..MaxRetries]
  /\ kind \in [Ids -> AllKinds]
  /\ nextId \in 1..(MaxMessages + 1)

DispatcherTypeOK ==
  /\ pc \in {"idle", "token", "loop", "await", "stopped", "decommissioned"}
  /\ batch \subseteq Ids
  /\ inflight \in Ids \cup {None}
  /\ reply \in AllReplies
  /\ token \in {"current", "stale"}
  /\ netErrors \in 0..BreakerThreshold
  /\ authErrors \in 0..AuthThreshold

EnvironmentTypeOK ==
  /\ credential \in {"current", "stale", "none"}
  /\ processed \subseteq Ids
  /\ posts \in [Ids -> 0..MaxRetries]
  /\ crashes \in 0..MaxCrashes

FlagsTypeOK ==
  /\ pausing \in BOOLEAN
  /\ reregister \in BOOLEAN
  /\ removed \in BOOLEAN

\* Every variable of the tables, the dispatcher and its environment ranges over
\* what its declaration says; the counters stay within their thresholds.
TypeOK ==
  DatabaseTypeOK /\ DispatcherTypeOK /\ EnvironmentTypeOK /\ FlagsTypeOK

\* A row is marked delivered only if the backend processed it, whatever was
\* lost, failed to commit or crashed on the way (MarkDeliveredAsync is reached
\* from the 2xx branch alone, for the row whose POST was answered).
DeliveredWasProcessed == delivered \subseteq processed

\* Until a decommission, every inserted message is in exactly one of the two
\* tables: neither a failed commit, nor a crash between the POST and the mark,
\* nor the move to the dead letters loses or doubles it.
NothingVanishes ==
  pc # "decommissioned" =>
    /\ stored \cup deadLetters = 1..(nextId - 1)
    /\ stored \cap deadLetters = {}

\* A message is given up only after MaxRetries recorded failures, each of them
\* a POST of its own: no path counts one failed POST twice.
DeadOnlyAfterMaxRetries ==
  \A m \in deadLetters : retryCount[m] = MaxRetries /\ posts[m] = MaxRetries

\* A half-open breaker tests the backend with a single message: while the error
\* count is at the threshold, an outstanding POST has no successor in its batch.
HalfOpenProbesAlone == HalfOpen /\ inflight # None => batch = {}

\* No message is posted while the breaker pauses, not even the rest of the
\* batch whose failures opened it.
SilentWhilePausing ==
  [][inflight = None /\ inflight' # None => ~pausing]_vars

\* A delivered or dead-lettered row is never posted again, nor a row before its
\* backoff is over: what the fetch has filtered still holds when the row's turn
\* in the batch comes.
OnlyDueRowsPosted ==
  [][inflight = None /\ inflight' # None =>
       inflight' \in stored \ (delivered \cup backoff)]_vars

\* A row leaves the pending state by what its own POST brought: any other row's
\* reply, a crash or an expiring timer changes neither its mark nor its count.
OnlyOwnReplySettles ==
  [][\A m \in Ids :
       (delivered # delivered' /\ m \in delivered') \/ retryCount'[m] # retryCount[m]
         => m \in delivered \/ (pc = "await" /\ inflight = m)]_vars

\* A message whose row is stored, not delivered and not dead-lettered.
IsPending(m) == m \in stored \ delivered

\* If from some point on the stores always yield some token, every pending
\* message is eventually delivered or dead-lettered, unless the device is
\* decommissioned: neither the breaker nor the backoff nor a higher priority
\* holds a message back for ever.
EverySettles ==
  <>[](credential # "none") =>
    \A m \in Ids : IsPending(m) ~> (~IsPending(m) \/ pc = "decommissioned")

\* The tables read as the abstract mailbox's status of each message.
MessageStatus ==
  [m \in Ids |->
     IF m >= nextId THEN "absent"
     ELSE IF m \in deadLetters THEN "abandoned"
     ELSE IF m \in delivered THEN "confirmed"
     ELSE IF m \in stored THEN "pending"
     ELSE "discarded"]

Mailbox == INSTANCE AtLeastOnceMailbox WITH
  Messages <- Ids,
  status <- MessageStatus,
  handled <- processed,
  closed <- pc = "decommissioned"

\* The pipeline implements at-least-once delivery: every step of tables,
\* dispatcher and backend is a step of the abstract mailbox or leaves it alone.
ImplementsMailbox == Mailbox!MailboxSpec
=============================================================================
