# Network Operations System: TLA+ models and proofs

The Network Operations System (NOS) watches a fleet of Windows machines. An agent on each machine
queues heartbeats, telemetry and inventory in a local database and posts them to a control plane;
the control plane registers devices, stores what they send, evaluates alert rules, keeps track of
who is online and shows it all on a web console.

This directory specifies the parts of NOS in which the order of steps, failures and restarts
decides the outcome. Nine models are translated from the code under `src/`; each is checked with TLC
on small instances and proved about, for every value of their constants, with TLAPS.
`PROJECT.json` has the machine-readable side: the lines of code behind every definition ("map"),
the runs, a mutant for each property, the hazards of the code, and the theorems.

Contents

1. Inventory: the parts of the system
2. The modules and the code
3. What the runs check and show
4. Fairness
5. What is proved, from what, and how
6. What the code does that its documentation denies
7. What is only model-checked, and what is not modelled
8. Plan

Paths below are relative to `src/apps`; `backend/` stands for `backend/src/modules/` where a file
name is unique.

---------------------------------------------------------------------------------------------------

## 1. Inventory

### How the parts interact

    NOS.Agent (one process per machine)                  control plane (one NestJS process)
    ----------------------------------                   ----------------------------------
    collectors --> outbox (SQLite) --> dispatcher --POST--> guards --> controllers
    registration loop --------------------------POST--> DeviceService.register --> registration keys
    credential files <-- dispatcher, registration       recordHeartbeat --> device row, presence maps
                                                        ingest --> snapshots --> alert rule engine
    console (Next.js) <--- sockets --- publisher <---   events (EventEmitter, in process)
                      ---- polls ----> roster           cron jobs: rollup, retention, escalation
                                                        PostgreSQL (Prisma), one statement at a time

Agent and control plane meet in HTTP requests only. Inside the control plane the components share
the database, an in-process event emitter, which calls its listeners synchronously, and a few
in-memory stores. Node runs one handler at a time between two `await`s; everything that matters
happens because other handlers run at an `await`.

### Components

For every component: the state it keeps, what changes it, what is hard, and what would make it
correct. "M" marks the modelled ones.

**M Agent outbox** (`NOS.Agent/Services/OutboxQueueService.cs`, `OutboxDispatcherService.cs`).
State: the SQLite tables OutboxMessages and DeadLetterMessages, the dispatcher's batch, its error
counters, the breaker's pause. Operations: enqueue, fetch by priority, mark delivered or failed,
backoff, dead-letter, breaker, react to 401/403 and 410. Hard: the process may die between a
POST and its mark; answers get lost; commits fail; the batch is a snapshot of a table that
changes. Correct if: nothing is marked delivered that was not processed, nothing vanishes or
doubles, nothing is given up early, a tripped breaker is quiet and probes with one message, and
everything is settled in the end.

**M Device registration** (`device.service.ts`, `registration-key.service.ts`,
`prisma-registration-key.repository.ts`, `devices.controller.ts`). State: device rows, registration
keys with use counts and status, the store of decommissioned devices. Operations: enrol (create or
renew), charge a key, clean up after a refused charge, revoke, expire, delete a device. Hard:
enrolments interleave at each of eight awaits, a key may be revoked or used up under them, the
process may die between row and charge. Correct if: no key is overdrawn, no use is lost, no row is
free, no answered enrolment loses its row, a revoked key is dead at once, no foreign organisation
takes a device.

**M Alert rule engine** (`alert-rule-engine.service.ts`). State: breach rows (one per device and
rule), alerts, maintenance mode. Operations: evaluate a snapshot, create, deduplicate and resolve
alerts; operators change or delete alerts. Hard: evaluations are started and never awaited, so they
overlap; one exception ends the loop over the rules. Correct if: an alert stands for a breach that
lasted, there is one alert per breach, and it is resolved when the breach ends.

**M Device status and presence** (`device.service.ts`, `heartbeat-presence.service.ts`,
`presence.service.ts`, `realtime.handler.ts`, console `devices/page.tsx`). State: the device row,
presence maps in memory, the badge on a console. Operations: heartbeat, registration, sweep, roster
with late updates, maintenance, retirement. Hard: three places written by different code from data
of different age. Correct if: a healthy device never shows as offline, a dead one does, a returning
one comes back, everywhere.

**M Telemetry rollup** (`telemetry-cron.service.ts`, `telemetry-aggregation.service.ts`). State:
a lock and the time of the last run in KeyValue, aggregates. Operations: take the lock, fetch since
the last run, commit aggregates and new time, release. Hard: runs fail or die anywhere, the lock
is two statements, snapshots come late. Correct if: every snapshot is in exactly one aggregate and
the job runs for ever. The daily purge (`telemetry-retention.service.ts`) is not modelled.

**M Alert escalation** (`alert-engine.service.ts`, `escalation.worker.ts`). State: alerts with
status, severity, assignee and age, their timelines; the list a cycle works through. Operations:
a cycle every minute that assigns alerts after 10 and 20 minutes and promotes them after 40; operators
close, snooze, re-grade, assign and delete alerts. Hard: cycles are not awaited and overlap, the list
is stale, severity and timeline are written in two statements, one exception ends a cycle. Correct
if: only overdue alerts are promoted, a cycle that comes to its end has left none out, the timeline
tells the story of the severity, and every overdue alert gets CRITICAL in the end. Incidents by
fingerprint (`processIncident`) and the dispatch of notifications have no caller.

**M Rule administration** (`rule-engine.service.ts`). State: rules with a version number in the
database, the history of versions and the compiled cache in memory. Operations: create, import,
clone, update, archive, roll back, delete, reload the cache, start. Hard: every change is a read, a
write and a snapshot of what was read; a snapshot keeps some of a rule's fields only; an update's body
may say anything; reloads overlap; the history dies with the process. Correct if: a version names one
state of a rule, a rollback brings back what snapshots keep of a version and leaves the rest as it is,
the settings that an update replaces can be gone back to, and the cache ends up with the database's
rules. The simulation (`rule-simulation.service.ts`) is a computation over stored telemetry.

**Notification and maintenance windows** (`alerts/notification`). No queue and no retry; one call
per notification.

**M Realtime gateway and session registry** (`realtime.gateway.ts`,
`connection-registry.service.ts`, `presence.service.ts`, `socket-metrics.service.ts`; on the console
`useRealtime.ts` and `devices/[id]/page.tsx`). State: sessions with their rooms, users shown online,
a counter of clients; on the console the connection, the page and what it has emitted. Operations:
connect, register, disconnect, join, leave; open a page, lose a connection, get another. Hard: the
handler for connections awaits twice, and the socket may go down or ask for rooms meanwhile; joins
are answered after an await and overtaken by leaves. Correct if: registry, presence, counter and
socket.io agree, and an open page gets its device's events.

**Realtime publisher** (`socket-publisher.service.ts`). State: a cache of recent events. Hard: equal
events within 1.5 s are merged although another came in between. Correct if: a console ends up
with the last state.

**Telemetry ingestion** (`telemetry.service.ts`). State: snapshots, the paused devices in memory.
Storing a snapshot is part of `TelemetryRollup`, the evaluation it starts of `AlertRuleEngine`;
pausing is planned.

**M Agent credentials and registration loop** (`CredentialManagerService.cs`,
`DeviceRegistrationService.cs`, `Program.cs`). State: the token, in up to seven places on disk and in
the configuration, which follows two of them; `CurrentToken` and a semaphore. Operations: find a
token, register and write it everywhere, clear it after rejections, register by hand (`--register`).
Hard: three writers without a lock, writes that fail are swallowed, a clearing leaves some of the
places. Correct if: no request to register is lost, a clearing does not hide the token written under
it, and the agent always gets a token again. `AgentOutbox` has the loop with a single token.

**Agent resource control** (`OutboxPressureMonitor.cs`, `AgentResourceMonitor.cs`,
`AgentRuntimeState.cs`). State: pressure and throttle flags. Hard: flags that are set and never
reset. Correct if: normal operation resumes when the load is gone.

**Agent host** (`Program.cs`, `OutboxDbContext.cs`). Start-up; part of `AgentOutbox` as its restart.

**Authentication** (`backend/auth`). Passwords, one-time codes, sessions; asks who may get in,
which this project does not.

**Organisations, invitations, members, quota** (`organization-invitation.service.ts`,
`user-governance.service.ts`, `quota-engine.service.ts`). State: members, invitations, limits. Hard:
every check is separated from the write it protects. Correct if: no more members than the quota
allows, and an invitation is accepted at most once and only while it is open.

**Device governance and transfers** (`device-governance.service.ts`). State: transfer requests,
ownership, the device's organisation. Hard: three writes, the error of the last swallowed; no check
that a request is still open. Correct if: owner and organisation agree, and a request is resolved
once.

**Tenant sessions, API keys, roles, audit engine**; **inventory**; **users, audit log, health**;
**shared types**; **installer, scripts, deployment**: look-ups, single-row writes, declarations and
build files, without a sequence of steps that others can interleave with.

**Fleet administration** (`fleet/services`). Registration keys are in `DeviceRegistration`; bulk
operations are one transaction plus an audit entry outside it.

**Dashboard, device views, request plumbing, database layer, web console**: the deletion of a
device, the guard's answers, the unique keys and transactions, the badge of the device list and the
console's socket are in the modules above; the rest reads and renders.

---------------------------------------------------------------------------------------------------

## 2. The modules and the code

A step of a model is what the code does between two `await`s (or, on the agent, between two calls
that can fail): a database statement or transaction is atomic, and everything a handler does before
its next one belongs to the same step. A handler's local variables that outlive an `await` are
variables of the model; that is where stale state comes from. Definitions keep the code's names. A
definition whose comment says "mutant" is a changed copy of the one below it; the mutant shows that
a property notices the change.

| module | what it is |
|---|---|
| `AgentOutbox`, `AtLeastOnceMailbox` | the agent's store-and-forward pipeline; the delivery it promises |
| `DeviceRegistration`, `UsageLedger` | enrolment against keys with limited uses; an atomic ledger of uses |
| `AlertRuleEngine`, `BreachMonitor` | overlapping evaluations of alert rules; a monitor that takes readings one at a time |
| `DevicePresence` | row, presence maps and badge of a device, with timers |
| `TelemetryRollup`, `OnceRollup` | one tier of the rollup job, its lock and its time of last run; an atomic rollup between two cuts in time |
| `RuleAdministration`, `VersionedRules` | overlapping changes of alert rules, their version history and the compiled cache; rules that change one version at a time |
| `AlertEscalation` | the escalation worker's cycles beside the operators |
| `AgentCredentials` | the places of a token and the three who write and clear them |
| `ConsoleFeed` | sockets between consoles and gateway, rooms, and the registry's bookkeeping |
| `MC_*` | instances for TLC: values of functions, symmetry |
| `*Proofs` | theorems and proofs of the module of that name; `ConsoleProofs` those of `DevicePresence` and `ConsoleFeed` |

### AgentOutbox

The tables survive a crash (`stored`, `delivered`, `deadLetters`, `backoff`, `retryCount`), the
dispatcher's variables do not (`pc`, `batch`, `inflight`, `reply`, `token`, `netErrors`,
`authErrors`, `pausing`). `Enqueue` is what the collectors call. A dispatch cycle is `FetchBatch`
(half-open fetches one row), `ReadToken`, and per row `Post` and one of `HandleSuccess`,
`HandleRejected`, `HandleUnauthorized`, `HandleNoAnswer`, `HandleGone`, each with a commit that may
fail (`saved`). `Post` fixes the reply at once, from what the backend may answer (`Answers`: the
device guard's 401, 403 and 410, an error, or nothing); a lost answer may or may not have been
processed. Time is reduced to its comparisons: a backoff or the breaker's pause is running or over
(`BackoffExpires`, `BreakerExpires`). `Crash` and `Restart` are a dying and restarted process;
`Readopt`, `Register`, `RotateToken` and `RemoveDevice` are the registration loop and the
administrators as the outbox notices them. `AtLeastOnceMailbox` is the abstract promise: a message
is absent, pending, then confirmed, which needs that it was handled, or abandoned; `MessageStatus`
reads this from the tables.

### DeviceRegistration

`ValidateKey`, `FindExisting`, `CreateDevice`, `ReadUsage`, `IncrementUsage`, `UpdateDevice` and
`Compensate` are the stretches of `DeviceService.register` between its awaits. `SwapApplies` is the
condition of the `updateMany` in `incrementUsage`: the key is active and its use count is the one
read. A device's id and token are named after the request that wrote them, so the model sees who
created and who renewed a row. `MarkRemoved` and `DeleteRow` are `deleteDevice`, with its awaits
between them; `Crash` ends everything under way. A request without a key may renew a row with the
token it carries: `NextSteps` lets it succeed if that token was handed out. `UsageLedger` is an
atomic "take one if open and below the limit".

### AlertRuleEngine

One device. `ReadDevice`, `ReadRules`, `ReadBreach`, `CreateBreach`, `UpdateBreach`, `FindAlert`,
`CreateAlert`, `BeginResolve` and `CommitResolve` are the statements of `evaluateTelemetry`;
`BeginResolve` to `CommitResolve` is its transaction, which holds the row's lock (`Locked`).
`DatabaseFails` is an error at any of them, `Throw` the catch around the loop. What a snapshot says
of a rule is "breach", "fine" or "absent". Operators act through `SetStatus`, `DeleteAlert`,
`SetMaintenance` and `ToggleRule`. `BreachMonitor` is what a reader of the rules expects: a breached rule
starts to run, is raised once it has run for its duration, and recovers, run and alert at once. Its runs
are the breach rows, its raised alerts the active ones. It promises this while it is `calm`: no two
evaluations have overlapped and no operator has made an alert active again.

### DevicePresence

Time is counted in ticks, ages grow with `Tick`. `Beat`, `WriteRow`, `ProcessHeartbeat` are a
heartbeat; `Register`, `WriteRow`, `AnnounceReconnected` a registration; `SweepOfflineDevices` the
timer; `ListDevices`, `TakeNow`, `AnswerRoster`, `PersistOffline` a roster request, which reads rows,
judges them against the presence maps, announces the stale ones and updates their rows after its
answer. Operators and failures count against `MaxDisturbances`.

### TelemetryRollup

`Tick` fires the cron every `Period` ticks, whatever earlier jobs are at work. `CheckLock` and
`TakeLock` are `acquireLock`; `ReadLastRun`, `FetchSnapshots` and `Commit` are `aggregateSnapshots`;
`ReleaseLock` is the `finally`. `AcquireFails`, `RunFails` and `ReleaseFails` are errors at each
statement, among them the upsert that is applied although its answer is lost. `Ingest` stores a
snapshot with the agent's stamp, up to `MaxDelay` old or `MaxAhead` early. Which bucket a snapshot
falls into, and its averages, are data: the model counts in how many aggregates it is. The four
tiers have their own keys and are instances of the same module. `OnceRollup` has neither jobs nor a
lock: there is a cut in time, and rolling up moves it forward and takes every snapshot in between at
once. Its cut is the stored time of the last run, and what it rolled up is what is in an aggregate.

### RuleAdministration

Snapshots keep fourteen fields of a rule, and leave out the rest (`rule-engine.service.ts:1062-1077`). A
row is therefore made of what they keep, `settings` (threshold, severity, metric, duration, schedule
mode) and `enabled`, and of what they leave out, `extras` (cron expression, tags, category,
dependencies, template) and `archived`, the archive's mark; names and descriptions are left out. A `Body` is
what a request may set, which is all of it: the controller takes the body as `any`, and service and
repository pass it on (`alerts.controller.ts:617-635`, `rule-engine.service.ts:442-447`,
`prisma-alert-rule.repository.ts:116-124`), so an update may also archive a rule or bring it back.

`Find` is the `findById` every change starts with; an update then pushes a snapshot of what it read
(`SnapshotVersion`, which keeps `HistoryLimit` of them), and `WriteUpdate` writes the version that was
read plus one, unconditionally. A rollback reads the history and the rule (`FindSnapshot`), the rule
again (`RereadVersion`), and writes over the row what the snapshot has kept (`WriteRollback`,
`Restored`), without a snapshot of what it replaces. `CreateRule`, which may give any version and status,
`ImportRule`, `WriteClone`, `ArchiveRule` and `DeleteRule` are the other operations. Each ends with a
reload of the cache: `ReadRules` queries the live rules, `FillCache` replaces the cache by that answer,
whatever has been filled in meanwhile. A request may fail at each statement; `Restart` empties the memory
and creates the default rules that are not there. History variables count the queries (`reads`) and
remember every row a rule has had (`committed`). `VersionedRules` has no requests: rules are enlisted,
archived and removed, and a change makes, in one step and whatever it says, the next version of the
rule as it is; only a rule whose changes overlapped (`torn`) may count on from an earlier one.

### AlertEscalation

`Begin` lists the candidates, `TakeNow` fixes "now", and `Judge` takes one candidate after the other:
`Promote` and `RecordAction`, `AssignPool`, `AssignSenior`, `AssignOperator`, or `Pass`; `End` and
`CycleFails` finish the cycle. Time is an age in units of ten minutes, up to forty. An operator's
change of severity is `ReadAlert`, `ChangeSeverity`, `RecordChange`; `SetStatus`, `AssignAlert`,
`Raise` and `Delete` are single statements. A timeline is reduced to the severity it ends with and to
the alerts whose entries do not join. Pools are no users (`Assignable`), so an assignment to one
fails, as the foreign key makes it.

### AgentCredentials

`file` says what each place has: nothing, the device's id alone, or a token. The loop is `Read`
(`GetDeviceTokenAsync`, whose order of places is `Found`), `Adopt` or `Register`, one `Write` per place,
`Publish` and `Wake`; the dispatcher is `Fetch`, `Post`, and after `RejectLimit` rejections `Clear`, place
by place, and `Request` in its two steps; the wizard is `WizardRegisters` and its writes. `Reload` lets the
configuration follow its files some time later. `Read` is one step although it opens several files.

### ConsoleFeed

A connection is a socket of its own, `<<console, number>>`. `Open`, `Verify`, `RegisterSession` and
`Reject` are `handleConnection` between its awaits, `TurnAway` its refusal before the first (of which the
rate limit is one: any connection may be refused, and any join); `Vanish` is a socket that
goes down and `HandleDisconnect` what the gateway does about it; `JoinRoom`, `Authorize`, `Forbid` and
`LeaveRoom` are the room handlers. On the console, `Connected` sends what was buffered and then asks
for the user's rooms (`Greeting`), `Lost` is a connection that the same socket object will replace,
`Dismissed` one that the gateway has ended, `NewSocket` another socket object, `Show` the page's effect.
The transport is socket.io's, taken from how the code uses it: messages of a connection arrive in
order, what is emitted without a connection is kept, and `join` on a closed socket does nothing.

---------------------------------------------------------------------------------------------------

## 3. What the runs check and show

| run | instance | states | shows |
|---|---|---|---|
| `outbox_safety` | 2 messages of different priority, all 6 replies, batch 2, thresholds 2, 1 crash | 1.9 M | no loss, no doubling, no early dead letter, only due rows are posted, refinement of the mailbox |
| `outbox_liveness` | 2 messages, batch 1, thresholds 2, 1 crash, fairness | 0.3 M | every message is settled |
| `registration_safety` | 1 machine, 3 requests, 2 keys of 2 organisations with limits 1 and 2 | 0.8 M | limits, counts, rows and organisations hold under every interleaving, revocation, deletion, crash; refinement of the ledger |
| `alerts_safety` | 3 evaluations, 1 rule, 1 database error | 0.8 M | alerts are backed; duplicates and unresolved alerts come from overlap or reopening only; refinement of the monitor while neither happens |
| `presence` | 1 device, 1 roster at a time, the code's periods in ticks of 15 s, 3 disturbances, fairness | 0.5 M | healthy devices stay online, silent ones go dark, returning ones come back |
| `presence_badge` | the same, 1 disturbance | violation | a console shows a returned device as offline for good |
| `rollup` | 2 snapshots, 2 jobs, 4 instants, any failure, 1 death, fairness | 0.2 M | each snapshot is rolled up once; none that is in time is passed over; refinement of the atomic rollup |
| `rules` | 1 rule and 3 requests, or 2 rules and 2 requests, 2 settings, a history of 2, failures and restarts | 0.7 M | versions name one state, replaced settings can be gone back to, each but for overlaps; a rollback writes what was kept and leaves the rest; the cache follows; refinement of rules that change atomically |
| `escalation` | 2 alerts, 2 overlapping cycles, 1 re-grading, 1 error or operator's action, fairness | 0.9 M | only overdue alerts are promoted, a finished cycle left none out, timelines join, overdue alerts get CRITICAL |
| `credentials` | 2 tokens, 2 rejections, 2 failures, revocations, restarts or wizard runs, fairness | 1.3 M | no lost wake-up, the new token is the one found, the agent gets a token again |
| `credentials_stuck` | the same, 1 failure | violation | a cleared token is found again |
| `console_feed` | 2 tabs of 1 user, 2 connections each, 1 device page, 3 failures or clicks | 2.2 M | registry, presence, counter and rooms agree; an open page is fed, but for the cases it names |

Why the bounds are enough:

- **Outbox.** Two rows are the fewest with an order, a batch with a successor and a probe that leaves
  one out. Thresholds of two (in the code 10 retries, breaker 5, authentication 5) separate
  "below", "at" and "past" a threshold. One crash may fall between any two steps; a second would start from a state the
  first already reaches, since a crash resets all memory.
- **Registration.** Three requests are the fewest in which one creates, one renews and one competes
  for the last use. A limit of 1 is exhausted by one of them, a limit of 2 by a race of three.
  Machines do not share rows, so one is enough; keys are shared, so there are two.
- **Alerts.** Three evaluations allow one that came before (the breach that lasted) and two that
  overlap. Rules do not share rows, so one is enough. A duration of one unit separates the first breach from a lasting one.
- **Presence.** Threshold 90 s = 6 ticks, sweep 15 s = 1, heartbeat 30 s = 2, database latency up to
  30 s = 2. Three disturbances are silence, return and one more event in between. Larger latencies
  and two devices or two rosters were tried separately with the same result; devices do not
  interact and a roster's verdicts are per device.
- **Rollup.** Two jobs are the most that are at work at once under the assumption on the lock: the
  holder and the one the cron has just fired (`TwoJobsSuffice` proves it). Four instants with a period of two give two firings at their times
  and any number at the last instant, where the clock stops and the cron goes on. A delay of two
  ticks reaches past a whole run.
- **Rules.** Three requests are two that overlap on a rule and one that looks at the result; a history
  of two (20 in the code) loses its oldest entry to the third version. Rules meet only in the cache,
  which holds all of them, and in a clone: a second rule is there for these, with two requests whose
  reloads pass each other, which is what the state constraint of the run says (`ThreeOnOneOrTwoOnTwo`). Of what
  snapshots keep, `settings` and `enabled` vary, of what they leave out, `archived`; two extras in place of
  two settings, and rules that start at version 3, were tried separately with the same result.
- **Escalation.** Two cycles are the overlap that a slow cycle leads to; two alerts give a list with a
  successor. One error or operator's action suffices to break a cycle off, or to change an alert
  under it; the liveness property needs that such things are finitely many, and `MaxActs` is that
  bound. Rules that raise CRITICAL alerts at once add nothing: the worker does not list those.
- **Credentials.** Two tokens are an old one and its successor; all seven places are there. Two failures,
  revocations, restarts or wizards can hit the same registration.
- **Consoles.** Two tabs of one user are what presence depends on (users do not share anything else);
  a second connection of a tab is what its first one's remains can be confused with. One device page
  and its absence give joins, leaves, and both in a row.

The properties, by name and with the code they are about, are commented in the modules. Every
property has a mutant in `PROJECT.json`, a slip that a maintainer could make in the code named and
that the property catches in that same run: a row of the dead letters that is removed but not
added, a use count written back from what was read, a clean-up by uuid instead of id, a threshold
with a period on top, a range closed at both ends, a release that is not in a `finally`.

Deadlock is checked in the presence, rollup and escalation runs, whose timers never stop. The others
switch it off (`CHECK_DEADLOCK FALSE`): an outbox whose device is decommissioned stops for good, and
a bounded number of requests, evaluations, tokens or connections comes to an end.

Two action properties of `AgentOutbox` (`SilentWhilePausing`, `OnlyOwnReplySettles`) and one of
`DeviceRegistration` (`RevokedKeyIsFrozen`), the invariants `DeliveredWasProcessed`,
`HalfOpenProbesAlone`, `UsesWithinLimit` and `HistoryIsHonest`, and the type invariants (that of `DeviceRegistration`
includes one row per machine) are in no run: they are proved, for every instance.

---------------------------------------------------------------------------------------------------

## 4. Fairness

- `AgentOutbox!FairSpec`: the hosted service's loop never ends and each POST has a timeout of 30 s
  (weak fairness of each dispatch step); timers run out; the service manager restarts a dead
  process. A commit succeeds if it is tried again and again (strong fairness of `HandleReply(TRUE)`),
  because SQLite is locked by short transactions only. Nothing is assumed of collectors,
  registration, crashes or the backend. `EverySettles` has as a premise that some token is on disk
  from some time on.
- `DevicePresence!FairSpec`: timers fire, queries are answered (`Tick` waits for none longer than
  `Latency`), an agent that talks sends its heartbeats, and some dashboard is open: it asks for the
  roster every 30 s (`dashboard/page.tsx:309-312`). The last assumption is needed, since nothing else
  ever writes OFFLINE; with no console open the row of a dead device stays ONLINE. Nothing makes an
  agent talk, an operator act or a request fail.
- `TelemetryRollup!FairSpec`: the clock runs, each statement of a job is answered or fails (weak
  fairness of `Run(j)`), and no statement fails every time it is tried (strong fairness per statement,
  over all jobs). Nothing makes a lock be released: `TimelyIsRolledUp` excuses a lock that was left
  behind (see section 6).
- `AlertEscalation!FairSpec`: the worker's timer fires and its queries are answered or fail (weak fairness
  of `Cycle(c)`), and time passes. Operators owe nothing.
- `AgentCredentials!FairSpec`: the loop's thread runs on, a request to register is answered in the end,
  and a dispatcher that has begun to clear a token goes on (weak fairness of `Loop` and of
  `Clear \/ Request`). Nobody has to start a batch or a wizard. `TokenComesBack` excepts the state in
  which the model has no token left to issue (`OutOfTokens`).

---------------------------------------------------------------------------------------------------

## 5. What is proved, from what, and how

All theorems hold for every value of the constants within the named assumptions of the modules
(`OutboxAssumption`, `RegistrationAssumption`, `EngineAssumption`, `TimingAssumption`,
`RollupAssumption`, `AdministrationAssumption`, `EscalationAssumption`, `CredentialsAssumption`,
`FeedAssumption`), which state types and little else: thresholds are positive, durations too, the
requests and the consoles are finitely many, the pools are not among the users (their ids are
generated), a device's room is not that of an organisation or of the dashboard (the prefixes differ).

**AgentOutboxProofs**: type correctness, the four invariants, the three action properties
(`SilentWhilePausing`, `OnlyDueRowsPosted`, `OnlyOwnReplySettles`) and the refinement `ImplementsMailbox`. The invariant
adds what a dispatch cycle holds between two awaits: the batch and the row in flight are distinct
due rows, an "ok" is held only for a processed row (`DispatchInv`), recorded failures trail the
POSTs by the one in flight (`RetryInv`), and the breaker never pauses inside a cycle
(`BreakerInv`). Without `DispatchInv` a delivered row could have come from anywhere; without
`RetryInv` the exact count of a dead letter does not follow.

**DeviceRegistrationProofs**: type correctness (with one row per machine), the five invariants,
`RevokedKeyIsFrozen`, `ForeignKeyNeverRetokens` and the refinement `ImplementsLedger`. The invariant says what a request's
place implies: at "increment" the count it read is below the limit, so the update that finds the
same count stays within it (`ProgressInv`); a row's creator found none and is past its creation
(`RowsInv`); uses and failed attempts are at most the requests settled with the key
(`AttemptsInv`, with the cardinality theorems of the library). `AnsweredHasRow` needs in addition
that a request on its way to its charge still has the row it made (`OwnRowInv`);
`ForeignKeyNeverRetokens` that rows, and the copies that handlers hold of them, are of their
creator's organisation, so that the comparison made before an await still holds after it (`OrgInv`).

**AlertRuleEngineProofs**: type correctness, `BackedByBreach`, `DuplicatesOverlap`,
`SerialAlertsResolve`. The invariant: breach rows and the rows evaluations hold tell of the snapshot
that created them (`RowsInv`, `LoopInv`), an evaluation about to create an alert has seen those of
all earlier evaluations inactive (`DedupeInv`), and, as long as evaluations do not overlap, what
was read still holds (`SerialInv`). `EngineImplementsMonitor` is the refinement of `BreachMonitor`. It needs
three more invariants: what an evaluation knows of its reading and of the alert its transaction has found
(`ReadingInv`), that without overlap the transaction has found every row of its rule (`FoundInv`), and that
an evaluation has not raised an alert for the rule it is looking at (`OwnInv`). Inserting the row is then the
monitor's `Start`, creating the alert its `Raise` (unless maintenance suppresses it), the commit its
`Recover`, an operator's change its `Dismiss`; a failure at any statement stutters, because the row and the
alert change in one transaction.

**ConsoleProofs**, on `DevicePresence`: type correctness, `PresenceIsTimely`, and `SteadyStaysOnline`
under `BeatsInTime` (BeatPeriod + 2 Latency <= Threshold and 2 BeatPeriod <= Threshold), a condition
the code's numbers satisfy. The invariant bounds the age of row and presence record by the age of the
agent's last heartbeat, plus one period while a heartbeat is being handled (`RowIsFresh`,
`RecordIsFresh`), and the age a roster has read (`RostersAcquit`).

On `ConsoleFeed`: all five invariants of the run, for any number of consoles, users, pages and
connections. They rest on one another. `ConnInv` and `LinkInv` say which sockets there are and what the
gateway may know of one before its user is found: no room, no pending join, no session. `CountInv` pays
for every stray decrement with a socket that is down, and so bounds the drift of the counter.
`RegistryInv` is `OnlineMatchesSessions`, `GhostsCameTooLate` and `RoomsAgree` together; none of the three
is inductive alone. `FedInv` is what makes `PageIsFed` inductive: the request for an open page's room is
still in the queue with no leave behind it (`Asks`), or it was heard, and then it was refused, is being
looked up or put the socket into the room, and nothing that is still queued takes it out again (`Keeps`).
The lemmas on `Asks` and `Keeps` say what appending to a queue and taking its head do to them.

**TelemetryRollupProofs**: type correctness, `CountedOnce`, `NothingSkipped`. The invariant: one job
acquires and one holds, and RUNNING says so (`LockInv`); a run's range starts at the last run's time
(`RangeInv`); what it commits is what the range holds, but for what came late (`BatchInv`); all that
was rolled up, and nothing else that came in time, lies before the last run's time (`LedgerInv`).
Both theorems are under `PromptLock`: the two statements of `acquireLock` are answered before the cron
fires again. Nothing in the code enforces that; without it two jobs may both take the lock. Two
more results follow from the invariant. `RollupImplementsOnce` is the refinement of `OnceRollup`: the commit is
its rollup, because what the transaction takes lies between the old and the new time and leaves out
nothing that came in time (`CommitRollsUp`), an ingested snapshot is late wherever the cut has passed it
(`IngestArrives`), and everything else stutters. `TwoJobsSuffice` says that no two jobs are ever at work at
once beside one that acquires the lock: the run's two jobs are all there can be.

**RuleAdministrationProofs**: type correctness, `HistoryIsHonest`, `RollbackRestores`,
`VersionNamesOneState`, `SettingsAreUndoable` and `CacheFollows`. What a request has read is a row the rule
has had, and what the history and a rollback's target hold is what such a row said in the fields that
are kept (`HonestInv`, `Said`); while changes of a rule do not overlap, the row is the newest version and
is still what its change has read (`SerialInv`), and the snapshot of what an update replaces is in the
history (`KeptInv`, which needs that only other changes of the same rule push snapshots); an answer for
the cache carries the number of its query, and the answer of the newest query is the live rules unless a
write came after it (`FreshInv`). `AdministrationImplementsVersioned` is the refinement of `VersionedRules`:
while the changes of a rule do not overlap, a write counts on from the version the rule has, which is
what `SerialInv` is for (`ChangesChange`); the find that begins an overlap is the abstract `Tear`
(`FindTears`), creations and a restart that creates default rules are `Enlist` (`BirthEnlists`); reads,
snapshots, reloads and failures stutter.

**AlertEscalationProofs**: type correctness, `TimelineIsAStory`, `CycleIsThorough`, `PromotesOnlyOverdue`. The
invariant: where a cycle is and what it holds (`PlaceInv`); a listed alert was open and is as old as
listed (`ListInv`); alerts that were not raised are in nobody's hands (`UnraisedInv`); what a cycle has passed
over is CRITICAL, touched or gone (`ThoroughInv`); an untangled alert has at most one change of its
severity under way (`AloneInv`), and its timeline ends with its severity or with what that change has
read (`StoryInv`).

**AgentCredentialsProofs**: type correctness, `NoLostWakeup`, `NewTokenIsFound`. The invariant: the loop has a
token in its hands while it writes or adopts (`HandInv`); `NoLostWakeup` extended to the steps between
publishing and waiting, where the request may come (`WakeInv`); and what a registration without
failures has written so far, place by place, none of which a clearing takes back (`WrittenInv`). The lemmas
`JsonFirst` and `CleanIsFound` say why the place written last but found first decides.

Each proof has the same layout: the invariant in named parts, a lemma per action or group of
actions, a step theorem that combines them, and one theorem per property.

---------------------------------------------------------------------------------------------------

## 6. What the code does that its documentation denies

Two runs end in a violation of what a comment or document says; `PROJECT.json` quotes the lines.

- A console may show a device as offline although it is back: "offline" is announced from the row
  and "online" from the presence map (`presence_badge`).
- The dispatcher clears a rejected token (`OutboxDispatcherService.cs:183`), but the configuration and
  `device.json` keep it and are looked into first: the loop adopts it again (`credentials_stuck`).

Others were met and have no run of their own, because a passing property names them as its exception
or because they are one step long.

Agent:
- An outage of the backend of ten failed POSTs dead-letters a message, and nothing reads the dead
  letters (`OutboxQueueService.cs:107`; `docs/notes/full_prompt.txt:3` promises no loss).
- A `--register` after a self-registration leaves the old token in the base `appsettings.json`, where
  it precedes the new one; the wizard registers the same hardware, so its token replaces that of the
  service. A crash between the answer to a registration and its writes may have the agent adopt a
  dead token first.

Devices and telemetry:
- The clean-up after a refused charge deletes a row that another request has meanwhile renewed
  (`AnsweredHasRow` names the exception).
- A heartbeat ends maintenance mode after at most 30 s (`WriteRow` writes ONLINE over any status).
- A snapshot stored after the fetch of a run and stamped before it is in no aggregate, ever
  (`telemetry-aggregation.service.ts:66`; `NothingSkipped` speaks of those that come in time). Agents
  post every 30 s and after outages, so this concerns ordinary snapshots.
- A rollup's lock survives the death of its holder (`telemetry-cron.service.ts:192`, against the comment
  at :18; `TimelyIsRolledUp` excuses it).

Alerts and rules:
- Overlapping evaluations create two alerts for one breach (`alert-rule-engine.service.ts:151`, against the
  comment above it; `DuplicatesOverlap`), and an exception in one of them drops its other rules (:220).
- A resolution between an evaluation's duplicate check and its alert leaves the alert without a
  breach row (`SerialAlertsResolve` is limited to evaluations that do not overlap).
- A rollback says "Rolled back from v... to v..." (`rule-engine.service.ts:806`), but it writes back the
  fields of the snapshot only (:790-799, :1062-1077) and leaves cron expression, tags, category,
  dependencies and template as they are by then: a state the rule never had (`RollbackRestores` says
  what is written and what is left). A rule may so get the schedule mode CRON back beside the cron
  expression of another version, or beside none, and without an expression it is always active (:334-338).
- An update of the cron expression, the tags, the category or the dependencies is kept in no snapshot and
  cannot be undone (`SettingsAreUndoable` speaks of what snapshots keep).
- An update's body may set or clear `ruleStatus`, and so archive a rule, bring it back, or undo an
  archive that was committed between its read and its write (`VersionedRules` lets a change do this).
- An update that gives a `reason` (`alerts.controller.ts:617-635`) passes it on to the database, whose rules
  have no such column: it fails, after its snapshot was pushed.
- A rollback takes no snapshot of what it replaces; rolled back or enabled, an archived rule is
  evaluated by the live engine (which asks for `enabled` only, :65) while the lists hide it. The audit
  entry of a deletion is deleted with the rule. The only consumer of the compiled cache has no caller.
- The worker assigns alerts to "operator-pool" and "admin-pool" (`escalation.worker.ts:42-45`), which are
  no users (`schema.prisma:537-538`): the update throws, and a cycle that meets an unassigned alert of 10 to
  20 minutes, or any of 20 to 40 without a person, is over there. `OverdueGetsCritical` holds because those
  alerts grow older: it needs that new ones do not keep coming.
- `snoozedUntil` is written and never read, so a snooze never ends; a snoozed alert does not count as
  active when a new one is raised.

Consoles:
- A socket that goes down while its user is being looked up is registered afterwards and stays
  (`GhostsCameTooLate`, against "Memory Leak Prevention", `connection-registry.service.ts:55`); its user is
  shown online for good.
- A room asked for while the user is being looked up is refused ("Socket unauthenticated.") and not asked
  for again; the device's room is not asked for again after a reconnection, whose socket object is
  the same; a leave that overtakes a pending join leaves the socket in the room of a closed page
  (`PageIsFed` names the first two, `RoomsAgree` allows the third).
- `connectedClients` is decremented for sockets that were never counted (`ClientsAreSessions` bounds the
  drift). One failed look-up during the handshake ends the connection for good: after "io server
  disconnect" socket.io does not reconnect.

---------------------------------------------------------------------------------------------------

## 7. What is only model-checked, and what is not modelled

Only model-checked: the liveness properties (`EverySettles`, `TalkingComesBack`, `SilentGoesDark`,
`TimelyIsRolledUp`, `OverdueGetsCritical`, `TokenComesBack`), for which the proof system has no support under
fairness. Every other property that a run checks is a theorem as well.

Left out of the modelled components:

- Agent: what the collectors measure; the files beside the executable that nothing creates; the
  installer, which writes its configuration under another key.
- Registration, rules, alerts: key generation and edits; which metric and operator a rule uses; names and
  descriptions of rules; timeline entries but those on severity; the deletion of users.
- Rollup: averages inside a bucket; the daily purge, which deletes snapshots after seven days whether
  they were aggregated or not.
- Consoles: the membership query for a requested organisation (no client of the repository asks for
  one, so nothing is awaited after the registration); the registry's two maps that are never read;
  the dashboard's room, which goes like that of the organisation; the ping; the
  counting behind the rate limits.

SQLite is taken to survive a crash of the process; with `synchronous=NORMAL` a power loss may undo the
last commits, which would be a re-sent message. PostgreSQL statements are atomic, and a transaction
of the rule engine is serialised by its row lock. There is one control-plane process, as the
deployment files have it.

Not modelled, with reasons, are the components so marked in section 1 and in `PROJECT.json`: the ones
without interleaved steps, authentication, and the ones of the plan below. Most of the code by size
is of this kind: pages of the console, type declarations, query builders and seeds.

`PROJECT.json` lists the hazards that weigh most. Met as well, and left to the modules of the plan:

- a re-enrolment during a deletion lifts the decommission entry, and its row is deleted after it
  (`devices.controller.ts:538`);
- a bucket whose snapshots are split between two runs gets two rows, which the readers list and do not add
  up (`telemetry-aggregation.service.ts:183`);
- a message sent again after a lost answer is stored as a second snapshot (`telemetry.service.ts:119`);
- paused devices are kept in memory only and are ingested again after a restart (`telemetry.service.ts:60`);
- `acceptInvitation` writes ACCEPTED unconditionally, also over a revocation
  (`organization-invitation.service.ts:164`), and the user quota is counted, compared and consumed in
  separate statements (`quota-engine.service.ts:97`);
- a transfer can be resolved twice, and owner and organisation are written in two statements
  (`prisma-device-governance.repository.ts:48`, `:185`);
- equal realtime events within 1.5 s are merged although another came in between
  (`socket-publisher.service.ts:244`);
- the audit entry of a bulk operation is written outside its transaction
  (`bulk-operations.service.ts:112`);
- the pressure monitor prunes only rows of a priority that no producer uses (`OutboxPressureMonitor.cs:110`);
- an alert under maintenance is suppressed anew for every snapshot.

---------------------------------------------------------------------------------------------------

## 8. Plan

The core, the alerts' administration and escalation, the agent's credentials and the consoles'
sockets are in place, and every safety property that is checked is proved. What is left, in this order:

1. `DeviceRemoval`: composes registration, the decommission store and the agent's shutdown; shows
   whether a re-enrolment that runs during a deletion leaves the device unblocked.
2. `TenantMembership`: invitations and members against the user quota, as `UsageLedger` with a check
   that is not atomic; and `DeviceTransfer`: ownership, organisation and request state.
3. The publisher's merging of events, between `DevicePresence` and `ConsoleFeed`.
4. `TelemetryLifecycle`: pausing, retention and rollup over the same snapshots: nothing is purged that
   a tier has still to aggregate.
5. The agent's throttle and pressure flags, beside `AgentCredentials`.

New modules share runs where they can: several small instances of one question are one run, and a
violation that a passing property already delimits gets none of its own.
