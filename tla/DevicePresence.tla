--------------------------- MODULE DevicePresence ---------------------------
(***************************************************************************)
(* Who is online.  The control plane keeps the answer in three places that *)
(* are written by different code:                                          *)
(*                                                                         *)
(*   - the device row (status, lastSeen): written by heartbeats,           *)
(*     registrations and operators, and set OFFLINE by whoever reads the   *)
(*     roster and finds the row stale (modules/device/device.service.ts);  *)
(*   - the presence maps of the process (lastHeartbeatTimes, onlineDevices *)
(*     of modules/realtime/services), filled by heartbeats and emptied by  *)
(*     a sweep on a timer;                                                 *)
(*   - the badge of an open console, which follows the device.online and   *)
(*     device.offline events alone.                                        *)
(*                                                                         *)
(* A step is what runs between two awaits.  Time is counted in ticks; an   *)
(* age stops growing once it is past every threshold it is compared with.  *)
(***************************************************************************)
EXTENDS Naturals

CONSTANTS
  Devices,         \* registered devices
  Views,           \* roster requests that may be in progress at once
  Threshold,       \* STALE_HEARTBEAT_THRESHOLD_MS and STALE_THRESHOLD_MS
  SweepPeriod,     \* period of the sweep timer
  BeatPeriod,      \* HeartbeatIntervalSeconds of the agent
  Latency,         \* longest time one device query takes in the database
  MaxDisturbances  \* bound: silences, operator actions, failures, restarts

ASSUME TimingAssumption ==
  /\ Threshold \in Nat
  /\ SweepPeriod \in Nat \ {0}
  /\ BeatPeriod \in Nat \ {0}
  /\ Latency \in Nat
  /\ MaxDisturbances \in Nat

VARIABLES
  status,             \* the row: DeviceStatus
  lastSeen,           \* the row: age of lastSeen
  onlineDevices,      \* the process: devices with a presence record
  lastHeartbeatTimes, \* the process: age of their last heartbeat
  sinceSweep,         \* age of the last sweep
  request,            \* the request of each agent that is being handled
  view,               \* the roster requests
  retiring,           \* devices retired in the row, not yet announced
  badge,              \* what an open console shows for each device
  talking,            \* devices whose agent sends its heartbeats
  sinceBeat,          \* age of the last heartbeat an agent sent
  steady,             \* history: devices nothing has disturbed yet
  disturbances        \* number of disturbances so far

row      == <<status, lastSeen>>
presence == <<onlineDevices, lastHeartbeatTimes>>
agents   == <<talking, sinceBeat>>
vars     == <<row, presence, sinceSweep, request, view, retiring, badge,
              agents, steady, disturbances>>

Statuses == {"ONLINE", "OFFLINE", "DEGRADED", "CRITICAL", "MAINTENANCE"}

\* Ages of a row and of a presence record that the code can tell apart.
RowAges  == 0 .. Threshold + 1
BeatAges == 0 .. Threshold + SweepPeriod + 1

Older(age, oldest) == IF age < oldest THEN age + 1 ELSE oldest
AsRowAge(age) == IF age <= Threshold THEN age ELSE Threshold + 1

NoRequest == [kind |-> "heartbeat", pc |-> "idle", waited |-> 0]

NoView == [pc |-> "idle", waited |-> 0, online |-> {},
           seen |-> [d \in Devices |-> 0], stale |-> {}]

Handlings == [kind   : {"heartbeat", "register"},
              pc     : {"idle", "stamped", "written"},
              waited : 0 .. Latency]

Rosters == [pc     : {"idle", "listed", "judged", "flushing"},
            waited : 0 .. Latency,
            online : SUBSET Devices,
            seen   : [Devices -> RowAges],
            stale  : SUBSET Devices]

TypeOK ==
  /\ status \in [Devices -> Statuses]
  /\ lastSeen \in [Devices -> RowAges]
  /\ onlineDevices \subseteq Devices
  /\ lastHeartbeatTimes \in [Devices -> BeatAges]
  /\ sinceSweep \in 0 .. SweepPeriod
  /\ request \in [Devices -> Handlings]
  /\ view \in [Views -> Rosters]
  /\ retiring \subseteq Devices
  /\ badge \in [Devices -> {"ONLINE", "OFFLINE"}]
  /\ talking \subseteq Devices
  /\ sinceBeat \in [Devices -> 0 .. BeatPeriod]
  /\ steady \subseteq Devices
  /\ disturbances \in 0 .. MaxDisturbances

\* The process has just started; every device has just registered.
Init ==
  /\ status = [d \in Devices |-> "ONLINE"]
  /\ lastSeen = [d \in Devices |-> 0]
  /\ onlineDevices = {}
  /\ lastHeartbeatTimes = [d \in Devices |-> 0]
  /\ sinceSweep = 0
  /\ request = [d \in Devices |-> NoRequest]
  /\ view = [v \in Views |-> NoView]
  /\ retiring = {}
  /\ badge = [d \in Devices |-> "ONLINE"]
  /\ talking = Devices
  /\ sinceBeat = [d \in Devices |-> 0]
  /\ steady = Devices
  /\ disturbances = 0

Disturb(D) ==
  /\ disturbances < MaxDisturbances
  /\ disturbances' = disturbances + 1
  /\ steady' = steady \ D

Undisturbed == UNCHANGED <<steady, disturbances>>

-----------------------------------------------------------------------------
(* Heartbeats and registrations.                                           *)

\* The agent sends a heartbeat: its requests follow one another, and the
\* handler takes new Date() for lastSeen before its update is sent.
Beat(d) ==
  /\ request[d].pc = "idle"
  /\ request' = [request EXCEPT ![d] =
                   [kind |-> "heartbeat", pc |-> "stamped", waited |-> 0]]
  /\ talking' = talking \cup {d}
  /\ sinceBeat' = [sinceBeat EXCEPT ![d] = 0]
  /\ UNCHANGED <<row, presence, sinceSweep, view, retiring, badge>>
  /\ Undisturbed

\* A known device registers anew.
Register(d) ==
  /\ request[d].pc = "idle"
  /\ request' = [request EXCEPT ![d] =
                   [kind |-> "register", pc |-> "stamped", waited |-> 0]]
  /\ Disturb({d})
  /\ UNCHANGED <<row, presence, sinceSweep, view, retiring, badge, agents>>

\* Mutant: the update is the same, but a status other than ONLINE is kept.
WriteLastSeen(d) ==
  /\ request[d].pc = "stamped"
  /\ lastSeen' = [lastSeen EXCEPT ![d] = AsRowAge(request[d].waited)]
  /\ request' = [request EXCEPT ![d] =
                   [kind |-> request[d].kind, pc |-> "written", waited |-> 0]]
  /\ UNCHANGED <<status, presence, sinceSweep, view, retiring, badge, agents>>
  /\ Undisturbed

\* The update commits: ONLINE whatever the row held.
WriteRow(d) ==
  /\ request[d].pc = "stamped"
  /\ status' = [status EXCEPT ![d] = "ONLINE"]
  /\ lastSeen' = [lastSeen EXCEPT ![d] = AsRowAge(request[d].waited)]
  /\ request' = [request EXCEPT ![d] =
                   [kind |-> request[d].kind, pc |-> "written", waited |-> 0]]
  /\ UNCHANGED <<presence, sinceSweep, view, retiring, badge, agents>>
  /\ Undisturbed

\* processHeartbeat announces a device that had no presence record.
Announced(d) == d \notin onlineDevices

\* The heartbeat row is created: processHeartbeat runs, and the answer leaves.
ProcessHeartbeat(d) ==
  /\ request[d].pc = "written" /\ request[d].kind = "heartbeat"
  /\ onlineDevices' = onlineDevices \cup {d}
  /\ lastHeartbeatTimes' = [lastHeartbeatTimes EXCEPT ![d] = 0]
  /\ badge' = IF Announced(d) THEN [badge EXCEPT ![d] = "ONLINE"] ELSE badge
  /\ request' = [request EXCEPT ![d] = NoRequest]
  /\ UNCHANGED <<row, sinceSweep, view, retiring, agents>>
  /\ Undisturbed

\* device.reconnected reaches the realtime handler, which emits device.online.
AnnounceReconnected(d) ==
  /\ request[d].pc = "written" /\ request[d].kind = "register"
  /\ badge' = [badge EXCEPT ![d] = "ONLINE"]
  /\ request' = [request EXCEPT ![d] = NoRequest]
  /\ UNCHANGED <<row, presence, sinceSweep, view, retiring, agents>>
  /\ Undisturbed

\* A query of the handler fails; what it wrote before stays.
RequestFails(d) ==
  /\ request[d].pc # "idle"
  /\ request' = [request EXCEPT ![d] = NoRequest]
  /\ Disturb({d})
  /\ UNCHANGED <<row, presence, sinceSweep, view, retiring, badge, agents>>

\* The machine sleeps, loses its network, or its agent stops or throttles.
FallSilent(d) ==
  /\ d \in talking
  /\ talking' = talking \ {d}
  /\ sinceBeat' = [sinceBeat EXCEPT ![d] = 0]
  /\ Disturb({d})
  /\ UNCHANGED <<row, presence, sinceSweep, request, view, retiring, badge>>

-----------------------------------------------------------------------------
(* The sweep.  The local event bus answers at once, so that no request is  *)
(* handled between two entries of the map.                                 *)

\* Mutant: the sweep allows for its own period on top of the threshold.
MissedThresholdLate(d) == lastHeartbeatTimes[d] > Threshold + SweepPeriod
MissedThreshold(d) == lastHeartbeatTimes[d] > Threshold

SweepOfflineDevices ==
  /\ sinceSweep = SweepPeriod
  /\ sinceSweep' = 0
  /\ LET missed == {d \in onlineDevices : MissedThreshold(d)}
     IN  /\ onlineDevices' = onlineDevices \ missed
         /\ lastHeartbeatTimes' = [d \in Devices |->
              IF d \in missed THEN 0 ELSE lastHeartbeatTimes[d]]
         /\ badge' = [d \in Devices |->
              IF d \in missed THEN "OFFLINE" ELSE badge[d]]
  /\ UNCHANGED <<row, request, view, retiring, agents>>
  /\ Undisturbed

-----------------------------------------------------------------------------
(* The roster.                                                             *)

\* findAll reads the rows.
ListDevices(v) ==
  /\ view[v].pc = "idle"
  /\ view' = [view EXCEPT ![v] =
                [pc |-> "listed", waited |-> 0,
                 online |-> {d \in Devices : status[d] = "ONLINE"},
                 seen |-> lastSeen, stale |-> {}]]
  /\ UNCHANGED <<row, presence, sinceSweep, request, retiring, badge, agents>>
  /\ Undisturbed

\* Mutant: stale at the threshold already.
IsStaleAtThreshold(v, d) ==
  /\ d \in view[v].online
  /\ view[v].seen[d] + view[v].waited >= Threshold

\* The rows a roster finds stale: those it read, at the time it has now.
IsStale(v, d) ==
  /\ d \in view[v].online
  /\ view[v].seen[d] + view[v].waited > Threshold

\* The rows arrive: now is taken, and the latest heartbeats are asked for.
TakeNow(v) ==
  /\ view[v].pc = "listed"
  /\ view' = [view EXCEPT ![v] =
                [pc |-> "judged", waited |-> 0, online |-> {},
                 seen |-> [d \in Devices |-> 0],
                 stale |-> {d \in Devices : IsStale(v, d)}]]
  /\ UNCHANGED <<row, presence, sinceSweep, request, retiring, badge, agents>>
  /\ Undisturbed

\* The heartbeats arrive: device.offline is emitted for each stale device,
\* the updates are sent and not awaited, and the answer leaves.
AnswerRoster(v) ==
  /\ view[v].pc = "judged"
  /\ badge' = [d \in Devices |->
                 IF d \in view[v].stale THEN "OFFLINE" ELSE badge[d]]
  /\ view' = [view EXCEPT ![v] =
                [@ EXCEPT !.pc = IF view[v].stale = {} THEN "idle" ELSE "flushing"]]
  /\ UNCHANGED <<row, presence, sinceSweep, request, retiring, agents>>
  /\ Undisturbed

Flushed(v, d) ==
  LET left == view[v].stale \ {d}
  IN  [view[v] EXCEPT !.stale = left,
                      !.pc = IF left = {} THEN "idle" ELSE "flushing"]

\* Mutant: the verdict is for the answer only.
PersistNothing(v, d) ==
  /\ view[v].pc = "flushing" /\ d \in view[v].stale
  /\ view' = [view EXCEPT ![v] = Flushed(v, d)]
  /\ UNCHANGED <<row, presence, sinceSweep, request, retiring, badge, agents>>
  /\ Undisturbed

\* One of those updates commits.
PersistOffline(v, d) ==
  /\ view[v].pc = "flushing" /\ d \in view[v].stale
  /\ status' = [status EXCEPT ![d] = "OFFLINE"]
  /\ view' = [view EXCEPT ![v] = Flushed(v, d)]
  /\ UNCHANGED <<lastSeen, presence, sinceSweep, request, retiring, badge, agents>>
  /\ Undisturbed

\* One of them fails, and the error is dropped.
PersistFails(v, d) ==
  /\ view[v].pc = "flushing" /\ d \in view[v].stale
  /\ view' = [view EXCEPT ![v] = Flushed(v, d)]
  /\ Disturb({d})
  /\ UNCHANGED <<row, presence, sinceSweep, request, retiring, badge, agents>>

-----------------------------------------------------------------------------
(* Operators and restarts.                                                 *)

\* setMaintenanceMode: the event it emits is neither online nor offline.
SetMaintenanceMode(d, enabled) ==
  /\ status' = [status EXCEPT ![d] = IF enabled THEN "MAINTENANCE" ELSE "ONLINE"]
  /\ Disturb({d})
  /\ UNCHANGED <<lastSeen, presence, sinceSweep, request, view, retiring, badge, agents>>

\* bulkUpdateStatus, for one of its devices.
BulkUpdateStatus(d, s) ==
  /\ status' = [status EXCEPT ![d] = s]
  /\ Disturb({d})
  /\ UNCHANGED <<lastSeen, presence, sinceSweep, request, view, retiring, badge, agents>>

\* retireDevice writes the row, then emits device.retired.
RetireDevice(d) ==
  /\ status' = [status EXCEPT ![d] = "OFFLINE"]
  /\ retiring' = retiring \cup {d}
  /\ Disturb({d})
  /\ UNCHANGED <<lastSeen, presence, sinceSweep, request, view, badge, agents>>

AnnounceRetired(d) ==
  /\ d \in retiring
  /\ retiring' = retiring \ {d}
  /\ badge' = [badge EXCEPT ![d] = "OFFLINE"]
  /\ UNCHANGED <<row, presence, sinceSweep, request, view, agents>>
  /\ Undisturbed

\* The backend restarts: its maps, requests and unsent updates are gone.
Restart ==
  /\ onlineDevices' = {}
  /\ lastHeartbeatTimes' = [d \in Devices |-> 0]
  /\ sinceSweep' = 0
  /\ request' = [d \in Devices |-> NoRequest]
  /\ view' = [v \in Views |-> NoView]
  /\ retiring' = {}
  /\ Disturb(Devices)
  /\ UNCHANGED <<row, badge, agents>>

-----------------------------------------------------------------------------
(* Time.  A tick waits for the sweep timer, for the heartbeats that are    *)
(* due, and for the queries that have taken their longest.                 *)

Tick ==
  /\ sinceSweep < SweepPeriod
  /\ \A d \in talking : sinceBeat[d] < BeatPeriod
  /\ \A d \in Devices : request[d].pc = "stamped" => request[d].waited < Latency
  /\ \A v \in Views : view[v].pc = "listed" => view[v].waited < Latency
  /\ lastSeen' = [d \in Devices |-> Older(lastSeen[d], Threshold + 1)]
  /\ lastHeartbeatTimes' = [d \in Devices |->
       IF d \in onlineDevices
       THEN Older(lastHeartbeatTimes[d], Threshold + SweepPeriod + 1)
       ELSE lastHeartbeatTimes[d]]
  /\ sinceSweep' = sinceSweep + 1
  /\ sinceBeat' = [d \in Devices |->
       IF d \in talking THEN sinceBeat[d] + 1 ELSE sinceBeat[d]]
  /\ request' = [d \in Devices |->
       IF request[d].pc = "stamped"
       THEN [request[d] EXCEPT !.waited = @ + 1] ELSE request[d]]
  /\ view' = [v \in Views |->
       IF view[v].pc = "listed"
       THEN [view[v] EXCEPT !.waited = @ + 1] ELSE view[v]]
  /\ UNCHANGED <<status, onlineDevices, retiring, badge, talking>>
  /\ Undisturbed

-----------------------------------------------------------------------------
Request(d) ==
  \/ Beat(d) \/ Register(d) \/ WriteRow(d) \/ ProcessHeartbeat(d)
  \/ AnnounceReconnected(d) \/ RequestFails(d) \/ FallSilent(d)

Operate(d) ==
  \/ \E enabled \in BOOLEAN : SetMaintenanceMode(d, enabled)
  \/ \E s \in Statuses : BulkUpdateStatus(d, s)
  \/ RetireDevice(d) \/ AnnounceRetired(d)

View(v) ==
  \/ ListDevices(v) \/ TakeNow(v) \/ AnswerRoster(v)
  \/ \E d \in Devices : PersistOffline(v, d) \/ PersistFails(v, d)

Next ==
  \/ \E d \in Devices : Request(d) \/ Operate(d)
  \/ \E v \in Views : View(v)
  \/ SweepOfflineDevices
  \/ Restart
  \/ Tick

Spec == Init /\ [][Next]_vars

\* Timers fire, queries are answered, talking agents send their heartbeats,
\* and an open dashboard asks for the roster again and again.
FairSpec ==
  /\ Spec
  /\ WF_vars(Tick)
  /\ WF_vars(SweepOfflineDevices)
  /\ \A d \in Devices :
       /\ WF_vars(d \in talking /\ Beat(d))
       /\ WF_vars(WriteRow(d))
       /\ WF_vars(ProcessHeartbeat(d))
       /\ WF_vars(AnnounceReconnected(d))
       /\ WF_vars(AnnounceRetired(d))
  /\ \A v \in Views :
       /\ WF_vars(ListDevices(v) \/ TakeNow(v) \/ AnswerRoster(v))
       /\ \A d \in Devices : WF_vars(PersistOffline(v, d))

-----------------------------------------------------------------------------
(* Properties.                                                             *)

\* Between two writes of its row, a device of the agent's period is never
\* older than the threshold, however slow its writes and the roster are.
BeatsInTime ==
  /\ BeatPeriod + 2 * Latency <= Threshold
  /\ 2 * BeatPeriod <= Threshold

\* A presence record outlives its last heartbeat by the threshold and one
\* period of the sweep, no more (HeartbeatPresenceService).
PresenceIsTimely ==
  \A d \in onlineDevices : lastHeartbeatTimes[d] <= Threshold + SweepPeriod

\* A device whose agent never missed a heartbeat, and which nothing else has
\* disturbed, is online in its row and on every console, and no roster holds
\* a verdict against it: the sweep, the roster and its late updates never
\* take the ninety seconds for missed when they were not.
SteadyStaysOnline ==
  BeatsInTime =>
    \A d \in steady :
      /\ status[d] = "ONLINE"
      /\ badge[d] = "ONLINE"
      /\ \A v \in Views : d \notin view[v].stale

\* A device that talks from some time on ends up online, in its row and in
\* the presence maps, whatever stale verdicts were still on their way.
TalkingComesBack ==
  BeatsInTime =>
    \A d \in Devices :
      <>[](d \in talking) => <>[](status[d] = "ONLINE" /\ d \in onlineDevices)

\* A device that is silent from some time on ends up without a presence
\* record, and no longer ONLINE in its row.
SilentGoesDark ==
  \A d \in Devices :
    <>[](d \notin talking) => <>[](status[d] # "ONLINE" /\ d \notin onlineDevices)

\* An open console shows a device that nobody retires, and that talks from
\* some time on, as online ("re-established heartbeat. Transitioning to
\* ONLINE.", heartbeat-presence.service.ts:65).
BadgeComesBack ==
  \A d \in Devices :
    [](d \notin retiring) /\ <>[](d \in talking) => <>[](badge[d] = "ONLINE")
=============================================================================
