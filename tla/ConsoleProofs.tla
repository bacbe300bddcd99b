---------------------------- MODULE ConsoleProofs ----------------------------
(***************************************************************************)
(* What a console may rely on, for any devices, consoles, users, periods,  *)
(* latencies and numbers of connections.                                   *)
(*                                                                         *)
(* DevicePresence: presence records are timely, and the three places that  *)
(* keep a device's status agree that it is online as long as its agent     *)
(* never misses a heartbeat and the periods leave room for the latency of  *)
(* the database.                                                           *)
(*                                                                         *)
(* ConsoleFeed: the registry, the presence of users, the counter of        *)
(* clients and the rooms of socket.io follow the sockets, and an open      *)
(* device page is in its device's room.                                    *)
(***************************************************************************)
EXTENDS DevicePresence, ConsoleFeed, FiniteSetTheorems, SequenceTheorems, TLAPS


\* PresenceIsTimely, between two sweeps.
TimelyInv ==
  \A d \in onlineDevices : lastHeartbeatTimes[d] <= Threshold + sinceSweep

\* The age of a row is that of the last heartbeat the agent sent, or, while
\* that one is being written, of the one before.
RowIsFresh(d) ==
  /\ request[d].pc = "stamped" =>
       /\ request[d].waited = sinceBeat[d]
       /\ lastSeen[d] <= BeatPeriod + sinceBeat[d]
  /\ request[d].pc # "stamped" => lastSeen[d] <= sinceBeat[d]

\* Likewise the age of a presence record.
RecordIsFresh(d) ==
  d \in onlineDevices =>
    /\ request[d].pc # "idle" => lastHeartbeatTimes[d] <= BeatPeriod + sinceBeat[d]
    /\ request[d].pc = "idle" => lastHeartbeatTimes[d] <= sinceBeat[d]

\* No roster has read a row that is about to be stale.
RostersAcquit(d) ==
  \A v \in Views :
    /\ d \notin view[v].stale
    /\ view[v].pc = "listed" => view[v].seen[d] <= BeatPeriod + Latency

\* Nothing is under way that tells a console or a row that d is not online.
IsOnline(d) ==
  /\ d \in talking
  /\ d \notin retiring
  /\ request[d].kind = "heartbeat"
  /\ status[d] = "ONLINE"
  /\ badge[d] = "ONLINE"

SteadyInv ==
  \A d \in steady : RowIsFresh(d) /\ RecordIsFresh(d) /\ RostersAcquit(d) /\ IsOnline(d)

USE TimingAssumption

-----------------------------------------------------------------------------
(* Types.                                                                  *)

LEMMA InitTyped == Init => TypeOK
  BY SMT DEF Init, TypeOK, NoRequest, NoView, Handlings, Rosters, Statuses, RowAges, BeatAges

LEMMA NextTyped == TypeOK /\ [Next]_vars => TypeOK'
<1> SUFFICES ASSUME TypeOK, [Next]_vars PROVE TypeOK'
  OBVIOUS
<1> USE DEF Disturb, Undisturbed, row, presence, agents
<1>0. NoRequest \in Handlings /\ NoView \in Rosters
  BY DEF NoRequest, NoView, Handlings, Rosters, RowAges
<1>1. CASE UNCHANGED vars
  BY <1>1 DEF TypeOK, vars
<1>2. ASSUME NEW d \in Devices, Request(d)
      PROVE  TypeOK'
  <2>1. CASE Beat(d)
    BY <2>1 DEF Beat, TypeOK, Handlings
  <2>2. CASE Register(d)
    BY <2>2 DEF Register, TypeOK, Handlings
  <2>3. CASE WriteRow(d)
    <3>1. AsRowAge(request[d].waited) \in RowAges
      BY DEF AsRowAge, RowAges, TypeOK, Handlings
    <3>2. [kind |-> request[d].kind, pc |-> "written", waited |-> 0] \in Handlings
      BY DEF TypeOK, Handlings
    <3>3. QED
      BY <2>3, <3>1, <3>2 DEF WriteRow, TypeOK, Statuses
  <2>4. CASE ProcessHeartbeat(d)
    BY <1>0, <2>4 DEF ProcessHeartbeat, TypeOK, BeatAges
  <2>5. CASE AnnounceReconnected(d)
    BY <1>0, <2>5 DEF AnnounceReconnected, TypeOK
  <2>6. CASE RequestFails(d)
    BY <1>0, <2>6 DEF RequestFails, TypeOK
  <2>7. CASE FallSilent(d)
    BY <2>7 DEF FallSilent, TypeOK
  <2>8. QED
    BY <1>2, <2>1, <2>2, <2>3, <2>4, <2>5, <2>6, <2>7 DEF Request
<1>3. ASSUME NEW d \in Devices, Operate(d)
      PROVE  TypeOK'
  <2>1. ASSUME NEW s \in Statuses, BulkUpdateStatus(d, s) PROVE TypeOK'
    BY <2>1 DEF BulkUpdateStatus, TypeOK
  <2>2. ASSUME NEW enabled \in BOOLEAN, SetMaintenanceMode(d, enabled) PROVE TypeOK'
    BY <2>2 DEF SetMaintenanceMode, TypeOK, Statuses
  <2>3. CASE RetireDevice(d)
    BY <2>3 DEF RetireDevice, TypeOK, Statuses
  <2>4. CASE AnnounceRetired(d)
    BY <2>4 DEF AnnounceRetired, TypeOK
  <2>5. QED
    BY <1>3, <2>1, <2>2, <2>3, <2>4 DEF Operate
<1>4. ASSUME NEW v \in Views, View(v)
      PROVE  TypeOK'
  <2>1. CASE ListDevices(v)
    <3>1. [pc |-> "listed", waited |-> 0,
           online |-> {d \in Devices : status[d] = "ONLINE"},
           seen |-> lastSeen, stale |-> {}] \in Rosters
      BY DEF TypeOK, Rosters
    <3>2. QED
      BY <2>1, <3>1 DEF ListDevices, TypeOK
  <2>2. CASE TakeNow(v)
    <3>1. [pc |-> "judged", waited |-> 0, online |-> {},
           seen |-> [d \in Devices |-> 0],
           stale |-> {d \in Devices : IsStale(v, d)}] \in Rosters
      BY DEF Rosters, RowAges
    <3>2. QED
      BY <2>2, <3>1 DEF TakeNow, TypeOK
  <2>3. CASE AnswerRoster(v)
    <3>1. [view[v] EXCEPT !.pc = IF view[v].stale = {} THEN "idle" ELSE "flushing"]
            \in Rosters
      BY DEF TypeOK, Rosters
    <3>2. QED
      BY <2>3, <3>1 DEF AnswerRoster, TypeOK
  <2>4. ASSUME NEW d \in Devices, PersistOffline(v, d) \/ PersistFails(v, d)
        PROVE  TypeOK'
    <3>1. Flushed(v, d) \in Rosters
      <4> DEFINE left == view[v].stale \ {d}
                 to   == IF left = {} THEN "idle" ELSE "flushing"
      <4>1. view[v] \in Rosters
        BY DEF TypeOK
      <4>2. left \in SUBSET Devices /\ to \in {"idle", "flushing"}
        BY <4>1 DEF Rosters
      <4> HIDE DEF left, to
      <4>3. [view[v] EXCEPT !.stale = left, !.pc = to] \in Rosters
        BY <4>1, <4>2 DEF Rosters
      <4>4. QED
        BY <4>3 DEF Flushed, left, to
    <3>2. QED
      BY <2>4, <3>1 DEF PersistOffline, PersistFails, TypeOK, Statuses
  <2>5. QED
    BY <1>4, <2>1, <2>2, <2>3, <2>4 DEF View
<1>5. CASE SweepOfflineDevices
  BY <1>5 DEF SweepOfflineDevices, TypeOK, BeatAges
<1>6. CASE Restart
  BY <1>0, <1>6 DEF Restart, TypeOK, BeatAges
<1>7. CASE Tick
  <2>1. \A d \in Devices : /\ Older(lastSeen[d], Threshold + 1) \in RowAges
                           /\ Older(lastHeartbeatTimes[d], Threshold + SweepPeriod + 1)
                                \in BeatAges
    <3>1. ASSUME NEW oldest \in Nat, NEW age \in 0 .. oldest
          PROVE  Older(age, oldest) \in 0 .. oldest
      BY DEF Older
    <3>2. \A d \in Devices : lastSeen[d] \in 0 .. Threshold + 1
                           /\ lastHeartbeatTimes[d] \in 0 .. Threshold + SweepPeriod + 1
      BY DEF TypeOK, RowAges, BeatAges
    <3>3. Threshold + 1 \in Nat /\ Threshold + SweepPeriod + 1 \in Nat
      BY TimingAssumption
    <3>4. QED
      BY <3>1, <3>2, <3>3 DEF RowAges, BeatAges
  <2>2. ASSUME NEW d \in Devices, request[d].pc = "stamped"
        PROVE  [request[d] EXCEPT !.waited = @ + 1] \in Handlings
    <3>1. request[d] \in Handlings /\ request[d].waited < Latency
      BY <1>7, <2>2 DEF Tick, TypeOK
    <3>2. request[d].waited + 1 \in 0 .. Latency
      BY <3>1 DEF Handlings
    <3>3. QED
      BY <3>1, <3>2, Zenon DEF Handlings
  <2>3. ASSUME NEW v \in Views, view[v].pc = "listed"
        PROVE  [view[v] EXCEPT !.waited = @ + 1] \in Rosters
    <3>1. view[v] \in Rosters /\ view[v].waited < Latency
      BY <1>7, <2>3 DEF Tick, TypeOK
    <3>2. view[v].waited + 1 \in 0 .. Latency
      BY <3>1 DEF Rosters
    <3>3. QED
      BY <3>1, <3>2, Zenon DEF Rosters
  <2>4. QED
    <3>1. request' \in [Devices -> Handlings]
      BY <1>7, <2>2 DEF Tick, TypeOK
    <3>2. view' \in [Views -> Rosters]
      BY <1>7, <2>3 DEF Tick, TypeOK
    <3>3. lastSeen' \in [Devices -> RowAges] /\ lastHeartbeatTimes' \in [Devices -> BeatAges]
      BY <1>7, <2>1 DEF Tick, TypeOK
    <3>4. sinceBeat' \in [Devices -> 0 .. BeatPeriod]
      BY <1>7 DEF Tick, TypeOK
    <3>5. QED
      BY <1>7, <3>1, <3>2, <3>3, <3>4 DEF Tick, TypeOK
<1>8. QED
  BY <1>1, <1>2, <1>3, <1>4, <1>5, <1>6, <1>7 DEF Next

\* Every reachable state is well typed.
THEOREM TypeCorrect == Spec => []TypeOK
  BY InitTyped, NextTyped, PTL DEF Spec

-----------------------------------------------------------------------------
(* Presence records.                                                       *)

LEMMA NextTimely == TypeOK /\ TimelyInv /\ [Next]_vars => TimelyInv'
<1> SUFFICES ASSUME TypeOK, TimelyInv, [Next]_vars PROVE TimelyInv'
  OBVIOUS
<1>1. CASE UNCHANGED <<onlineDevices, lastHeartbeatTimes, sinceSweep>>
  BY <1>1 DEF TimelyInv
<1>2. ASSUME NEW d \in Devices, ProcessHeartbeat(d)
      PROVE  TimelyInv'
  BY <1>2 DEF ProcessHeartbeat, TimelyInv, TypeOK, BeatAges
<1>3. CASE SweepOfflineDevices
  BY <1>3 DEF SweepOfflineDevices, MissedThreshold, TimelyInv, TypeOK, BeatAges
<1>4. CASE Restart
  BY <1>4 DEF Restart, TimelyInv
<1>5. CASE Tick
  BY <1>5 DEF Tick, TimelyInv, TypeOK, BeatAges, Older
<1>6. QED
  BY <1>1, <1>2, <1>3, <1>4, <1>5
     DEF Next, Request, Operate, View, Beat, Register, WriteRow, AnnounceReconnected,
         RequestFails, FallSilent, SetMaintenanceMode, BulkUpdateStatus, RetireDevice,
         AnnounceRetired, ListDevices, TakeNow, AnswerRoster, PersistOffline,
         PersistFails, vars, presence

\* A presence record never outlives its last heartbeat by more than the
\* threshold and one period of the sweep.
THEOREM PresenceTimely == Spec => []PresenceIsTimely
<1>1. Init => TimelyInv
  BY DEF Init, TimelyInv
<1>2. TypeOK /\ TimelyInv => PresenceIsTimely
  BY DEF TypeOK, TimelyInv, PresenceIsTimely, BeatAges
<1>3. QED
  BY <1>1, <1>2, NextTimely, TypeCorrect, PTL DEF Spec

-----------------------------------------------------------------------------
(* Steady devices.                                                         *)

\* The row and the presence record of a steady device are never stale.
LEMMA SteadyIsFresh ==
  ASSUME TypeOK, SteadyInv, BeatsInTime, NEW d \in steady
  PROVE  /\ lastSeen[d] <= BeatPeriod + Latency
         /\ d \in onlineDevices => ~MissedThreshold(d)
         /\ \A v \in Views : view[v].pc = "listed" => ~IsStale(v, d)
<1>1. /\ d \in Devices /\ lastSeen[d] \in Nat /\ lastHeartbeatTimes[d] \in Nat
      /\ sinceBeat[d] \in 0 .. BeatPeriod /\ request[d] \in Handlings
  BY DEF TypeOK, RowAges, BeatAges
<1>2. request[d].waited \in 0 .. Latency
  BY <1>1 DEF Handlings
<1>3. lastSeen[d] <= BeatPeriod + Latency
  BY <1>1, <1>2 DEF SteadyInv, RowIsFresh
<1>4. d \in onlineDevices => lastHeartbeatTimes[d] <= 2 * BeatPeriod
  BY <1>1 DEF SteadyInv, RecordIsFresh
<1>5. ASSUME NEW v \in Views, view[v].pc = "listed"
      PROVE  ~IsStale(v, d)
  <2>1. view[v] \in Rosters
    BY DEF TypeOK
  <2>2. view[v].waited \in 0 .. Latency /\ view[v].seen[d] \in RowAges
    BY <1>1, <2>1 DEF Rosters
  <2>3. view[v].seen[d] <= BeatPeriod + Latency
    BY <1>5 DEF SteadyInv, RostersAcquit
  <2>4. QED
    BY <2>2, <2>3 DEF IsStale, BeatsInTime, RowAges
<1>6. QED
  BY <1>1, <1>3, <1>4, <1>5 DEF MissedThreshold, BeatsInTime

\* Only what handles d, its request, the rosters, the sweep and time matter.
LEMMA NextSteady == TypeOK /\ SteadyInv /\ BeatsInTime /\ [Next]_vars => SteadyInv'
<1> SUFFICES ASSUME TypeOK, SteadyInv, BeatsInTime, [Next]_vars, NEW d \in steady'
             PROVE  (RowIsFresh(d) /\ RecordIsFresh(d) /\ RostersAcquit(d) /\ IsOnline(d))'
  BY DEF SteadyInv
<1> USE DEF Undisturbed, Disturb, row, presence, agents
<1>1. d \in steady /\ d \in Devices
  BY DEF Next, Request, Operate, View, Beat, Register, WriteRow, ProcessHeartbeat,
         AnnounceReconnected, RequestFails, FallSilent, SetMaintenanceMode,
         BulkUpdateStatus, RetireDevice, AnnounceRetired, ListDevices, TakeNow,
         AnswerRoster, PersistOffline, PersistFails, SweepOfflineDevices, Restart,
         Tick, vars, TypeOK
<1>2. RowIsFresh(d) /\ RecordIsFresh(d) /\ RostersAcquit(d) /\ IsOnline(d)
  BY <1>1 DEF SteadyInv
<1>3. /\ lastSeen[d] \in Nat /\ lastHeartbeatTimes[d] \in Nat
      /\ sinceBeat[d] \in 0 .. BeatPeriod /\ request[d] \in Handlings
  BY <1>1 DEF TypeOK, RowAges, BeatAges
<1>4. /\ lastSeen[d] <= BeatPeriod + Latency
      /\ d \in onlineDevices => ~MissedThreshold(d)
      /\ \A v \in Views : view[v].pc = "listed" => ~IsStale(v, d)
  BY <1>1, SteadyIsFresh
<1> USE DEF RowIsFresh, RecordIsFresh, RostersAcquit, IsOnline
<1>5. CASE UNCHANGED vars
  BY <1>2, <1>5 DEF vars
<1>6. ASSUME NEW e \in Devices, Request(e)
      PROVE  (RowIsFresh(d) /\ RecordIsFresh(d) /\ RostersAcquit(d) /\ IsOnline(d))'
  <2> USE DEF TypeOK
  <2>1. CASE Beat(e)
    BY <1>1, <1>2, <1>3, <2>1 DEF Beat
  <2>2. CASE Register(e)
    BY <1>1, <1>2, <2>2 DEF Register
  <2>3. CASE WriteRow(e)
    BY <1>1, <1>2, <1>3, <2>3 DEF WriteRow, AsRowAge, Handlings
  <2>4. CASE ProcessHeartbeat(e)
    BY <1>1, <1>2, <1>3, <2>4 DEF ProcessHeartbeat, NoRequest
  <2>5. CASE AnnounceReconnected(e)
    BY <1>1, <1>2, <2>5 DEF AnnounceReconnected
  <2>6. CASE RequestFails(e)
    BY <1>1, <1>2, <2>6 DEF RequestFails
  <2>7. CASE FallSilent(e)
    BY <1>1, <1>2, <2>7 DEF FallSilent
  <2>8. QED
    BY <1>6, <2>1, <2>2, <2>3, <2>4, <2>5, <2>6, <2>7 DEF Request
<1>7. ASSUME NEW e \in Devices, Operate(e)
      PROVE  (RowIsFresh(d) /\ RecordIsFresh(d) /\ RostersAcquit(d) /\ IsOnline(d))'
  BY <1>1, <1>2, <1>7 DEF Operate, SetMaintenanceMode, BulkUpdateStatus, RetireDevice,
                          AnnounceRetired, TypeOK
<1>8. ASSUME NEW v \in Views, View(v)
      PROVE  (RowIsFresh(d) /\ RecordIsFresh(d) /\ RostersAcquit(d) /\ IsOnline(d))'
  <2> USE DEF TypeOK
  <2>1. CASE ListDevices(v)
    BY <1>1, <1>2, <1>4, <2>1 DEF ListDevices
  <2>2. CASE TakeNow(v)
    BY <1>1, <1>2, <1>4, <2>2 DEF TakeNow
  <2>3. CASE AnswerRoster(v)
    BY <1>1, <1>2, <2>3 DEF AnswerRoster
  <2>4. ASSUME NEW e \in Devices, PersistOffline(v, e) \/ PersistFails(v, e)
        PROVE  (RowIsFresh(d) /\ RecordIsFresh(d) /\ RostersAcquit(d) /\ IsOnline(d))'
    <3>1. e \in view[v].stale /\ e # d /\ view' = [view EXCEPT ![v] = Flushed(v, e)]
      BY <1>2, <2>4 DEF PersistOffline, PersistFails
    <3>2. \A w \in Views : /\ view'[w].stale \subseteq view[w].stale
                           /\ view'[w].pc = "listed" => view[w].pc = "listed"
                           /\ view'[w].seen = view[w].seen
      BY <3>1 DEF Flushed, Rosters
    <3>3. RostersAcquit(d)'
      BY <1>2, <3>2
    <3>4. QED
      BY <1>1, <1>2, <2>4, <3>1, <3>3 DEF PersistOffline, PersistFails
  <2>5. QED
    BY <1>8, <2>1, <2>2, <2>3, <2>4 DEF View
<1>9. CASE SweepOfflineDevices
  BY <1>1, <1>2, <1>4, <1>9 DEF SweepOfflineDevices, TypeOK
<1>10. CASE Restart
  BY <1>1, <1>10 DEF Restart, TypeOK
<1>11. CASE Tick
  <2>1. /\ lastSeen'[d] <= lastSeen[d] + 1
        /\ d \in onlineDevices' => lastHeartbeatTimes'[d] <= lastHeartbeatTimes[d] + 1
        /\ sinceBeat'[d] = sinceBeat[d] + 1
    BY <1>1, <1>2, <1>3, <1>11 DEF Tick, Older
  <2>2. /\ request'[d].pc = request[d].pc /\ request'[d].kind = request[d].kind
        /\ request[d].pc = "stamped" => request'[d].waited = request[d].waited + 1
    BY <1>1, <1>3, <1>11 DEF Tick, Handlings
  <2>3. \A v \in Views : /\ view'[v].pc = view[v].pc
                         /\ view'[v].stale = view[v].stale
                         /\ view'[v].seen = view[v].seen
    BY <1>11 DEF Tick, TypeOK, Rosters
  <2>4. lastSeen'[d] \in Nat /\ lastHeartbeatTimes'[d] \in Nat
    BY <1>1, <1>3, <1>11 DEF Tick, Older
  <2>5. RowIsFresh(d)' /\ RecordIsFresh(d)'
    BY <1>2, <1>3, <1>11, <2>1, <2>2, <2>4 DEF Tick
  <2>6. RostersAcquit(d)' /\ IsOnline(d)'
    BY <1>2, <1>11, <2>2, <2>3 DEF Tick
  <2>7. QED
    BY <2>5, <2>6
<1>12. QED
  BY <1>5, <1>6, <1>7, <1>8, <1>9, <1>10, <1>11 DEF Next

\* As long as an agent never misses a heartbeat and nothing else disturbs its
\* device, row and consoles show it online and no roster holds it for stale.
THEOREM SteadyOnline == Spec => []SteadyStaysOnline
<1>1. Init => SteadyInv
  <2> SUFFICES ASSUME Init, NEW d \in Devices
               PROVE  RowIsFresh(d) /\ RecordIsFresh(d) /\ RostersAcquit(d) /\ IsOnline(d)
    BY DEF Init, SteadyInv
  <2>1. request[d] = NoRequest /\ \A v \in Views : view[v] = NoView
    BY DEF Init
  <2>2. QED
    BY <2>1 DEF Init, RowIsFresh, RecordIsFresh, RostersAcquit, IsOnline, NoRequest, NoView
<1>2. SteadyInv => SteadyStaysOnline
  BY DEF SteadyInv, SteadyStaysOnline, RostersAcquit, IsOnline
<1>3. CASE BeatsInTime
  <2>1. TypeOK /\ SteadyInv /\ [Next]_vars => SteadyInv'
    BY <1>3, NextSteady
  <2>2. QED
    BY <1>1, <1>2, <2>1, TypeCorrect, PTL DEF Spec
<1>4. CASE ~BeatsInTime
  <2>1. SteadyStaysOnline
    BY <1>4 DEF SteadyStaysOnline
  <2>2. QED
    BY <2>1, PTL
<1>5. QED
  BY <1>3, <1>4

-----------------------------------------------------------------------------
(* ConsoleFeed: the inductive invariant.                                   *)

\* Only a console that has opened a connection is opening one or connected.
ConnInv ==
  \A k \in Consoles : at[k] \in {"opening", "connected"} => conn[k] > 0

\* Which sockets there are, and what is known of one before its user is found.
LinkInv ==
  \A s \in Sockets :
    /\ s[2] <= conn[s[1]] <=> link[s] # "none"
    /\ link[s] = "none" <=> pc[s] = "none"
    /\ s \in known => pc[s] = "done"
    /\ s \notin known => member[s] = {} /\ joining[s] = [r \in Rooms |-> 0]
    /\ s \in known /\ link[s] = "up" => s \in sessions

Downs    == {s \in Sockets : link[s] = "down"}
CountInv == ClientsAreSessions /\ strays <= Cardinality(Downs)

\* q asks for the room of d, and does not leave it afterwards.
Asks(q, d) ==
  \E i \in 1..Len(q) : q[i] = Join(d) /\ \A j \in i + 1 .. Len(q) : q[j] # Leave(d)

\* q does not leave the room of d.
Keeps(q, d) == \A i \in 1..Len(q) : q[i] # Leave(d)

\* The request for the room of an open page is on its way, or has been heard and
\* nothing after it leaves the room.
FedInv ==
  \A k \in Consoles :
    LET s == Socket(k)
        d == page[k]
    IN asked[k] =>
       /\ d # None
       /\ \/ Asks(up[k], d)
          \/ /\ at[k] = "connected"
             /\ Keeps(up[k], d)
             /\ link[s] = "up" => d \in missed[s] \/ joining[s][d] > 0 \/ d \in member[s]

-----------------------------------------------------------------------------
(* Types and counts.                                                       *)

USE FeedAssumption

LEMMA SocketsFinite == IsFiniteSet(Sockets)
<1>1. IsFiniteSet(1..MaxConns)
  BY FS_Interval
<1>2. QED
  BY <1>1, FS_Product DEF Sockets

LEMMA SocketParts ==
  ASSUME NEW s \in Sockets
  PROVE  /\ s[1] \in Consoles /\ s[2] \in 1..MaxConns
         /\ s = <<s[1], s[2]>>
  BY DEF Sockets

\* The socket that the next connection of a console will have.
LEMMA NextSocket ==
  ASSUME FeedTypeOK, LinkInv, NEW k \in Consoles, conn[k] < MaxConns
  PROVE  LET s == <<k, conn[k] + 1>> IN
         /\ s \in Sockets
         /\ link[s] = "none" /\ pc[s] = "none" /\ s \notin known /\ s \notin sessions
<1> DEFINE s == <<k, conn[k] + 1>>
<1>1. s \in Sockets /\ s[1] = k /\ s[2] = conn[k] + 1 /\ conn[k] \in Nat
  BY DEF FeedTypeOK, Sockets
<1>2. ~(s[2] <= conn[s[1]])
  BY <1>1
<1>3. link[s] = "none"
  BY <1>1, <1>2 DEF LinkInv
<1>4. QED
  BY <1>1, <1>3 DEF LinkInv, FeedTypeOK

\* A console's connection has a socket.
LEMMA SocketExists ==
  ASSUME FeedTypeOK, NEW k \in Consoles, conn[k] > 0
  PROVE  Socket(k) \in Sockets
  BY DEF FeedTypeOK, Sockets, Socket

\* The end of a socket that was up: one session or one stray more.
LEMMA DisconnectCounts ==
  ASSUME FeedTypeOK, LinkInv, CountInv, NEW s \in Sockets,
         link[s] = "up", Down(s), HandleDisconnect(s)
  PROVE  CountInv' /\ clients' \in Nat /\ strays' \in Nat
<1>1. IsFiniteSet(sessions) /\ Cardinality(sessions) \in Nat
  BY SocketsFinite, FS_Subset, FS_CardinalityType DEF FeedTypeOK
<1>2. IsFiniteSet(Downs) /\ Cardinality(Downs) \in Nat
  BY SocketsFinite, FS_Subset, FS_CardinalityType DEF Downs
<1>3. Downs' = Downs \cup {s} /\ s \notin Downs
  BY DEF Downs, Down, FeedTypeOK
<1>4. Cardinality(Downs') = Cardinality(Downs) + 1
  BY <1>2, <1>3, FS_AddElement
<1>5. sessions' = sessions \ {s}
  BY DEF HandleDisconnect, Remaining
<1>6. Cardinality(sessions') = IF s \in sessions THEN Cardinality(sessions) - 1
                                                 ELSE Cardinality(sessions)
  BY <1>1, <1>5, FS_RemoveElement
<1>7. clients \in Nat /\ strays \in Nat
  BY SocketsFinite, FS_CardinalityType DEF FeedTypeOK
<1>8. s \in sessions => Cardinality(sessions) > 0
  BY <1>1, FS_EmptySet
<1>9. CASE s \in sessions
  BY <1>1, <1>2, <1>4, <1>6, <1>7, <1>8, <1>9
  DEF CountInv, ClientsAreSessions, HandleDisconnect, Fewer
<1>10. CASE s \notin sessions
  BY <1>1, <1>2, <1>4, <1>6, <1>7, <1>10
  DEF CountInv, ClientsAreSessions, HandleDisconnect, Fewer
<1>11. QED
  BY <1>9, <1>10

\* The counter of clients follows the sessions.
LEMMA CountStep ==
  ASSUME FeedTypeOK, LinkInv, CountInv, [FeedNext]_feedVars
  PROVE  CountInv' /\ clients' \in Nat /\ strays' \in Nat
<1>1. IsFiniteSet(sessions) /\ Cardinality(sessions) \in Nat
  BY SocketsFinite, FS_Subset, FS_CardinalityType DEF FeedTypeOK
<1>2. IsFiniteSet(Downs) /\ Cardinality(Downs) \in Nat
  BY SocketsFinite, FS_Subset, FS_CardinalityType DEF Downs
<1>3. clients \in Nat /\ strays \in Nat
  BY SocketsFinite, FS_CardinalityType DEF FeedTypeOK
<1>4. ASSUME UNCHANGED <<sessions, clients, strays>>, Downs' = Downs
      PROVE  CountInv' /\ clients' \in Nat /\ strays' \in Nat
  BY <1>3, <1>4 DEF CountInv, ClientsAreSessions
<1>5. ASSUME UNCHANGED <<link, sessions, clients, strays>>
      PROVE  CountInv' /\ clients' \in Nat /\ strays' \in Nat
  BY <1>4, <1>5 DEF Downs
<1>6. CASE UNCHANGED feedVars
  BY <1>5, <1>6 DEF feedVars, gateway, services
<1>7. ASSUME NEW k \in Consoles, Console(k)
      PROVE  CountInv' /\ clients' \in Nat /\ strays' \in Nat
  <2>1. CASE Open(k)
    <3>1. Downs' = Downs
      BY <2>1, NextSocket DEF Open, Downs, FeedTypeOK
    <3>2. QED
      BY <1>4, <2>1, <3>1 DEF Open, services
  <2>2. CASE TurnAway(k)
    <3> DEFINE s == <<k, conn[k] + 1>>
    <3>1. Downs' = Downs \cup {s} /\ s \notin Downs
      BY <2>2, NextSocket DEF TurnAway, Downs, FeedTypeOK
    <3>2. Cardinality(Downs') = Cardinality(Downs) + 1
      BY <1>2, <3>1, FS_AddElement
    <3>3. QED
      BY <1>1, <1>2, <1>3, <2>2, <3>2 DEF TurnAway, services, CountInv, ClientsAreSessions
  <2>3. CASE Connected(k) \/ Lost(k) \/ Dismissed(k) \/ NewSocket(k)
    BY <1>5, <2>3 DEF Connected, Lost, Dismissed, NewSocket, gateway, services
  <2>4. CASE \E d \in Pages \cup {None} : Show(k, d)
    BY <1>5, <2>4 DEF Show, gateway, services
  <2>5. CASE Receive(k)
    BY <1>5, <2>5 DEF Receive
  <2>6. QED
    BY <1>7, <2>1, <2>2, <2>3, <2>4, <2>5 DEF Console
<1>8. ASSUME NEW s \in Sockets, Gateway(s)
      PROVE  CountInv' /\ clients' \in Nat /\ strays' \in Nat
  <2>1. CASE Verify(s)
    BY <1>5, <2>1 DEF Verify, services
  <2>2. CASE RegisterSession(s)
    <3>1. s \notin sessions
      BY <2>2 DEF RegisterSession, LinkInv, FeedTypeOK
    <3>2. Cardinality(sessions') = Cardinality(sessions) + 1
      BY <1>1, <2>2, <3>1, FS_AddElement DEF RegisterSession, WithSession
    <3>3. Downs' = Downs
      BY <2>2 DEF RegisterSession, Downs
    <3>4. QED
      BY <1>1, <1>3, <2>2, <3>2, <3>3 DEF RegisterSession, CountInv, ClientsAreSessions
  <2>3. CASE Reject(s)
    <3>1. CASE link[s] = "up"
      BY <2>3, <3>1, DisconnectCounts DEF Reject, Disconnect
    <3>2. CASE link[s] # "up"
      BY <1>5, <2>3, <3>2 DEF Reject, Disconnect, services
    <3>3. QED
      BY <3>1, <3>2
  <2>4. CASE Vanish(s)
    BY <2>4, DisconnectCounts DEF Vanish
  <2>5. CASE \E r \in Rooms : Authorize(s, r) \/ Forbid(s, r)
    BY <1>5, <2>5 DEF Authorize, Forbid, services
  <2>6. QED
    BY <1>8, <2>1, <2>2, <2>3, <2>4, <2>5 DEF Gateway
<1>9. QED
  BY <1>6, <1>7, <1>8 DEF FeedNext

LEMMA RoomsNamed ==
  /\ Org \in Rooms /\ Home \in Rooms /\ Pages \subseteq Rooms
  /\ \A r \in Rooms : Join(r) \in Messages /\ Leave(r) \in Messages
  BY DEF Rooms, Messages, Join, Leave

LEMMA FeedInitTyped == FeedInit => FeedTypeOK
<1> SUFFICES ASSUME FeedInit PROVE FeedTypeOK
  OBVIOUS
<1>1. Cardinality(Sockets) \in Nat
  BY SocketsFinite, FS_CardinalityType
<1>2. <<>> \in Seq(Messages)
  BY EmptySeq
<1>3. QED
  BY <1>1, <1>2 DEF FeedInit, FeedTypeOK

\* What the page's effect and the greeting emit are messages.
LEMMA EmittedTyped ==
  ASSUME FeedTypeOK, NEW k \in Consoles
  PROVE  /\ Greeting(k) \in Seq(Messages)
         /\ \A d \in Pages : <<Join(d)>> \in Seq(Messages)
         /\ \A d \in Pages \cup {None} :
              up[k] \o (IF page[k] = None THEN <<>> ELSE <<Leave(page[k])>>)
                    \o (IF d = None THEN <<>> ELSE <<Join(d)>>) \in Seq(Messages)
<1>1. up[k] \in Seq(Messages) /\ page[k] \in Pages \cup {None}
  BY DEF FeedTypeOK
<1>2. <<>> \in Seq(Messages)
  BY EmptySeq
<1>3. \A d \in Pages : <<Join(d)>> \in Seq(Messages) /\ <<Leave(d)>> \in Seq(Messages)
  BY RoomsNamed
<1>4. Greeting(k) \in Seq(Messages)
  BY <1>1, RoomsNamed, AppendProperties DEF Greeting
<1>5. ASSUME NEW d \in Pages \cup {None}
      PROVE up[k] \o (IF page[k] = None THEN <<>> ELSE <<Leave(page[k])>>)
                  \o (IF d = None THEN <<>> ELSE <<Join(d)>>) \in Seq(Messages)
  <2> DEFINE a == IF page[k] = None THEN <<>> ELSE <<Leave(page[k])>>
             b == IF d = None THEN <<>> ELSE <<Join(d)>>
  <2>1. a \in Seq(Messages) /\ b \in Seq(Messages)
    BY <1>1, <1>2, <1>3, <1>5
  <2> HIDE DEF a, b
  <2>2. up[k] \o a \in Seq(Messages)
    BY <1>1, <2>1, ConcatProperties
  <2>3. (up[k] \o a) \o b \in Seq(Messages)
    BY <2>1, <2>2, ConcatProperties
  <2>4. QED
    BY <2>3 DEF a, b
<1>6. QED
  BY <1>3, <1>4, <1>5

\* Types, but for the counters.
LEMMA DisconnectTyped ==
  ASSUME FeedTypeOK, NEW s \in Sockets, Down(s), HandleDisconnect(s)
  PROVE  /\ link' \in [Sockets -> {"none", "up", "down"}]
         /\ member' \in [Sockets -> SUBSET Rooms]
         /\ sessions' \subseteq known
         /\ rooms' \in [Sockets -> SUBSET Rooms]
         /\ online' \subseteq Users
         /\ late' \subseteq Sockets
  BY DEF FeedTypeOK, Down, HandleDisconnect, Remaining

LEMMA MessageTyped ==
  ASSUME FeedTypeOK, NEW s \in Sockets, NEW r \in Rooms, JoinRoom(s, r) \/ LeaveRoom(s, r)
  PROVE  /\ joining' \in [Sockets -> [Rooms -> Nat]]
         /\ missed' \in [Sockets -> SUBSET Rooms]
         /\ member' \in [Sockets -> SUBSET Rooms]
         /\ rooms' \in [Sockets -> SUBSET Rooms]
<1>0. /\ joining \in [Sockets -> [Rooms -> Nat]]
      /\ missed \in [Sockets -> SUBSET Rooms]
      /\ member \in [Sockets -> SUBSET Rooms]
      /\ rooms \in [Sockets -> SUBSET Rooms]
  BY DEF FeedTypeOK
<1>1. CASE JoinRoom(s, r)
  <2>0. UNCHANGED <<member, rooms>>
    BY <1>1 DEF JoinRoom
  <2>1. CASE joining' = [joining EXCEPT ![s][r] = @ + 1] /\ UNCHANGED missed
    BY <1>0, <2>0, <2>1
  <2>2. CASE missed' = [missed EXCEPT ![s] = @ \cup {r}] /\ UNCHANGED joining
    BY <1>0, <2>0, <2>2
  <2>3. QED
    BY <1>1, <2>1, <2>2 DEF JoinRoom
<1>2. CASE LeaveRoom(s, r)
  <2>1. /\ member' = [member EXCEPT ![s] = member[s] \ {r}]
        /\ rooms' = [rooms EXCEPT ![s] = rooms[s] \ {r}]
        /\ UNCHANGED <<joining, missed>>
    BY <1>2 DEF LeaveRoom, LeftRooms
  <2>2. member[s] \ {r} \in SUBSET Rooms /\ rooms[s] \ {r} \in SUBSET Rooms
    BY <1>0
  <2>3. QED
    BY <1>0, <2>1, <2>2
<1>3. QED
  BY <1>1, <1>2

LEMMA CountsBounded ==
  ASSUME NEW S \in SUBSET Sockets, NEW c \in Nat, c <= Cardinality(S)
  PROVE  c \in 0..Cardinality(Sockets)
<1>1. Cardinality(S) <= Cardinality(Sockets) /\ Cardinality(S) \in Nat
  BY SocketsFinite, FS_Subset, FS_CardinalityType
<1>2. Cardinality(Sockets) \in Nat
  BY SocketsFinite, FS_CardinalityType
<1>3. QED
  BY <1>1, <1>2

LEMMA FeedNextTyped ==
  ASSUME FeedTypeOK, ConnInv, LinkInv, CountInv, [FeedNext]_feedVars
  PROVE  FeedTypeOK'
<1> DEFINE Typed ==
      /\ user \in [Consoles -> Users]
      /\ at \in [Consoles -> {"waiting", "opening", "connected", "disconnected"}]
      /\ conn \in [Consoles -> 0..MaxConns]
      /\ page \in [Consoles -> Pages \cup {None}]
      /\ up \in [Consoles -> Seq(Messages)]
      /\ link \in [Sockets -> {"none", "up", "down"}]
      /\ pc \in [Sockets -> {"none", "verify", "lookup", "done"}]
      /\ known \subseteq Sockets
      /\ member \in [Sockets -> SUBSET Rooms]
      /\ joining \in [Sockets -> [Rooms -> Nat]]
      /\ sessions \subseteq known
      /\ rooms \in [Sockets -> SUBSET Rooms]
      /\ online \subseteq Users
      /\ acts \in 0..MaxActs
      /\ late \subseteq Sockets
      /\ asked \in [Consoles -> BOOLEAN]
      /\ missed \in [Sockets -> SUBSET Rooms]
<1>1. Typed
  BY DEF FeedTypeOK
<1>2. ASSUME Act PROVE acts' \in 0..MaxActs
  BY <1>2 DEF Act, FeedTypeOK
<1>3. ASSUME Typed' PROVE FeedTypeOK'
  <2>1. CountInv' /\ clients' \in Nat /\ strays' \in Nat
    BY CountStep
  <2>2. sessions' \in SUBSET Sockets /\ Downs' \in SUBSET Sockets
    BY <1>3 DEF Downs
  <2>3. clients' <= Cardinality(sessions') /\ strays' <= Cardinality(Downs')
    BY <2>1 DEF CountInv, ClientsAreSessions
  <2> HIDE DEF Typed
  <2>4. clients' \in 0..Cardinality(Sockets) /\ strays' \in 0..Cardinality(Sockets)
    BY <2>1, <2>2, <2>3, CountsBounded
  <2>5. QED
    BY <1>3, <2>4 DEF FeedTypeOK, Typed
<1>4. ASSUME UNCHANGED feedVars PROVE Typed'
  <2>1. UNCHANGED <<user, at, conn, page, up, asked, link, pc, known, member, joining, missed,
                    sessions, rooms, online, late, acts>>
    BY <1>4 DEF feedVars, console, gateway, services
  <2>2. QED
    BY <1>1, <2>1
<1>5. ASSUME NEW k \in Consoles, Console(k) PROVE Typed'
  <2>1. CASE Open(k)
    BY <1>1, <2>1, NextSocket DEF Open, services
  <2>2. CASE TurnAway(k)
    BY <1>1, <1>2, <2>2, NextSocket DEF TurnAway, services
  <2>3. CASE Connected(k)
    BY <1>1, <2>3, EmittedTyped DEF Connected, gateway, services
  <2>4. CASE Lost(k)
    BY <1>1, <1>2, <2>4, EmptySeq DEF Lost, gateway, services
  <2>5. CASE Dismissed(k)
    BY <1>1, <2>5, EmptySeq DEF Dismissed, gateway, services
  <2>6. CASE NewSocket(k)
    BY <1>1, <1>2, <2>6, EmittedTyped, EmptySeq DEF NewSocket, gateway, services
  <2>7. ASSUME NEW d \in Pages \cup {None}, Show(k, d) PROVE Typed'
    BY <1>1, <1>2, <2>7, EmittedTyped DEF Show, gateway, services
  <2>8. CASE Receive(k)
    <3>1. Head(up[k]) \in Messages /\ Tail(up[k]) \in Seq(Messages)
      BY <1>1, <2>8, HeadTailProperties DEF Receive
    <3>2. Head(up[k]).room \in Rooms
      BY <3>1 DEF Messages
    <3>3. conn[k] > 0
      BY <2>8 DEF Receive, ConnInv
    <3>4. Socket(k) \in Sockets
      BY <3>3, SocketExists
    <3>5. JoinRoom(Socket(k), Head(up[k]).room) \/ LeaveRoom(Socket(k), Head(up[k]).room)
      BY <2>8 DEF Receive
    <3>6. /\ joining' \in [Sockets -> [Rooms -> Nat]]
          /\ missed' \in [Sockets -> SUBSET Rooms]
          /\ member' \in [Sockets -> SUBSET Rooms]
          /\ rooms' \in [Sockets -> SUBSET Rooms]
      BY <3>2, <3>4, <3>5, MessageTyped
    <3>7. up' \in [Consoles -> Seq(Messages)]
      BY <1>1, <2>8, <3>1 DEF Receive
    <3>8. QED
      BY <1>1, <2>8, <3>6, <3>7 DEF Receive
  <2>9. QED
    BY <1>5, <2>1, <2>2, <2>3, <2>4, <2>5, <2>6, <2>7, <2>8 DEF Console
<1>6. ASSUME NEW s \in Sockets, Gateway(s) PROVE Typed'
  <2>0. UserOf(s) \in Users
    BY <1>1, SocketParts DEF UserOf
  <2>1. CASE Verify(s)
    BY <1>1, <2>1 DEF Verify, console, services
  <2>2. CASE RegisterSession(s)
    BY <1>1, <2>0, <2>2, RoomsNamed
    DEF RegisterSession, WithSession, Active, console
  <2>3. CASE Reject(s)
    <3>1. CASE link[s] = "up"
      BY <1>1, <1>2, <2>3, <3>1, DisconnectTyped DEF Reject, Disconnect, console
    <3>2. CASE link[s] # "up"
      BY <1>1, <1>2, <2>3, <3>2 DEF Reject, Disconnect, console, services
    <3>3. QED
      BY <3>1, <3>2
  <2>4. CASE Vanish(s)
    BY <1>1, <1>2, <2>4, DisconnectTyped DEF Vanish, console
  <2>5. ASSUME NEW r \in Rooms, Authorize(s, r) PROVE Typed'
    <3>1. joining' \in [Sockets -> [Rooms -> Nat]]
      BY <1>1, <2>5 DEF Authorize
    <3>2. member[s] \cup {r} \in SUBSET Rooms /\ Entered(s, r) \in SUBSET Rooms
      BY <1>1, <2>5 DEF Entered
    <3>3. member' \in [Sockets -> SUBSET Rooms] /\ rooms' \in [Sockets -> SUBSET Rooms]
      BY <1>1, <2>5, <3>2 DEF Authorize
    <3>4. QED
      BY <1>1, <2>5, <3>1, <3>3 DEF Authorize, console
  <2>6. ASSUME NEW r \in Rooms, Forbid(s, r) PROVE Typed'
    <3>1. joining' \in [Sockets -> [Rooms -> Nat]]
      BY <1>1, <2>6 DEF Forbid
    <3>2. QED
      BY <1>1, <1>2, <2>6, <3>1 DEF Forbid, console, services
  <2>7. QED
    BY <1>6, <2>1, <2>2, <2>3, <2>4, <2>5, <2>6 DEF Gateway
<1>7. QED
  <2> HIDE DEF Typed
  <2>1. Typed'
    BY <1>4, <1>5, <1>6 DEF FeedNext
  <2>2. QED
    BY <1>3, <2>1

-----------------------------------------------------------------------------
(* Sockets, sessions and rooms.                                            *)

LEMMA ConnStep ==
  ASSUME FeedTypeOK, ConnInv, [FeedNext]_feedVars
  PROVE  ConnInv'
<1>1. CASE UNCHANGED feedVars
  BY <1>1 DEF ConnInv, feedVars, console
<1>2. ASSUME NEW k \in Consoles, Console(k) PROVE ConnInv'
  <2>1. CASE Open(k)
    BY <2>1 DEF Open, ConnInv, FeedTypeOK
  <2>2. CASE TurnAway(k)
    BY <2>2 DEF TurnAway, ConnInv, FeedTypeOK
  <2>3. CASE Connected(k) \/ Lost(k) \/ Dismissed(k) \/ NewSocket(k)
    BY <2>3 DEF Connected, Lost, Dismissed, NewSocket, ConnInv, FeedTypeOK
  <2>4. CASE (\E d \in Pages \cup {None} : Show(k, d)) \/ Receive(k)
    BY <2>4 DEF Show, Receive, ConnInv
  <2>5. QED
    BY <1>2, <2>1, <2>2, <2>3, <2>4 DEF Console
<1>3. ASSUME NEW s \in Sockets, Gateway(s) PROVE ConnInv'
  BY <1>3 DEF Gateway, Verify, RegisterSession, Reject, Vanish, Authorize, Forbid, console, ConnInv
<1>4. QED
  BY <1>1, <1>2, <1>3 DEF FeedNext

LEMMA LinkStep ==
  ASSUME FeedTypeOK, ConnInv, LinkInv, [FeedNext]_feedVars
  PROVE  LinkInv'
<1>1. ASSUME UNCHANGED <<conn, link, pc, known, member, joining, sessions>> PROVE LinkInv'
  BY <1>1 DEF LinkInv
<1>2. CASE UNCHANGED feedVars
  BY <1>1, <1>2 DEF feedVars, console, gateway, services
<1>3. ASSUME NEW k \in Consoles, Console(k) PROVE LinkInv'
  <2>1. ASSUME Open(k) \/ TurnAway(k) PROVE LinkInv'
    <3> DEFINE s == <<k, conn[k] + 1>>
    <3>1. s \in Sockets /\ s \notin known /\ s[1] = k /\ s[2] = conn[k] + 1
      BY <2>1, NextSocket DEF Open, TurnAway
    <3>2. /\ conn' = [conn EXCEPT ![k] = @ + 1]
          /\ UNCHANGED <<known, member, joining, sessions>>
          /\ \E l \in {"up", "down"}, p \in {"verify", "done"} :
               link' = [link EXCEPT ![s] = l] /\ pc' = [pc EXCEPT ![s] = p]
      BY <2>1 DEF Open, TurnAway, services
    <3>3. ASSUME NEW t \in Sockets
          PROVE  /\ t[2] <= conn'[t[1]] <=> t[2] <= conn[t[1]] \/ t = s
                 /\ t # s => link'[t] = link[t] /\ pc'[t] = pc[t]
                 /\ link'[s] \in {"up", "down"} /\ pc'[s] \in {"verify", "done"}
      <4> HIDE DEF s
      <4>1. t[1] \in Consoles /\ t[2] \in Nat /\ t = <<t[1], t[2]>> /\ s = <<s[1], s[2]>>
        BY <3>1, SocketParts, FeedAssumption
      <4>2. /\ conn \in [Consoles -> Nat] /\ conn'[k] = conn[k] + 1
            /\ t[1] # k => conn'[t[1]] = conn[t[1]]
        BY <3>2, <4>1 DEF FeedTypeOK
      <4>3. t[2] <= conn'[t[1]] <=> t[2] <= conn[t[1]] \/ t = s
        <5>1. CASE t[1] = k
          <6>1. conn[k] \in Nat
            BY <4>2
          <6>2. t[2] <= conn[k] + 1 <=> t[2] <= conn[k] \/ t[2] = conn[k] + 1
            BY <4>1, <6>1
          <6>3. t[2] = conn[k] + 1 <=> t = s
            BY <3>1, <4>1, <5>1
          <6>4. QED
            BY <4>2, <5>1, <6>2, <6>3
        <5>2. CASE t[1] # k
          BY <3>1, <4>2, <5>2
        <5>3. QED
          BY <5>1, <5>2
      <4>4. /\ t # s => link'[t] = link[t] /\ pc'[t] = pc[t]
            /\ link'[s] \in {"up", "down"} /\ pc'[s] \in {"verify", "done"}
        BY <3>1, <3>2 DEF FeedTypeOK
      <4>5. QED
        BY <4>3, <4>4
    <3>4. QED
      BY <3>1, <3>2, <3>3 DEF LinkInv
  <2>2. CASE Connected(k) \/ Lost(k) \/ Dismissed(k) \/ NewSocket(k)
    BY <1>1, <2>2 DEF Connected, Lost, Dismissed, NewSocket, gateway, services
  <2>3. CASE \E d \in Pages \cup {None} : Show(k, d)
    BY <1>1, <2>3 DEF Show, gateway, services
  <2>4. CASE Receive(k)
    <3> DEFINE s == Socket(k)
               r == Head(up[k]).room
    <3>1. s \in Sockets
      BY <2>4, SocketExists DEF Receive, ConnInv
    <3>2. /\ UNCHANGED <<conn, link, pc, known, sessions>>
          /\ \/ JoinRoom(s, r)
             \/ LeaveRoom(s, r)
      BY <2>4 DEF Receive
    <3>3. \A t \in Sockets \ known :
            member[t] = {} => member'[t] = {} /\ joining'[t] = joining[t]
      BY <3>1, <3>2 DEF JoinRoom, LeaveRoom, FeedTypeOK
    <3>4. QED
      BY <3>2, <3>3 DEF LinkInv
  <2>5. QED
    BY <1>3, <2>1, <2>2, <2>3, <2>4 DEF Console
<1>4. ASSUME NEW s \in Sockets, link[s] = "up", Down(s), HandleDisconnect(s),
             UNCHANGED <<conn, known, joining>>,
             pc' = pc \/ (pc[s] \in {"verify", "lookup"} /\ pc' = [pc EXCEPT ![s] = "done"])
      PROVE  LinkInv'
  BY <1>4 DEF Down, HandleDisconnect, Remaining, LinkInv, FeedTypeOK
<1>5. ASSUME NEW s \in Sockets, Gateway(s) PROVE LinkInv'
  <2>1. CASE Verify(s)
    BY <2>1 DEF Verify, console, services, LinkInv, FeedTypeOK
  <2>2. CASE RegisterSession(s)
    BY <2>2 DEF RegisterSession, WithSession, console, LinkInv, FeedTypeOK
  <2>3. CASE Reject(s)
    <3>1. CASE link[s] = "up"
      BY <1>4, <2>3, <3>1 DEF Reject, Disconnect, console
    <3>2. CASE link[s] # "up"
      BY <2>3, <3>2 DEF Reject, Disconnect, console, services, LinkInv, FeedTypeOK
    <3>3. QED
      BY <3>1, <3>2
  <2>4. CASE Vanish(s)
    BY <1>4, <2>4 DEF Vanish, console
  <2>5. ASSUME NEW r \in Rooms, Authorize(s, r) \/ Forbid(s, r) PROVE LinkInv'
    <3>1. s \in known
      BY <2>5 DEF Authorize, Forbid, LinkInv
    <3>2. /\ UNCHANGED <<conn, link, pc, known, sessions>>
          /\ joining' = [joining EXCEPT ![s][r] = @ - 1]
          /\ member' = member \/ member' = [member EXCEPT ![s] = @ \cup {r}]
      BY <2>5 DEF Authorize, Forbid, console, services
    <3>3. \A t \in Sockets : t # s => member'[t] = member[t] /\ joining'[t] = joining[t]
      BY <3>2 DEF FeedTypeOK
    <3>4. QED
      BY <3>1, <3>2, <3>3 DEF LinkInv
  <2>6. QED
    BY <1>5, <2>1, <2>2, <2>3, <2>4, <2>5 DEF Gateway
<1>6. QED
  BY <1>2, <1>3, <1>5 DEF FeedNext

\* The three statements about sessions are untouched where none of this changes.
Registry == <<user, link, member, sessions, rooms, online, late>>
RegistryInv == OnlineMatchesSessions /\ GhostsCameTooLate /\ RoomsAgree

LEMMA RegistryKept ==
  ASSUME RegistryInv, UNCHANGED Registry
  PROVE  RegistryInv'
  BY DEF RegistryInv, Registry, OnlineMatchesSessions, GhostsCameTooLate, RoomsAgree, UserOf

LEMMA RegistryDisconnect ==
  ASSUME FeedTypeOK, RegistryInv, NEW s \in Sockets, UNCHANGED user, Down(s), HandleDisconnect(s)
  PROVE  RegistryInv'
<1> USE DEF RegistryInv
<1>1. sessions' = sessions \ {s}
  BY DEF HandleDisconnect, Remaining
<1>2. OnlineMatchesSessions'
  BY <1>1 DEF HandleDisconnect, Others, OnlineMatchesSessions, UserOf
<1>3. GhostsCameTooLate'
  BY <1>1 DEF Down, HandleDisconnect, GhostsCameTooLate, FeedTypeOK
<1>4. RoomsAgree'
  BY <1>1 DEF Down, HandleDisconnect, RoomsAgree, FeedTypeOK
<1>5. QED
  BY <1>2, <1>3, <1>4

LEMMA RegistryStep ==
  ASSUME FeedTypeOK, ConnInv, LinkInv, RegistryInv, [FeedNext]_feedVars
  PROVE  RegistryInv'
<1>1. CASE UNCHANGED feedVars
  BY <1>1, RegistryKept DEF feedVars, console, gateway, services, Registry
<1>2. ASSUME NEW k \in Consoles, Console(k) PROVE RegistryInv'
  <2>1. ASSUME Open(k) \/ TurnAway(k) PROVE RegistryInv'
    <3> DEFINE s == <<k, conn[k] + 1>>
    <3>1. s \in Sockets /\ s \notin sessions /\ link[s] = "none"
      BY <2>1, NextSocket DEF Open, TurnAway
    <3>2. /\ UNCHANGED <<user, member, sessions, rooms, online, late>>
          /\ \E l \in {"up", "down"} : link' = [link EXCEPT ![s] = l]
      BY <2>1 DEF Open, TurnAway, services
    <3>3. \A t \in Sockets : t # s => link'[t] = link[t]
      BY <3>2 DEF FeedTypeOK
    <3>4. link'[s] \in {"up", "down"}
      BY <3>1, <3>2 DEF FeedTypeOK
    <3>5. OnlineMatchesSessions'
      BY <3>2 DEF RegistryInv, OnlineMatchesSessions, UserOf
    <3>6. GhostsCameTooLate'
      BY <3>1, <3>2, <3>3 DEF RegistryInv, GhostsCameTooLate, FeedTypeOK
    <3>7. RoomsAgree'
      BY <3>1, <3>2, <3>3, <3>4 DEF RegistryInv, RoomsAgree
    <3>8. QED
      BY <3>5, <3>6, <3>7 DEF RegistryInv
  <2>2. CASE Connected(k) \/ Lost(k) \/ Dismissed(k) \/ NewSocket(k)
    BY <2>2, RegistryKept DEF Connected, Lost, Dismissed, NewSocket, gateway, services, Registry
  <2>3. CASE \E d \in Pages \cup {None} : Show(k, d)
    BY <2>3, RegistryKept DEF Show, gateway, services, Registry
  <2>4. CASE Receive(k)
    <3> DEFINE s == Socket(k)
               r == Head(up[k]).room
    <3>1. s \in Sockets /\ link[s] = "up"
      BY <2>4, SocketExists DEF Receive, ConnInv
    <3>2. /\ UNCHANGED <<user, link, sessions, online, late>>
          /\ JoinRoom(s, r) \/ LeaveRoom(s, r)
      BY <2>4 DEF Receive
    <3>3. CASE JoinRoom(s, r)
      BY <3>2, <3>3, RegistryKept DEF JoinRoom, Registry
    <3>4. CASE LeaveRoom(s, r)
      <4>1. RoomsAgree'
        BY <3>1, <3>2, <3>4 DEF LeaveRoom, LeftRooms, RegistryInv, RoomsAgree, FeedTypeOK
      <4>2. QED
        BY <3>2, <4>1 DEF RegistryInv, OnlineMatchesSessions, GhostsCameTooLate, UserOf
    <3>5. QED
      BY <3>2, <3>3, <3>4
  <2>5. QED
    BY <1>2, <2>1, <2>2, <2>3, <2>4 DEF Console
<1>3. ASSUME NEW s \in Sockets, Gateway(s) PROVE RegistryInv'
  <2>1. CASE Verify(s)
    BY <2>1, RegistryKept DEF Verify, console, services, Registry
  <2>2. CASE RegisterSession(s)
    <3>1. OnlineMatchesSessions'
      BY <2>2 DEF RegisterSession, Active, WithSession, console, RegistryInv,
                  OnlineMatchesSessions, UserOf
    <3>2. GhostsCameTooLate'
      BY <2>2 DEF RegisterSession, WithSession, RegistryInv, GhostsCameTooLate
    <3>3. RoomsAgree'
      BY <2>2 DEF RegisterSession, WithSession, RegistryInv, RoomsAgree, FeedTypeOK
    <3>4. QED
      BY <3>1, <3>2, <3>3 DEF RegistryInv
  <2>3. CASE Reject(s)
    BY <2>3, RegistryDisconnect, RegistryKept
    DEF Reject, Disconnect, console, services, Registry
  <2>4. CASE Vanish(s)
    BY <2>4, RegistryDisconnect DEF Vanish, console
  <2>5. ASSUME NEW r \in Rooms, Authorize(s, r) PROVE RegistryInv'
    <3>1. s \in known
      BY <2>5 DEF Authorize, LinkInv
    <3>2. RoomsAgree'
      <4>1. CASE link[s] = "up"
        BY <2>5, <3>1, <4>1
        DEF Authorize, Entered, RegistryInv, RoomsAgree, LinkInv, FeedTypeOK
      <4>2. CASE link[s] # "up"
        BY <2>5, <3>1, <4>2
        DEF Authorize, Entered, RegistryInv, RoomsAgree, FeedTypeOK
      <4>3. QED
        BY <4>1, <4>2
    <3>3. QED
      BY <2>5, <3>2
      DEF Authorize, console, RegistryInv, OnlineMatchesSessions, GhostsCameTooLate, UserOf
  <2>6. ASSUME NEW r \in Rooms, Forbid(s, r) PROVE RegistryInv'
    BY <2>6, RegistryKept DEF Forbid, console, services, Registry
  <2>7. QED
    BY <1>3, <2>1, <2>2, <2>3, <2>4, <2>5, <2>6 DEF Gateway
<1>4. QED
  BY <1>1, <1>2, <1>3 DEF FeedNext

-----------------------------------------------------------------------------
(* What is on its way to the gateway.                                      *)

LEMMA JoinIsNotLeave == \A r, t : Join(r) # Leave(t)
  BY DEF Join, Leave

LEMMA AsksLast ==
  ASSUME NEW q \in Seq(Messages), NEW d \in Rooms
  PROVE  Asks(q \o <<Join(d)>>, d)
<1>1. <<Join(d)>> \in Seq(Messages) /\ Len(<<Join(d)>>) = 1 /\ <<Join(d)>>[1] = Join(d)
  BY RoomsNamed
<1>2. Len(q) \in Nat
  BY LenProperties
<1> DEFINE p == q \o <<Join(d)>>
<1>3. Len(p) = Len(q) + 1 /\ p[Len(q) + 1] = Join(d)
  <2>1. /\ Len(p) = Len(q) + 1
        /\ \A i \in 1..Len(q) + 1 : p[i] = IF i <= Len(q) THEN q[i] ELSE <<Join(d)>>[i - Len(q)]
    BY <1>1, ConcatProperties
  <2>2. p[Len(q) + 1] = <<Join(d)>>[(Len(q) + 1) - Len(q)]
    BY <1>2, <2>1
  <2>3. (Len(q) + 1) - Len(q) = 1
    BY <1>2
  <2>4. QED
    BY <1>1, <2>1, <2>2, <2>3
<1> HIDE DEF p
<1>4. Asks(p, d)
  BY <1>2, <1>3 DEF Asks
<1>5. QED
  BY <1>4 DEF p

LEMMA AsksAppend ==
  ASSUME NEW q \in Seq(Messages), NEW d, NEW r \in Rooms, Asks(q, d)
  PROVE  Asks(Append(q, Join(r)), d)
<1>1. Join(r) \in Messages /\ Len(q) \in Nat
  BY RoomsNamed, LenProperties
<1> DEFINE p == Append(q, Join(r))
<1>2. /\ Len(p) = Len(q) + 1
      /\ \A i \in 1..Len(q) : p[i] = q[i]
      /\ p[Len(q) + 1] = Join(r)
  BY <1>1, AppendProperties
<1> HIDE DEF p
<1>3. PICK i \in 1..Len(q) : q[i] = Join(d) /\ \A j \in i + 1 .. Len(q) : q[j] # Leave(d)
  BY DEF Asks
<1>4. ASSUME NEW j \in i + 1 .. Len(p) PROVE p[j] # Leave(d)
  BY <1>1, <1>2, <1>3, <1>4, JoinIsNotLeave
<1>5. Asks(p, d)
  BY <1>1, <1>2, <1>3, <1>4 DEF Asks
<1>6. QED
  BY <1>5 DEF p

\* The first message is heard: it is the request itself, or the request is still
\* on its way.
LEMMA AsksTail ==
  ASSUME NEW q \in Seq(Messages), NEW d, q # <<>>, Asks(q, d)
  PROVE  Asks(Tail(q), d) \/ (Head(q) = Join(d) /\ Keeps(Tail(q), d))
<1>1. /\ Len(q) \in Nat \ {0}
      /\ Head(q) = q[1]
      /\ Len(Tail(q)) = Len(q) - 1
      /\ \A i \in 1..Len(Tail(q)) : Tail(q)[i] = q[i + 1]
  BY HeadTailProperties, EmptySeq
<1>2. PICK i \in 1..Len(q) : q[i] = Join(d) /\ \A j \in i + 1 .. Len(q) : q[j] # Leave(d)
  BY DEF Asks
<1> DEFINE t == Tail(q)
<1> HIDE DEF t
<1>3. CASE i = 1
  BY <1>1, <1>2, <1>3 DEF Keeps
<1>4. CASE i > 1
  <2>1. i - 1 \in 1..Len(Tail(q)) /\ Tail(q)[i - 1] = Join(d)
    BY <1>1, <1>2, <1>4
  <2>2. ASSUME NEW j \in (i - 1) + 1 .. Len(Tail(q)) PROVE Tail(q)[j] # Leave(d)
    BY <1>1, <1>2, <1>4, <2>2
  <2>3. QED
    BY <2>1, <2>2 DEF Asks
<1>5. QED
  BY <1>3, <1>4

LEMMA KeepsTail ==
  ASSUME NEW q \in Seq(Messages), NEW d, q # <<>>, Keeps(q, d)
  PROVE  Head(q) # Leave(d) /\ Keeps(Tail(q), d)
<1>1. /\ Len(q) \in Nat \ {0}
      /\ Head(q) = q[1]
      /\ Len(Tail(q)) = Len(q) - 1
      /\ \A i \in 1..Len(Tail(q)) : Tail(q)[i] = q[i + 1]
  BY HeadTailProperties, EmptySeq
<1>2. QED
  BY <1>1 DEF Keeps

-----------------------------------------------------------------------------
(* The open page.                                                          *)

Heard(k) ==
  LET s == Socket(k)
      d == page[k]
  IN link[s] = "up" => d \in missed[s] \/ joining[s][d] > 0 \/ d \in member[s]

Fed(k) ==
  asked[k] => /\ page[k] # None
              /\ \/ Asks(up[k], page[k])
                 \/ at[k] = "connected" /\ Keeps(up[k], page[k]) /\ Heard(k)

LEMMA FedInvIsFed == FedInv <=> \A k \in Consoles : Fed(k)
  BY DEF FedInv, Fed, Heard

\* Another console's step, or one of a socket, is no matter to what has been asked.
LEMMA FedKept ==
  ASSUME NEW k \in Consoles, Fed(k),
         asked'[k] = asked[k], page'[k] = page[k], up'[k] = up[k], at'[k] = at[k],
         at[k] = "connected" /\ Heard(k) => Heard(k)'
  PROVE  Fed(k)'
  BY DEF Fed

LEMMA FedReceive ==
  ASSUME FeedTypeOK, ConnInv, LinkInv, NEW k \in Consoles, Fed(k), Receive(k)
  PROVE  Fed(k)'
<1> DEFINE s == Socket(k)
           d == page[k]
           m == Head(up[k])
<1>1. /\ s \in Sockets /\ Socket(k)' = s /\ page' = page /\ asked' = asked
      /\ at[k] = "connected" /\ at' = at /\ link' = link /\ link[s] = "up"
  BY SocketExists DEF Receive, ConnInv, Socket
<1>2. up[k] \in Seq(Messages) /\ up[k] # <<>> /\ up'[k] = Tail(up[k])
  BY DEF Receive, FeedTypeOK
<1>3. m \in Messages /\ m.room \in Rooms
  <2>1. m \in Messages
    BY <1>2, HeadTailProperties
  <2>2. QED
    BY <2>1 DEF Messages
<1>4. \/ m.act = "join" /\ JoinRoom(s, m.room)
      \/ m.act = "leave" /\ LeaveRoom(s, m.room)
  BY DEF Receive
<1>5. SUFFICES ASSUME asked[k] PROVE Fed(k)'
  BY <1>1 DEF Fed
<1>6. d # None /\ d \in Rooms
  BY <1>5 DEF Fed, FeedTypeOK, Rooms
<1>7. ASSUME Asks(Tail(up[k]), d) PROVE Fed(k)'
  BY <1>1, <1>2, <1>6, <1>7 DEF Fed
<1>8. ASSUME Keeps(Tail(up[k]), d), Heard(k)' PROVE Fed(k)'
  BY <1>1, <1>2, <1>6, <1>8 DEF Fed
<1>9. ASSUME m = Join(d) PROVE Heard(k)'
  <2>1. m.act = "join" /\ m.room = d
    BY <1>9 DEF Join
  <2>2. JoinRoom(s, d)
    BY <1>4, <2>1
  <2>3. CASE s \in known
    BY <1>1, <1>6, <2>2, <2>3 DEF JoinRoom, Heard, FeedTypeOK
  <2>4. CASE s \notin known
    BY <1>1, <1>6, <2>2, <2>4 DEF JoinRoom, Heard, FeedTypeOK
  <2>5. QED
    BY <2>3, <2>4
<1>10. ASSUME Heard(k), m # Leave(d) PROVE Heard(k)'
  <2>1. CASE m.act = "join"
    <3>1. JoinRoom(s, m.room)
      BY <1>4, <2>1
    <3>2. missed[s] \subseteq missed'[s] /\ member' = member
      BY <1>1, <3>1 DEF JoinRoom, FeedTypeOK
    <3>3. joining[s][d] > 0 => joining'[s][d] > 0
      <4>1. joining \in [Sockets -> [Rooms -> Nat]]
        BY DEF FeedTypeOK
      <4>2. \/ joining' = joining
            \/ joining' = [joining EXCEPT ![s][m.room] = @ + 1]
        BY <3>1 DEF JoinRoom
      <4> HIDE DEF s, m, d
      <4>3. QED
        BY <1>1, <1>3, <1>6, <4>1, <4>2
    <3>4. QED
      BY <1>1, <1>10, <3>2, <3>3 DEF Heard
  <2>2. CASE m.act = "leave"
    <3>1. LeaveRoom(s, m.room) /\ m.room # d
      BY <1>3, <1>4, <1>10, <2>2 DEF Leave, Messages
    <3>2. missed' = missed /\ joining' = joining /\ (d \in member[s] => d \in member'[s])
      BY <1>1, <3>1 DEF LeaveRoom, FeedTypeOK
    <3>3. QED
      BY <1>1, <1>10, <3>2 DEF Heard
  <2>3. QED
    BY <1>3, <2>1, <2>2 DEF Messages
<1>11. CASE Asks(up[k], d)
  BY <1>2, <1>7, <1>8, <1>9, <1>11, AsksTail
<1>12. CASE Keeps(up[k], d) /\ Heard(k)
  BY <1>2, <1>8, <1>10, <1>12, KeepsTail
<1>13. QED
  BY <1>5, <1>11, <1>12 DEF Fed

LEMMA FedShow ==
  ASSUME FeedTypeOK, NEW k \in Consoles, NEW d \in Pages \cup {None}, Show(k, d)
  PROVE  Fed(k)'
<1>1. page'[k] = d /\ asked'[k] = (d # None)
  BY DEF Show, FeedTypeOK
<1>2. CASE d = None
  BY <1>1, <1>2 DEF Fed
<1>3. CASE d # None
  <2> DEFINE a == IF page[k] = None THEN <<>> ELSE <<Leave(page[k])>>
  <2>1. d \in Rooms
    BY <1>3 DEF Rooms
  <2>2. up[k] \o a \in Seq(Messages)
    <3>1. up[k] \in Seq(Messages) /\ page[k] \in Pages \cup {None}
      BY DEF FeedTypeOK
    <3>2. a \in Seq(Messages)
      BY <3>1, EmptySeq, RoomsNamed
    <3>3. QED
      BY <3>1, <3>2, ConcatProperties
  <2>3. up'[k] = (up[k] \o a) \o <<Join(d)>>
    BY <1>3 DEF Show, FeedTypeOK
  <2> HIDE DEF a
  <2>4. Asks(up'[k], d)
    BY <2>1, <2>2, <2>3, AsksLast
  <2>5. QED
    BY <1>1, <1>3, <2>4 DEF Fed
<1>4. QED
  BY <1>2, <1>3

LEMMA FedNewSocket ==
  ASSUME FeedTypeOK, NEW k \in Consoles, NewSocket(k)
  PROVE  Fed(k)'
<1>1. page' = page /\ asked'[k] = (page[k] # None) /\ page[k] \in Pages \cup {None}
  BY DEF NewSocket, FeedTypeOK
<1>2. CASE page[k] = None
  BY <1>1, <1>2 DEF Fed
<1>3. CASE page[k] # None
  <2> DEFINE d == page[k]
  <2>1. d \in Rooms /\ up'[k] = <<Join(d)>>
    BY <1>1, <1>3 DEF NewSocket, Rooms, FeedTypeOK
  <2>2. <<>> \in Seq(Messages) /\ <<>> \o <<Join(d)>> = <<Join(d)>>
    BY <2>1, RoomsNamed, EmptySeq, ConcatEmptySeq
  <2>3. Asks(up'[k], d)
    BY <2>1, <2>2, AsksLast
  <2>4. QED
    BY <1>1, <1>3, <2>3 DEF Fed
<1>4. QED
  BY <1>2, <1>3

\* The steps of the gateway.
LEMMA HeardStep ==
  ASSUME FeedTypeOK, ConnInv, LinkInv, NEW k \in Consoles, at[k] = "connected", Heard(k),
         NEW s \in Sockets, Gateway(s), page[k] \in Rooms
  PROVE  Heard(k)'
<1> DEFINE o == Socket(k)
           d == page[k]
<1>1. o \in Sockets
  BY SocketExists DEF ConnInv
<1>2. UNCHANGED console /\ Socket(k)' = o /\ page' = page
  BY DEF Gateway, Verify, RegisterSession, Reject, Vanish, Authorize, Forbid, console, Socket
<1>3. ASSUME UNCHANGED <<link, member, joining, missed>> PROVE Heard(k)'
  BY <1>2, <1>3 DEF Heard
<1>4. CASE Verify(s)
  BY <1>3, <1>4 DEF Verify
<1>5. CASE RegisterSession(s)
  <2>1. CASE s = o
    <3>1. member[o] = {} /\ joining[o] = [r \in Rooms |-> 0]
      BY <1>1, <1>5, <2>1 DEF RegisterSession, LinkInv
    <3>2. link[o] = "up" => d \in missed[o]
      BY <3>1 DEF Heard
    <3>3. QED
      BY <1>2, <1>5, <3>2 DEF RegisterSession, Heard
  <2>2. CASE s # o
    <3>1. member'[o] = member[o] /\ UNCHANGED <<link, joining, missed>>
      BY <1>1, <1>5, <2>2 DEF RegisterSession, FeedTypeOK
    <3>2. QED
      BY <1>2, <3>1 DEF Heard
  <2>3. QED
    BY <2>1, <2>2
<1>6. ASSUME Down(s), UNCHANGED <<joining, missed>> PROVE Heard(k)'
  <2>1. CASE s = o
    <3>1. link'[o] = "down"
      BY <1>1, <1>6, <2>1 DEF Down, FeedTypeOK
    <3>2. QED
      BY <1>2, <3>1 DEF Heard
  <2>2. CASE s # o
    <3>1. link'[o] = link[o] /\ member'[o] = member[o]
      BY <1>1, <1>6, <2>2 DEF Down, FeedTypeOK
    <3>2. QED
      BY <1>2, <1>6, <3>1 DEF Heard
  <2>3. QED
    BY <2>1, <2>2
<1>7. CASE Reject(s)
  BY <1>3, <1>6, <1>7 DEF Reject, Disconnect
<1>8. CASE Vanish(s)
  BY <1>6, <1>8 DEF Vanish
<1>9. ASSUME NEW r \in Rooms, Authorize(s, r) \/ Forbid(s, r) PROVE Heard(k)'
  <2>1. link' = link /\ joining \in [Sockets -> [Rooms -> Nat]]
    BY <1>9 DEF Authorize, Forbid, FeedTypeOK
  <2>2. joining' = [joining EXCEPT ![s][r] = @ - 1]
    BY <1>9 DEF Authorize, Forbid
  <2>3. missed[o] \subseteq missed'[o] /\ member[o] \subseteq member'[o]
    <3>1. CASE Authorize(s, r)
      <4>1. UNCHANGED missed /\ member \in [Sockets -> SUBSET Rooms]
        BY <3>1 DEF Authorize, FeedTypeOK
      <4>2. member' = member \/ member' = [member EXCEPT ![s] = @ \cup {r}]
        BY <3>1 DEF Authorize
      <4> HIDE DEF o
      <4>3. QED
        BY <1>1, <4>1, <4>2
    <3>2. CASE Forbid(s, r)
      BY <1>1, <3>2 DEF Forbid, FeedTypeOK
    <3>3. QED
      BY <1>9, <3>1, <3>2
  <2>4. CASE s = o /\ r = d
    <3>1. CASE Authorize(s, r)
      BY <1>1, <1>2, <2>1, <2>4, <3>1 DEF Authorize, Heard, FeedTypeOK
    <3>2. CASE Forbid(s, r)
      BY <1>1, <1>2, <2>1, <2>4, <3>2 DEF Forbid, Heard, FeedTypeOK
    <3>3. QED
      BY <1>9, <3>1, <3>2
  <2>5. CASE ~(s = o /\ r = d)
    <3>1. joining'[o][d] = joining[o][d]
      <4> HIDE DEF o, d
      <4>1. QED
        BY <1>1, <2>1, <2>2, <2>5
    <3>2. QED
      BY <1>2, <2>1, <2>3, <3>1 DEF Heard
  <2>6. QED
    BY <2>4, <2>5
<1>10. QED
  BY <1>4, <1>5, <1>7, <1>8, <1>9 DEF Gateway

LEMMA FedStep ==
  ASSUME FeedTypeOK, ConnInv, LinkInv, FedInv, [FeedNext]_feedVars
  PROVE  FedInv'
<1> SUFFICES ASSUME NEW k \in Consoles PROVE Fed(k)'
  BY FedInvIsFed DEF FedInv, Fed, Heard
<1>1. Fed(k)
  BY FedInvIsFed
<1>2. ASSUME UNCHANGED <<console, link, joining, missed, member>> PROVE Fed(k)'
  BY <1>1, <1>2 DEF Fed, Heard, console, Socket
<1>3. CASE UNCHANGED feedVars
  BY <1>2, <1>3 DEF feedVars, gateway
<1>4. ASSUME NEW j \in Consoles, Console(j) PROVE Fed(k)'
  <2>1. ASSUME Open(j) \/ TurnAway(j) PROVE Fed(k)'
    <3>1. CASE j = k
      <4>1. at[k] # "connected"
        BY <2>1, <3>1 DEF Open, TurnAway
      <4>2. UNCHANGED <<page, up, asked>>
        BY <2>1 DEF Open, TurnAway
      <4>3. QED
        BY <1>1, <4>1, <4>2 DEF Fed
    <3>2. CASE j # k
      <4>1. /\ UNCHANGED <<page, up, asked, member, joining, missed>>
            /\ at'[k] = at[k] /\ conn'[k] = conn[k]
            /\ \A t \in Sockets : t[1] # j => link'[t] = link[t]
        BY <2>1, <3>2 DEF Open, TurnAway, FeedTypeOK
      <4>2. at[k] = "connected" => Socket(k) \in Sockets /\ Socket(k)[1] = k
        BY SocketExists DEF ConnInv, Socket
      <4>3. QED
        BY <1>1, <3>2, <4>1, <4>2, FedKept DEF Heard, Socket
    <3>3. QED
      BY <3>1, <3>2
  <2>2. CASE Connected(j)
    <3>1. UNCHANGED <<conn, page, asked, gateway>>
      BY <2>2 DEF Connected
    <3>2. CASE j = k
      <4>1. up[k] \in Seq(Messages) /\ at[k] # "connected"
        BY <2>2, <3>2 DEF Connected, FeedTypeOK
      <4>2. up'[k] = Append(up[k], Join(Org))
        BY <2>2, <3>2 DEF Connected, Greeting, FeedTypeOK
      <4>3. QED
        BY <1>1, <3>1, <4>1, <4>2, AsksAppend, RoomsNamed DEF Fed
    <3>3. CASE j # k
      <4>1. at'[k] = at[k] /\ up'[k] = up[k]
        BY <2>2, <3>3 DEF Connected, FeedTypeOK
      <4>2. QED
        BY <1>1, <3>1, <4>1, FedKept DEF Heard, Socket, gateway
    <3>4. QED
      BY <3>2, <3>3
  <2>3. ASSUME Lost(j) \/ Dismissed(j) PROVE Fed(k)'
    <3>1. UNCHANGED <<conn, page, gateway>>
      BY <2>3 DEF Lost, Dismissed
    <3>2. CASE j = k
      <4>1. asked'[k] = FALSE
        BY <2>3, <3>2 DEF Lost, Dismissed, FeedTypeOK
      <4>2. QED
        BY <4>1 DEF Fed
    <3>3. CASE j # k
      <4>1. at'[k] = at[k] /\ up'[k] = up[k] /\ asked'[k] = asked[k]
        BY <2>3, <3>3 DEF Lost, Dismissed, FeedTypeOK
      <4>2. QED
        BY <1>1, <3>1, <4>1, FedKept DEF Heard, Socket, gateway
    <3>4. QED
      BY <3>2, <3>3
  <2>4. CASE NewSocket(j)
    <3>1. CASE j = k
      BY <2>4, <3>1, FedNewSocket
    <3>2. CASE j # k
      <4>1. /\ at'[k] = at[k] /\ up'[k] = up[k] /\ asked'[k] = asked[k]
            /\ UNCHANGED <<conn, page, gateway>>
        BY <2>4, <3>2 DEF NewSocket, FeedTypeOK
      <4>2. QED
        BY <1>1, <4>1, FedKept DEF Heard, Socket, gateway
    <3>3. QED
      BY <3>1, <3>2
  <2>5. ASSUME NEW d \in Pages \cup {None}, Show(j, d) PROVE Fed(k)'
    <3>1. CASE j = k
      BY <2>5, <3>1, FedShow
    <3>2. CASE j # k
      <4>1. /\ page'[k] = page[k] /\ up'[k] = up[k] /\ asked'[k] = asked[k]
            /\ UNCHANGED <<at, conn, gateway>>
        BY <2>5, <3>2 DEF Show, FeedTypeOK
      <4>2. QED
        BY <1>1, <4>1, FedKept DEF Heard, Socket, gateway
    <3>3. QED
      BY <3>1, <3>2
  <2>6. CASE Receive(j)
    <3>1. CASE j = k
      BY <1>1, <2>6, <3>1, FedReceive
    <3>2. CASE j # k
      <4>1. /\ up'[k] = up[k]
            /\ UNCHANGED <<at, conn, page, asked, link>>
        BY <2>6, <3>2 DEF Receive, FeedTypeOK
      <4>2. JoinRoom(Socket(j), Head(up[j]).room) \/ LeaveRoom(Socket(j), Head(up[j]).room)
        BY <2>6 DEF Receive
      <4>3. Socket(j) # Socket(k)
        BY <3>2 DEF Socket
      <4>4. ASSUME at[k] = "connected"
            PROVE  /\ joining'[Socket(k)] = joining[Socket(k)]
                   /\ missed'[Socket(k)] = missed[Socket(k)]
                   /\ member'[Socket(k)] = member[Socket(k)]
        <5>1. Socket(k) \in Sockets
          BY <4>4, SocketExists DEF ConnInv
        <5>2. QED
          BY <4>2, <4>3, <5>1 DEF JoinRoom, LeaveRoom, FeedTypeOK
      <4>5. QED
        BY <1>1, <4>1, <4>4, FedKept DEF Heard, Socket
    <3>3. QED
      BY <3>1, <3>2
  <2>7. QED
    BY <1>4, <2>1, <2>2, <2>3, <2>4, <2>5, <2>6 DEF Console
<1>5. ASSUME NEW s \in Sockets, Gateway(s) PROVE Fed(k)'
  <2>1. UNCHANGED console
    BY <1>5 DEF Gateway, Verify, RegisterSession, Reject, Vanish, Authorize, Forbid
  <2>2. CASE asked[k]
    <3>1. page[k] \in Rooms
      BY <1>1, <2>2 DEF Fed, FeedTypeOK, Rooms
    <3>2. at[k] = "connected" /\ Heard(k) => Heard(k)'
      BY <1>5, <3>1, HeardStep
    <3>3. QED
      BY <1>1, <2>1, <3>2, FedKept DEF console
  <2>3. CASE ~asked[k]
    BY <2>1, <2>3 DEF Fed, console
  <2>4. QED
    BY <2>2, <2>3
<1>6. QED
  BY <1>3, <1>4, <1>5 DEF FeedNext

-----------------------------------------------------------------------------
\* The inductive invariant of ConsoleFeed.
FeedInv ==
  FeedTypeOK /\ ConnInv /\ LinkInv /\ CountInv /\ RegistryInv /\ FedInv

LEMMA FeedInitInv == FeedInit => FeedInv
<1> SUFFICES ASSUME FeedInit PROVE FeedInv
  OBVIOUS
<1>1. FeedTypeOK
  BY FeedInitTyped
<1>2. ConnInv
  BY DEF FeedInit, ConnInv
<1>3. LinkInv
  BY SocketParts DEF FeedInit, LinkInv
<1>4. CountInv
  <2>1. Downs = {}
    BY DEF FeedInit, Downs
  <2>2. QED
    BY <2>1, FS_EmptySet DEF FeedInit, CountInv, ClientsAreSessions
<1>5. RegistryInv
  BY DEF FeedInit, RegistryInv, OnlineMatchesSessions, GhostsCameTooLate, RoomsAgree
<1>6. FedInv
  BY DEF FeedInit, FedInv
<1>7. QED
  BY <1>1, <1>2, <1>3, <1>4, <1>5, <1>6 DEF FeedInv

LEMMA FeedNextInv == FeedInv /\ [FeedNext]_feedVars => FeedInv'
  BY FeedNextTyped, ConnStep, LinkStep, CountStep, RegistryStep, FedStep DEF FeedInv

THEOREM FeedInvariant == FeedSpec => []FeedInv
  BY FeedInitInv, FeedNextInv, PTL DEF FeedSpec

\* Every variable of the consoles, the gateway and its services has its type, in
\* every interleaving of connections, disconnections and messages.
THEOREM FeedTypesHold == FeedSpec => []FeedTypeOK
<1>1. FeedInv => FeedTypeOK
  BY DEF FeedInv
<1>2. QED
  BY <1>1, FeedInvariant, PTL

\* updateUserActivity and removeUserActivity keep onlineUsers equal to the users
\* with a session in the registry.
THEOREM OnlineHasSession == FeedSpec => []OnlineMatchesSessions
<1>1. FeedInv => OnlineMatchesSessions
  BY DEF FeedInv, RegistryInv
<1>2. QED
  BY <1>1, FeedInvariant, PTL

\* handleConnection registers a session for a socket that is gone only if it went
\* while its user was being looked up; no other session is left behind.
THEOREM GhostsAreLate == FeedSpec => []GhostsCameTooLate
<1>1. FeedInv => GhostsCameTooLate
  BY DEF FeedInv, RegistryInv
<1>2. QED
  BY <1>1, FeedInvariant, PTL

\* connectedClientsCount is at most the number of sessions, and lower by at most
\* the disconnections of sockets it never counted.
THEOREM ClientsCounted == FeedSpec => []ClientsAreSessions
<1>1. FeedInv => ClientsAreSessions
  BY DEF FeedInv, CountInv
<1>2. QED
  BY <1>1, FeedInvariant, PTL

\* The registry's rooms of a socket that is up are those that socket.io has it in,
\* whatever joins wait for authorizeRoomAccess.
THEOREM RoomsKnown == FeedSpec => []RoomsAgree
<1>1. FeedInv => RoomsAgree
  BY DEF FeedInv, RegistryInv
<1>2. QED
  BY <1>1, FeedInvariant, PTL

\* A device page whose request for its room was heard, not refused, on a connection
\* that lasts is in that room, for any number of consoles, pages and reconnections.
THEOREM OpenPageIsFed == FeedSpec => []PageIsFed
<1>1. FeedInv => PageIsFed
  <2> SUFFICES ASSUME FeedInv, NEW k \in Consoles,
                      at[k] = "connected", link[Socket(k)] = "up",
                      page[k] # None, asked[k], up[k] = <<>>,
                      page[k] \notin missed[Socket(k)], joining[Socket(k)][page[k]] = 0
               PROVE  page[k] \in member[Socket(k)]
    BY DEF PageIsFed
  <2>1. ~Asks(<<>>, page[k])
    BY EmptySeq DEF Asks
  <2>2. QED
    BY <2>1 DEF FeedInv, FedInv
<1>2. QED
  BY <1>1, FeedInvariant, PTL
=============================================================================
