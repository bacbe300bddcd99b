---------------------------- MODULE ConsoleFeed ----------------------------
(***************************************************************************)
(* The sockets between the web consoles and the control plane: the         *)
(* gateway's handlers with the registry, the presence of users and the     *)
(* counter they keep, and the console's useRealtime hook with the device   *)
(* page that asks for its device's room.                                   *)
(*                                                                         *)
(* The gateway announces a socket before its handler for connections has   *)
(* found the user, and takes messages from then on.  socket.io delivers    *)
(* the messages of one connection in their order, keeps what is emitted    *)
(* without a connection until there is one, and makes join a no-op on a    *)
(* socket that has been closed.  The rate limits are left open: any        *)
(* connection may be one too many (TurnAway), and any join (JoinRoom).     *)
(***************************************************************************)
EXTENDS Integers, Sequences, FiniteSets

CONSTANTS
  Consoles,   \* browser tabs
  Users,
  Pages,      \* devices with a page; a device's room goes by its device here
  Org,        \* the room of the organisation, which the console asks for
  Home,       \* "org_default-org", which the gateway joins every socket to; it may be Org
  None,       \* no device page
  MaxConns,   \* bound on the connections of a console
  MaxActs     \* bound on what users, the network and the database do

ASSUME FeedAssumption ==
  /\ {Org, Home, None} \cap Pages = {} /\ None \notin {Org, Home}
  /\ IsFiniteSet(Consoles)
  /\ MaxConns \in Nat /\ MaxActs \in Nat

Sockets == Consoles \X (1..MaxConns)   \* a connection is a socket of its own
Rooms   == Pages \cup {Org, Home}

VARIABLES
  \* consoles
  user,       \* who is signed in
  at,         \* waiting, opening, connected, disconnected
  conn,       \* connections opened so far
  page,       \* the device whose page is open
  up,         \* emitted: on its way if connected, and buffered otherwise
  \* the gateway's sockets
  link,       \* none, up, down
  pc,         \* handleConnection: none, verify, lookup, done
  known,      \* sockets with client.user
  member,     \* the rooms socket.io has a socket in
  joining,    \* handleJoinRoom: how many wait for authorizeRoomAccess, by room
  \* ConnectionRegistryService, PresenceService, SocketMetricsService
  sessions,
  rooms,      \* session.rooms
  online,     \* onlineUsers
  clients,    \* connectedClientsCount
  \* the environment
  acts,       \* what users, the network and the database did so far
  \* history
  late,       \* sockets registered when they were down already
  strays,     \* disconnections of sockets that were never counted
  asked,      \* whether the open page's room is asked for on this connection
  missed      \* of each socket: rooms asked for in vain

console  == <<user, at, conn, page, up, asked>>
gateway  == <<link, pc, known, member, joining, missed>>
services == <<sessions, rooms, online, clients, late, strays>>
feedVars == <<console, gateway, services, acts>>

Act == acts < MaxActs /\ acts' = acts + 1

Socket(k) == <<k, conn[k]>>
UserOf(s) == user[s[1]]

Join(r)  == [act |-> "join", room |-> r]
Leave(r) == [act |-> "leave", room |-> r]

(***************************************************************************)
(* The end of a socket: handleDisconnect, which runs at once whoever ends  *)
(* it.                                                                     *)
(***************************************************************************)

OthersIgnored(s) == {}           \* mutant: other tabs are not looked for
\* The user's other sessions.
Others(s) == {t \in sessions \ {s} : UserOf(t) = UserOf(s)}

RemainingAll(s) == sessions      \* mutant: removeSession is forgotten
\* removeSession.
Remaining(s) == sessions \ {s}

FewerNever(n) == n               \* mutant: the counter only grows
\* recordClientDisconnection, for every socket that disconnects.
Fewer(n) == IF n = 0 THEN 0 ELSE n - 1

\* The registry, presence and the counter after the disconnection of s.
HandleDisconnect(s) ==
  /\ sessions' = Remaining(s)
  /\ rooms' = [rooms EXCEPT ![s] = {}]
  /\ online' = IF s \in sessions /\ Others(s) = {} THEN online \ {UserOf(s)} ELSE online
  /\ clients' = Fewer(clients)
  /\ strays' = IF s \in sessions THEN strays ELSE strays + 1
  /\ UNCHANGED late

\* socket.io takes the socket out of its rooms.
Down(s) ==
  /\ link' = [link EXCEPT ![s] = "down"]
  /\ member' = [member EXCEPT ![s] = {}]

\* client.disconnect(true): nothing happens if the socket is down already.
Disconnect(s) ==
  IF link[s] = "up" THEN Down(s) /\ HandleDisconnect(s)
                    ELSE UNCHANGED <<link, member, services>>

(***************************************************************************)
(* handleConnection.                                                       *)
(***************************************************************************)

\* A console opens a connection, and the gateway starts to verify its token.
Open(k) ==
  LET s == <<k, conn[k] + 1>> IN
  /\ at[k] \in {"waiting", "opening"}
  /\ conn[k] < MaxConns
  /\ conn' = [conn EXCEPT ![k] = @ + 1]
  /\ at' = [at EXCEPT ![k] = "opening"]
  /\ link' = [link EXCEPT ![s] = "up"]
  /\ pc' = [pc EXCEPT ![s] = "verify"]
  /\ UNCHANGED <<user, page, up, asked, known, member, joining, missed, services, acts>>

\* Too many reconnections, or no token: refused at once, before the framework
\* has bound handleDisconnect.
TurnAway(k) ==
  LET s == <<k, conn[k] + 1>> IN
  /\ at[k] \in {"waiting", "opening"}
  /\ conn[k] < MaxConns
  /\ Act
  /\ conn' = [conn EXCEPT ![k] = @ + 1]
  /\ at' = [at EXCEPT ![k] = "opening"]
  /\ link' = [link EXCEPT ![s] = "down"]
  /\ pc' = [pc EXCEPT ![s] = "done"]
  /\ UNCHANGED <<user, page, up, asked, known, member, joining, missed, services>>

Verify(s) ==
  /\ pc[s] = "verify"
  /\ pc' = [pc EXCEPT ![s] = "lookup"]
  /\ UNCHANGED <<console, link, known, member, joining, missed, services, acts>>

\* An invalid token, an unknown user, or an exception anywhere.
Reject(s) ==
  /\ pc[s] \in {"verify", "lookup"}
  /\ Act
  /\ pc' = [pc EXCEPT ![s] = "done"]
  /\ Disconnect(s)
  /\ UNCHANGED <<console, known, joining, missed>>

\* updateUserActivity and registerSession.
Active(s)     == online \cup {UserOf(s)}
WithSession(s) == sessions \cup {s}

\* The user is found: the session is registered, and the socket is joined to its
\* first room.  The socket may be down by now.
RegisterSession(s) ==
  /\ pc[s] = "lookup"
  /\ pc' = [pc EXCEPT ![s] = "done"]
  /\ known' = known \cup {s}
  /\ sessions' = WithSession(s)
  /\ online' = Active(s)
  /\ clients' = clients + 1
  /\ rooms' = [rooms EXCEPT ![s] = {Home}]
  /\ member' = IF link[s] = "up" THEN [member EXCEPT ![s] = {Home}] ELSE member
  /\ late' = IF link[s] = "up" THEN late ELSE late \cup {s}
  /\ UNCHANGED <<console, link, joining, missed, strays, acts>>

\* The console goes away, the network fails or the ping times out.
Vanish(s) ==
  /\ link[s] = "up"
  /\ Act
  /\ Down(s)
  /\ HandleDisconnect(s)
  /\ UNCHANGED <<console, pc, known, joining, missed>>

(***************************************************************************)
(* Messages to the gateway.                                                *)
(***************************************************************************)

\* handleJoinRoom: nothing but an exception for a socket without a user, nothing but
\* an answer for one that asks too often.
JoinRoom(s, r) ==
  /\ \/ s \in known /\ joining' = [joining EXCEPT ![s][r] = @ + 1] /\ UNCHANGED missed
     \/ missed' = [missed EXCEPT ![s] = @ \cup {r}] /\ UNCHANGED joining
  /\ UNCHANGED <<member, rooms>>

LeftRoomsAll(s, r) == rooms[s]   \* mutant: removeRoom is forgotten
\* removeRoom.
LeftRooms(s, r) == rooms[s] \ {r}

LeaveRoom(s, r) ==
  /\ member' = [member EXCEPT ![s] = @ \ {r}]
  /\ rooms' = [rooms EXCEPT ![s] = LeftRooms(s, r)]
  /\ UNCHANGED <<joining, missed>>

Receive(k) ==
  LET s == Socket(k) IN
  /\ at[k] = "connected" /\ up[k] # <<>>
  /\ link[s] = "up"
  /\ up' = [up EXCEPT ![k] = Tail(@)]
  /\ LET m == Head(up[k]) IN
     \/ m.act = "join" /\ JoinRoom(s, m.room)
     \/ m.act = "leave" /\ LeaveRoom(s, m.room)
  /\ UNCHANGED <<user, at, conn, page, asked, link, pc, known,
                 sessions, online, clients, late, strays, acts>>

\* addRoom: a socket without a session gets no room.
Entered(s, r) == IF s \in sessions THEN rooms[s] \cup {r} ELSE rooms[s]

\* authorizeRoomAccess is answered: the socket joins, if it is still there.
Authorize(s, r) ==
  /\ joining[s][r] > 0
  /\ joining' = [joining EXCEPT ![s][r] = @ - 1]
  /\ IF link[s] = "up" THEN member' = [member EXCEPT ![s] = @ \cup {r}]
                       ELSE UNCHANGED member
  /\ rooms' = [rooms EXCEPT ![s] = Entered(s, r)]
  /\ UNCHANGED <<console, link, pc, known, missed, sessions, online, clients, late, strays, acts>>

\* It is refused, or the query fails.
Forbid(s, r) ==
  /\ joining[s][r] > 0
  /\ Act
  /\ joining' = [joining EXCEPT ![s][r] = @ - 1]
  /\ missed' = [missed EXCEPT ![s] = @ \cup {r}]
  /\ UNCHANGED <<console, link, pc, known, member, services>>

(***************************************************************************)
(* The console.                                                            *)
(***************************************************************************)

GreetingOnly(k) == <<Join(Org)>>             \* mutant: what was buffered is dropped
\* socket.io sends what it has buffered before the hook hears of the connection
\* and asks for the rooms of its user.  (After a reconnection it asks for them
\* twice; the dashboard's room goes like that of the organisation.)
Greeting(k) == Append(up[k], Join(Org))

Connected(k) ==
  /\ at[k] = "opening"
  /\ at' = [at EXCEPT ![k] = "connected"]
  /\ up' = [up EXCEPT ![k] = Greeting(k)]
  /\ UNCHANGED <<user, conn, page, asked, gateway, services, acts>>

\* The connection is lost and will be opened again by the same socket object: no
\* effect of the page depends on that.  What the gateway still hears of it, it has
\* heard (Receive) by the time the console notices.
Lost(k) ==
  /\ at[k] = "connected"
  /\ Act
  /\ at' = [at EXCEPT ![k] = "waiting"]
  /\ up' = [up EXCEPT ![k] = <<>>]
  /\ asked' = [asked EXCEPT ![k] = FALSE]
  /\ UNCHANGED <<user, conn, page, gateway, services>>

\* The gateway has ended the connection ("io server disconnect"): socket.io does
\* not open another.
Dismissed(k) ==
  /\ at[k] = "connected"
  /\ link[Socket(k)] = "down"
  /\ at' = [at EXCEPT ![k] = "disconnected"]
  /\ up' = [up EXCEPT ![k] = <<>>]
  /\ asked' = [asked EXCEPT ![k] = FALSE]
  /\ UNCHANGED <<user, conn, page, gateway, services, acts>>

\* Another token or a reload: a new socket object, on which the page's effect
\* runs again.
NewSocket(k) ==
  /\ conn[k] > 0
  /\ Act
  /\ at' = [at EXCEPT ![k] = "waiting"]
  /\ up' = [up EXCEPT ![k] = IF page[k] = None THEN <<>> ELSE <<Join(page[k])>>]
  /\ asked' = [asked EXCEPT ![k] = page[k] # None]
  /\ UNCHANGED <<user, conn, page, gateway, services>>

\* A device page is opened, in place of another page or not.
Show(k, d) ==
  /\ page[k] # d
  /\ Act
  /\ page' = [page EXCEPT ![k] = d]
  /\ up' = [up EXCEPT ![k] = @ \o (IF page[k] = None THEN <<>> ELSE <<Leave(page[k])>>)
                               \o (IF d = None THEN <<>> ELSE <<Join(d)>>)]
  /\ asked' = [asked EXCEPT ![k] = d # None]
  /\ UNCHANGED <<user, at, conn, gateway, services>>

-----------------------------------------------------------------------------
FeedInit ==
  /\ user \in [Consoles -> Users]
  /\ at = [k \in Consoles |-> "waiting"]
  /\ conn = [k \in Consoles |-> 0]
  /\ page = [k \in Consoles |-> None]
  /\ up = [k \in Consoles |-> <<>>]
  /\ link = [s \in Sockets |-> "none"]
  /\ pc = [s \in Sockets |-> "none"]
  /\ known = {}
  /\ member = [s \in Sockets |-> {}]
  /\ joining = [s \in Sockets |-> [r \in Rooms |-> 0]]
  /\ sessions = {}
  /\ rooms = [s \in Sockets |-> {}]
  /\ online = {}
  /\ clients = 0
  /\ acts = 0
  /\ late = {}
  /\ strays = 0
  /\ asked = [k \in Consoles |-> FALSE]
  /\ missed = [s \in Sockets |-> {}]

Console(k) ==
  \/ Open(k) \/ TurnAway(k) \/ Connected(k) \/ Lost(k) \/ Dismissed(k) \/ NewSocket(k)
  \/ \E d \in Pages \cup {None} : Show(k, d)
  \/ Receive(k)

Gateway(s) ==
  \/ Verify(s) \/ RegisterSession(s) \/ Reject(s) \/ Vanish(s)
  \/ \E r \in Rooms : Authorize(s, r) \/ Forbid(s, r)

FeedNext == (\E k \in Consoles : Console(k)) \/ (\E s \in Sockets : Gateway(s))

FeedSpec == FeedInit /\ [][FeedNext]_feedVars

-----------------------------------------------------------------------------
Messages == [act : {"join", "leave"}, room : Rooms]

\* Every variable has its type; only sockets with a user have a session, and the
\* counter of clients is never negative.
FeedTypeOK ==
  /\ user \in [Consoles -> Users]
  /\ at \in [Consoles -> {"waiting", "opening", "connected", "disconnected"}]
  /\ conn \in [Consoles -> 0..MaxConns]
  /\ page \in [Consoles -> Pages \cup {None}]
  /\ up \in [Consoles -> Seq(Messages)]
  /\ link \in [Sockets -> {"none", "up", "down"}]
  /\ pc \in [Sockets -> {"none", "verify", "lookup", "done"}]
  /\ known \subseteq Sockets
  /\ member \in [Sockets -> SUBSET Rooms]
  /\ joining \in [Sockets -> [Rooms -> Nat]]
  /\ sessions \subseteq known
  /\ rooms \in [Sockets -> SUBSET Rooms]
  /\ online \subseteq Users
  /\ clients \in 0..Cardinality(Sockets)
  /\ acts \in 0..MaxActs
  /\ late \subseteq Sockets
  /\ strays \in 0..Cardinality(Sockets)
  /\ asked \in [Consoles -> BOOLEAN]
  /\ missed \in [Sockets -> SUBSET Rooms]

\* PresenceService shows exactly the users with a session in the registry,
\* whatever order their tabs come and go in.
OnlineMatchesSessions == online = {UserOf(s) : s \in sessions}

\* A session stays behind for a socket that is down only if the socket went down
\* before the session was registered; every later disconnection removes it.
GhostsCameTooLate == {s \in sessions : link[s] = "down"} \subseteq late

\* connectedClients never exceeds the sessions, and falls short of them at most by
\* the sockets that were rejected or went away before they were counted.
ClientsAreSessions ==
  /\ clients <= Cardinality(sessions)
  /\ Cardinality(sessions) <= clients + strays

\* The registry has a socket in the rooms that socket.io sends it the events of,
\* and a socket that is down is in no room.
RoomsAgree ==
  \A s \in Sockets :
    IF link[s] = "up" THEN member[s] = rooms[s]
    ELSE member[s] = {} /\ (s \notin sessions => rooms[s] = {})

\* An open device page is fed: once its console is connected and has been heard,
\* its socket is in the device's room.  It is not if the request came before the
\* user was found or was refused (missed), and not after a connection was lost and
\* opened again (asked).
PageIsFed ==
  \A k \in Consoles :
    LET s == Socket(k)
        d == page[k]
    IN /\ at[k] = "connected" /\ link[s] = "up"
       /\ d # None /\ asked[k] /\ up[k] = <<>>
       /\ d \notin missed[s] /\ joining[s][d] = 0
       => d \in member[s]
=============================================================================
