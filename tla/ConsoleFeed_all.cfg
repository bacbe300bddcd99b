SPECIFICATION FeedSpec
CONSTANTS
  Consoles = {k1, k2}
  Users = {u1}
  Pages = {d1}
  Org = Org
  Home = Home
  None = None
  MaxConns = 2
  MaxActs = 3
SYMMETRY Alike
INVARIANTS
  OnlineMatchesSessions
  GhostsCameTooLate
  ClientsAreSessions
  RoomsAgree
  PageIsFed
CHECK_DEADLOCK FALSE
