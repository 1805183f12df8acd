SPECIFICATION ScenesSpec
CONSTANTS
  Conn = {c1, c2, c3}
  MaxRoom = 2
  MaxMessage = 1
  Ticket = {t1}
  a1 = a1
  a2 = a2
  Agent = {a1, a2}
  Client = Client
  Admin = Admin
  NoAgent = NoAgent
  PageLimit = 1
  Matching = {2}
  MaxChats = 2
  MaxSaid = 3
  MaxTime = 1
SYMMETRY Symmetry
CHECK_DEADLOCK FALSE
INVARIANTS BroadcastReaches RoomHasReason HistoryWhole OffersHold
