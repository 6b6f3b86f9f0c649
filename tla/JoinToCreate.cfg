SPECIFICATION MCSpec
CONSTANTS
  u1 = u1
  u2 = u2
  c1 = c1
  c2 = c2
  w1 = w1
  w2 = w2
  Users = {u1, u2}
  Rooms = {c1, c2}
  Workers = {w1, w2}
  Trigger = Trigger
  Lobby = Lobby
  Nowhere = Nowhere
  NoUser = NoUser
  MaxMoves = 4
  MaxFailures = 1
  MaxRestarts = 1
  MaxQueue = 2
  root = root
  caller = caller
  Callers = {root, caller}
  Chiefs = {root}
  Guest = Guest
  Nobody = Nobody
  Missing = Missing
  MaxOrders = 2
  MaxHands = 1
  MaxSlips = 1
  Mods = {root, caller}
  Admins = {root}
  Owner = root
  MaxCommands = 3
  MaxFaults = 1
  MaxRules = 1
SYMMETRY MCSymmetry
INVARIANTS KnownRoomsDeleted OthersKept NoStaleRecords
INVARIANTS RejectedOut RapsheetTrue
PROPERTIES RecordsKept NoUndueChange
CHECK_DEADLOCK FALSE
