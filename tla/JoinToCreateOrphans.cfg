SPECIFICATION Spec
CONSTANTS
  u1 = u1
  u2 = u2
  c1 = c1
  c2 = c2
  w1 = w1
  w2 = w2
  Users = {u1, u2}
  Rooms = {c1, c2}
  Workers = {w1, w2}
  Trigger = Trigger
  Lobby = Lobby
  Nowhere = Nowhere
  NoUser = NoUser
  MaxMoves = 4
  MaxFailures = 0
  MaxRestarts = 0
  MaxQueue = 2
SYMMETRY MCSymmetry
INVARIANTS NoEmptyRooms
CHECK_DEADLOCK FALSE
