SPECIFICATION Spec
CONSTANTS
  e1 = e1
  e2 = e2
  e3 = e3
  e4 = e4
  p1 = p1
  p2 = p2
  c1 = c1
  c2 = c2
  l1 = l1
  Entries = {e1, e2, e3}
  Players = {p1, p2}
  Callers = {c1, c2}
  Listeners = {l1}
  NoTrack = NoTrack
  NoPlayer = NoPlayer
  Ops = {"add", "skip", "stop", "leave"}
  MayFail = FALSE
  MaxBatch = 2
  MaxEnded = 1
  MoveTargets <- MCMoveTargets
INVARIANTS TracksWhatPlays
CHECK_DEADLOCK FALSE
