SPECIFICATION Spec
CONSTANTS
  w1 = w1
  w2 = w2
  Codes = {"plain", "once"}
  SingleUse = {"once"}
  MaxUses = 3
  Workers = {w1, w2}
  NoWorker = NoWorker
  NoCode = NoCode
  NoMap = NoMap
SYMMETRY MCSymmetry
INVARIANTS ConcurrencySafe
CHECK_DEADLOCK FALSE
