SPECIFICATION Spec
CONSTANTS
  alice = alice
  bob = bob
  author = author
  bot = bot
  p1 = p1
  p2 = p2
  p3 = p3
  w1 = w1
  w2 = w2
  Fans = {alice, bob, author, bot}
  Bots = {bot}
  Author = author
  Posts = {p1, p2, p3}
  NoPost = NoPost
  NoEntry = NoEntry
  Workers = {w1, w2}
  Thresholds = {1, 2}
  MaxReactions = 3
  MaxTroubles = 0
SYMMETRY MCSymmetry
INVARIANTS InSync
CHECK_DEADLOCK FALSE
