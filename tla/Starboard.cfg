SPECIFICATION MCSpec
CONSTANTS
  alice = alice
  bob = bob
  author = author
  bot = bot
  p1 = p1
  p2 = p2
  p3 = p3
  w1 = w1
  w2 = w2
  Fans = {alice, bob, author, bot}
  Bots = {bot}
  Author = author
  Posts = {p1, p2, p3}
  NoPost = NoPost
  NoEntry = NoEntry
  Workers = {w1, w2}
  Thresholds = {1, 2}
  MaxReactions = 4
  MaxTroubles = 1
  e1 = e1
  e2 = e2
  r1 = r1
  r2 = r2
  t1 = t1
  t2 = t2
  Emojis = {e1, e2}
  MenuRoles = {r1, r2}
  Titles = {1, 2}
  Tasks = {t1, t2}
  Established <- MCEstablished
  MaxCalls = 3
  MaxMishaps = 1
SYMMETRY RolesSymmetry
INVARIANTS CalmSyncHeals OnePost CalmOutcome SomeRoleKept MenuShown
CHECK_DEADLOCK FALSE
