SPECIFICATION MCSpec
CONSTANTS
  m1 = m1
  m2 = m2
  c1 = c1
  h1 = h1
  h2 = h2
  none = none
  a = a
  b = b
  Messages = {m1, m2}
  Channels = {c1}
  ChannelOf <- MCChannelOf
  Texts = {none, a, b}
  NoText = none
  MaxFiles = 1
  Handlers = {h1, h2}
  NoMessage = NoMessage
  Cap = 2
  MaxUpdates = 3
  r1 = r1
  r2 = r2
  Colors = {"red", "green", "blue"}
  DefaultColor = "blue"
  NoColor = NoColor
  Builders = {"e1", "e2"}
  Setters = {"s1", "s2"}
  MaxColorSets = 3
  MaxColorFaults = 1
  Requests = {r1, r2}
  Tokens = {"token"}
  NoList = NoList
  SessionLife = 4
  CacheLife = 2
  FetchTime = 1
  MaxClock = 5
  MaxRequests = 5
  MaxFaults = 1
SYMMETRY CachesSymmetry
INVARIANTS TypeOK CacheBounded EveryEditReported
INVARIANTS ColorFresh AdminRecent ForgottenAtLogout
CHECK_DEADLOCK FALSE
