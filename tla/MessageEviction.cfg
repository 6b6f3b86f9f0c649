SPECIFICATION Spec
CONSTANTS
  m1 = m1
  m2 = m2
  c1 = c1
  h1 = h1
  h2 = h2
  none = none
  a = a
  b = b
  Messages = {m1, m2}
  Channels = {c1}
  ChannelOf <- MCChannelOf
  Texts = {none, a, b}
  NoText = none
  MaxFiles = 1
  Handlers = {h1, h2}
  NoMessage = NoMessage
  Cap = 2
  MaxUpdates = 3
INVARIANTS KeptUpToCap
CHECK_DEADLOCK FALSE
