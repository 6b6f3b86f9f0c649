SPECIFICATION MCSpec
CONSTANTS
  w1 = w1
  w2 = w2
  Codes = {"plain", "once"}
  SingleUse = {"once"}
  MaxUses = 3
  Workers = {w1, w2}
  NoWorker = NoWorker
  NoCode = NoCode
  NoMap = NoMap
  g1 = g1
  g2 = g2
  Runs = {g1, g2}
  MaxStays = 2
  MaxSetups = 2
  MaxReplays = 1
  MaxMishaps = 2
  h1 = h1
  h2 = h2
  Hands = {h1, h2}
  Members = {"human", "bot"}
  Bots = {"bot"}
  GuildRoles = {"greeted"}
  NoSnap = NoSnap
  MaxTurns = 5
  t1 = t1
  Editors = {"page", "command"}
  Channels = {t1}
  RoleIds = {"role"}
  Unset = Unset
  Same = Same
  Numbers = {0, 250}
  MaxEdits = 3
  MaxRefusals = 1
SYMMETRY GuildsSymmetry
INVARIANTS CalmJoinAttributed NeverAhead
INVARIANTS OneCategory LogsRouted SetupRepairs SnapshotsTrue
INVARIANTS RowValid OnlyNamedOrRaced
CHECK_DEADLOCK FALSE
