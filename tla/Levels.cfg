SPECIFICATION MCSpec
CONSTANTS
  w1 = w1
  w2 = w2
  r1 = r1
  r2 = r2
  Workers = {w1, w2}
  Roles = {r1, r2}
  NoXPRoles = {}
  NoRole = NoRole
  NoRow = NoRow
  Gains = {100, 300}
  Cooldown = 1
  MaxLevel = 2
  MaxXP = 200
  MaxTime = 1
  MaxEdits = 1
  t1 = t1
  t2 = t2
  staff = staff
  guest = guest
  bad = bad
  evil = evil
  good = good
  Handlers = {t1, t2}
  Messages <- MCTexts
  MemberRoles = {guest}
  Channel = main
  AutomodConfigs <- MCConfigs
  Retention = 2
  MaxMessages = 3
  MaxWait = 3
  MaxAway = 1
  MaxErrors = 1
SYMMETRY PipelineSymmetry
INVARIANTS TypeOK XPConserved LevelNotInflated CalmLevelExact CalmRewards
INVARIANTS OneWelcomeBack SpamExact
PROPERTIES CalmCooldown
CHECK_DEADLOCK FALSE
