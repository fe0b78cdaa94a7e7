CONSTANTS
  u1 = u1
  u2 = u2
  a1 = a1
  a2 = a2
  i1 = i1
  s1 = s1
  s2 = s2
  Updaters = {u1, u2}
  Changes <- SomeChanges
  Ops <- SomeOps
  MaxChanges = 3
  ToolIds = {i1}
  MaxNotifications = 3
  Asks = {a1, a2}
  MaxAnswers = 2
  MaxBlocks = 3
  MaxWrites = 3
  SavedIds = {s1, s2}
  MaxTime = 3
  MaxCancels = 3
SPECIFICATION PartsSpec
INVARIANTS SettingsConverge RestrictionKept ResultTellsTurn ReplySafe ReadIsSnapshot ListingSound NothingLeft
CHECK_DEADLOCK FALSE
