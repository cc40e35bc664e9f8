SPECIFICATION Spec
CONSTANTS
  Members = {o, m, g}
  Owner = o
  Moderators = {m}
  Hidden = {m}
  Picks = {{m, g}}
  Calls = {c1, c2}
  Sweep = sw
  NoOne = NoOne
  NoLock = NoLock
  NoChange = NoChange
  NoRow = NoRow
  NoNotice = NoNotice
  AccessSets <- OneJoin
  Delays = {0, 1, 2}
  RenameWindow = 3
  RenamesPerWindow = 2
  NoWait = NoWait
  MaxClock = 6
  MaxWaits = 6
  MaxRenames = 2
  TimeSets <- TimeAllowances
INVARIANT NoneAfterUnlock
CHECK_DEADLOCK FALSE
