SPECIFICATION Spec
CONSTANTS
  a = a
  b = b
  t1 = t1
  t2 = t2
  internal = internal
  external = external
  Members = {a, b}
  Texts = {t1, t2}
  NoNote = NoNote
  Saves = {s1, s2}
  Nobody = Nobody
  SaveAllowances <- SaveSets
  Runs = {c1, c2}
  RoleNames <- TwoNames
  RoleIds = {1, 2, 3, 4, 5, 6}
  NoName = NoName
  NoRole = NoRole
  Channels <- TwoChannels
  Targets <- TwoTargets
  MaxEntries = 2
  CommandAllowances <- CommandSets
  Limit = 24
  NoteLength = 4
  Base = 3
  MarkerLength = 6
  LineLengths = {2, 12}
  MostLines = 11
  Runner = rn
  Readers = {rn, rd}
  TextLengths = {2, 4}
  MaxLines = 4
  PageLimit = 12
  Retention = 2
  MaxDays = 3
  PagesSets <- PagesAllowances
INVARIANT DeskTells
INVARIANT RepliesFit
PROPERTY PagesRight
PROPERTY DeskEnds
CHECK_DEADLOCK FALSE
