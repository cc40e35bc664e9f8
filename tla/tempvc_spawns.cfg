SPECIFICATION Spec
CONSTANTS
  Users = {1, 2}
  Channels = {1, 2}
  Handlers = {h1, h2}
  Sweep = sweep
  Panel = panel
  Hub = hub
  Lobby = lobby
  Out = out
  NoOne = noOne
  NoRow = noRow
  NoRank = 2
  Ladders <- TwoLadders
  Allowances <- Spawns
SYMMETRY HandlerSymmetry
INVARIANT TypeOK
INVARIANT InFlightAccounted
INVARIANT PendingAccounted
PROPERTY RecordMatches
