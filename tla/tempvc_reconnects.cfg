SPECIFICATION FairSpec
CONSTANTS
  Users = {1, 2}
  Channels = {1}
  Handlers = {h1, h2}
  Sweep = sweep
  Panel = panel
  Hub = hub
  Lobby = lobby
  Out = out
  NoOne = noOne
  NoRow = noRow
  NoRank = 2
  Ladders <- AllCav
  Allowances <- Reconnects
PROPERTY RecordSettles
