SPECIFICATION EstablishedSpec
CONSTANTS
  Users = {1, 2, 3}
  Channels = {1}
  Handlers = {h1, h2}
  Sweep = sweep
  Panel = panel
  Hub = hub
  Lobby = lobby
  Out = out
  NoOne = noOne
  NoRow = noRow
  NoRank = 3
  Ladders <- SomeCav
  Allowances <- Lives
SYMMETRY HandlerSymmetry
INVARIANT ViewCurrent
PROPERTY OwnersRight
