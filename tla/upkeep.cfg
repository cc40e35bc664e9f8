SPECIFICATION Spec
CONSTANTS
  Speakers = {u, v}
  FilesSets <- FilesAllowances
  Modulus = 18
  Bases = {14}
  Silence = 2
  MaxDrift = 3
  Lengths = {1, 2}
  MaxDelay = 2
  MaxClock = 8
  MaxSent = 3
  Parts = {1, 2}
  MaxGuilds = 2
  MaxAsks = 5
  ListSets <- ListAllowances
  MaxWaiting = 2
  AviatorSets <- AviatorAllowances
  MaxLogins = 2
  MaxOutages = 5
  MaxEvents = 2
  WatchSets <- WatchAllowances
INVARIANT TypesOK
INVARIANT FilesTell
INVARIANT WatchTells
PROPERTY TrackHolds
PROPERTY ListRight
PROPERTY AviatorsRight
PROPERTY UpkeepSettles
CHECK_DEADLOCK FALSE
