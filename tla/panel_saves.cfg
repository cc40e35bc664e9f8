SPECIFICATION Spec
CONSTANTS
  Saves = {s1, s2}
  Nobody = Nobody
  Values = {a, b}
  None = None
  Names = {n1, n2}
  Typed = Typed
  Deleted = Deleted
  MaxHubs = 2
  MaxMembers = 2
  PanelSets <- Allowances
  Requests = {q1, q2}
  SessionLifetime = 2
  PendingLifetime = 1
  MaxNow = 3
  MaxIDs = 3
  MaxRequests = 4
INVARIANT StoreHolds
PROPERTY SavesAsAsked
PROPERTY SavesEnd
CHECK_DEADLOCK FALSE
