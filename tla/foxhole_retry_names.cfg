SPECIFICATION Spec
CONSTANTS
  ann = ann
  bob = bob
  l1 = l1
  l2 = l2
  c1 = c1
  Members = {ann, bob}
  ByName <- TwoMembers
  Lines <- TwoLines
  Ids = {1, 2}
  CommandRuns = {c1}
  NoMember = NoMember
  NoReport = NoReport
  PageKinds = {"add", "retry"}
  Starts <- Some
  Allowances <- RetryAllowances
INVARIANT RetryNamesTheMissed
CHECK_DEADLOCK FALSE
