SPECIFICATION Spec
CONSTANTS
  ann = ann
  bob = bob
  l1 = l1
  l2 = l2
  c1 = c1
  Members = {ann, bob}
  ByName <- TwoMembers
  Lines <- TwoLines
  Ids = {1, 2}
  CommandRuns = {c1}
  NoMember = NoMember
  NoReport = NoReport
  PageKinds = {"purge", "re-add", "removal", "add", "roster add", "retry"}
  Starts <- Some
  Allowances <- ActionAllowances
INVARIANT TypeOK
INVARIANT ReportTells
PROPERTY RuleSpec
INVARIANT StartsAsShown
PROPERTY RunsEnd
CHECK_DEADLOCK FALSE
