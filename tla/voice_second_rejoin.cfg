SPECIFICATION Spec
CONSTANTS
  Handlers = {h1, h2}
  Nobody = Nobody
  MaxServers = 4
  MaxGateways = 9
  ConnAllowances <- SecondRejoin
  SSRCs = {1, 2}
  HeldPerSSRC = 2
  DecryptRunLimit = 2
  FailureBurst = 1
  RcvAllowances <- RcvSets
  Causes = {"closed", "moved", "heartbeat", "silent", "dave"}
  Unknown = "unknown"
  MaxSockets = 3
  MaxSteps = 4
  StepsKept = 2
INVARIANT NeverTwoRejoins
CHECK_DEADLOCK FALSE
