SPECIFICATION SpecStored
CONSTANTS
  s1 = s1
  s2 = s2
  s3 = s3
  s4 = s4
  s5 = s5
  v1 = v1
  v2 = v2
  None = None
  Torn = Torn
  Pending = Pending
  Unreachable = Unreachable
  Failed = Failed
  Raised = Raised
  Nothing = Nothing
  Server <- FourServers
  Correct = {s1, s2, s3}
  Byzantine = {s4}
  F = 1
  M = 1
  Version = {v1, v2}
  Valid <- AllValid
  Budget <- TwoLost
SYMMETRY Symmetry
INVARIANTS ReturnedWasPut
CHECK_DEADLOCK FALSE
