SPECIFICATION SpecStored
CONSTANTS
  s1 = s1
  s2 = s2
  s3 = s3
  s4 = s4
  s5 = s5
  v1 = v1
  v2 = v2
  None = None
  Torn = Torn
  Pending = Pending
  Unreachable = Unreachable
  Failed = Failed
  Raised = Raised
  Nothing = Nothing
  Server <- FiveServers
  Correct = {s1, s2, s3, s4}
  Byzantine = {s5}
  F = 1
  M = 3
  Version = {v1}
  Valid <- AllValid
  Budget <- NoFault
SYMMETRY Symmetry
INVARIANTS ReturnedWhole
CHECK_DEADLOCK FALSE
