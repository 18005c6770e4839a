SPECIFICATION FairSpec
CONSTANTS
  s1 = s1
  s2 = s2
  s3 = s3
  s4 = s4
  s5 = s5
  v1 = v1
  v2 = v2
  None = None
  Torn = Torn
  Server <- FourServers
  Correct = {s1, s2, s3, s4}
  Byzantine = {}
  F = 1
  M = 2
  Version = {v1}
  Valid <- AllValid
  Budget <- OnePut
INVARIANT PutsAreStored
PROPERTY PutIsStored
CHECK_DEADLOCK FALSE
