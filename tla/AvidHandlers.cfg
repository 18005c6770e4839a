SPECIFICATION MetricsSpec
CONSTANTS
  s1 = s1
  s2 = s2
  s3 = s3
  s4 = s4
  s5 = s5
  v1 = v1
  v2 = v2
  None = None
  Torn = Torn
  Server <- FourServers
  Correct = {s1}
  Byzantine = {s2, s3, s4}
  F = 1
  M = 2
  Version = {v1, v2}
  Valid <- OneInvalid
  Budget <- TwoPutsFaults
INVARIANTS TypeOK MemoryMatchesDisk StoredIsCounted
PROPERTIES CommittedFileIsFinal ImplementsSlot
CHECK_DEADLOCK FALSE
