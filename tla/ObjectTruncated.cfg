SPECIFICATION ObjectsSpec
CONSTANTS
  s1 = s1
  s2 = s2
  s3 = s3
  short = short
  long = long
  None = None
  Torn = Torn
  Pending = Pending
  Nothing = Nothing
  Server <- ThreeServers
  M = 2
  Object <- OneName
  Content = {long}
  Chunks <- ChunksOf
  Place <- KeysOnServers
  Version <- Pieces
  PutBound = 1
  TroubleBound = 0
SYMMETRY Symmetry
INVARIANT ReturnedIsObject
CHECK_DEADLOCK FALSE
