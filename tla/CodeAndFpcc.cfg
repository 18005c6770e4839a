SPECIFICATION Spec
CONSTANTS
  Shape <- SmallShapes
  Data <- SmallData
  Points <- TwoPoints
  Size = 4
  Error <- FewErrors
  Chunks <- TwoChunks
INVARIANTS EliminationInvariant AnyDistinctSuffice Systematic RoundTrip HonestVerifies VerifiedAreConsistent DamageIsToggled
CHECK_DEADLOCK FALSE
