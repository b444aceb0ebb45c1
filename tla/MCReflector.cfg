CONSTANTS
  Names = {n1, n2}
  MaxChanges = 4
  MaxDeltas = 2
SPECIFICATION FairSpec
INVARIANTS NothingLost
PROPERTIES NeverBack CatchesUp
CHECK_DEADLOCK FALSE
