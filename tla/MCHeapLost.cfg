SPECIFICATION HeapSpec
CONSTANTS
  IdxWidth = 3
  Elements <- MCElements
INVARIANTS NothingLost
