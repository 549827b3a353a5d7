SPECIFICATION HeapSpec
CONSTANTS
  IdxWidth = 2
  Elements <- MCElements
INVARIANTS TypeOK HeapOrder NothingLost PutsOutLeast MovReady CheckPasses
PROPERTIES BecomesReady
