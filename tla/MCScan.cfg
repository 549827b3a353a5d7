SPECIFICATION Spec
CONSTANTS
  Trees <- MCTrees
  Devices <- MCDevices
  Reserved = 4
  Classes = {2, 4}
  Finds <- MCFinds
  MaxChange = 3
  MaxScans = 4
  Nesting = 2
INVARIANTS TypeOK ItemsExact NoStaleRecord FindsExactly FailureReported NothingElseFails ScanInv SearchInv
PROPERTIES FindReturns
CHECK_DEADLOCK FALSE
