CONSTANTS
  Paths = {p1, p2, p3}
  UnknownPath = UnknownPath
  MaxTrackedPaths = 2
  MaxSequence = 5
SYMMETRY PathSymmetry
SPECIFICATION Spec
INVARIANTS NothingForgotten AcknowledgedIsGone UnhealthyIsNeverClean
