CONSTANTS
  s1 = s1
  s2 = s2
  g = g
  SourcePaths = {s1, s2}
  GraphPaths = {g}
  UnknownPath = UnknownPath
  MaxTrackedPaths = 2
  MaxSequence = 4
  MaxVersion <- FewVersions
  MaxQueued = 1
  Mappers = {"byPath", "comparing"}
  Overlapping = FALSE
SPECIFICATION Spec
INVARIANTS CleanMeansCurrent GraphChangesStick
PROPERTIES NoReconciliationAcrossGraphs DisposalEnds
