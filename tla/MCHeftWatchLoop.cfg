CONSTANTS
  transpile = transpile
  bundle = bundle
  lint = lint
  Operations = {transpile, bundle, lint}
  Dependencies <- TaskDependencies
  Weight <- TaskWeights
  Parallelism = 2
  MayThrow = {bundle}
  Changing = {transpile, bundle}
  MaxVersion = 1
  MaxCancels = 1
SPECIFICATION Spec
INVARIANTS NothingRunsBetween DependenciesFirst  SuccessIsCurrent
PROPERTIES RunsEnd 
