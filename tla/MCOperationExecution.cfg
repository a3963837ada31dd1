CONSTANTS
  a = a
  b = b
  c = c
  d = d
  Operations = {a, b, c, d}
  NoOperation = NoOperation
  Dependencies <- ChainAndJoin
  Weight <- MixedWeights
  Parallelism = 2
  AllowOversubscription = FALSE
  WarningsAllowed = {a}
  Closable = {b}
  HookStatuses = {"FromCache"}
  RunnerStatuses = {"Success", "SuccessWithWarning", "Failure", "Skipped", "Aborted"}
  BailStatuses = {"Success", "Failure"}
  MaxAttempts = 2
SPECIFICATION Spec
INVARIANTS WithinBudget DependenciesSettled BlockedExactly
PROPERTIES HonestResult OnlyNoOpsAreLate ImplementsTaskGraph EventuallyFinished
