CONSTANTS
  command = command
  call1 = call1
  call2 = call2
  key = key
  Operations = {a}
  Silent = {}
  Callers = {command, call1, call2, key}
  Method <- MethodOf
  IdleTimer = IdleTimer
  MaxIterations = 3
  MaxVersion = 1
SPECIFICATION WatchSpec
INVARIANTS OneAtATime InvalidationSticks
PROPERTIES ResultsStandStill ScheduledIsTaken NoticedIsBuilt
