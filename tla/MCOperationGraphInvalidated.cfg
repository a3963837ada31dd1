CONSTANTS
  command = command
  server = server
  Operations = {a}
  Silent = {}
  Callers = {command, server}
  Method <- MethodOf
  IdleTimer = IdleTimer
  MaxIterations = 2
  MaxVersion = 1
SPECIFICATION Spec
INVARIANTS InvalidatedRunsAgain
