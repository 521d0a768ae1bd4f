\* One event is enough: a user starts a daemon after the switch has stopped
\* the one it found and before it installs the target's login.
SPECIFICATION Spec
CONSTANTS
  a = a
  b = b
  Pids <- TwoPids
  Logins = {home, work}
  Target = work
  MaxThread = 1
  PageSize = 1
  MaxPages = 2
  MaxBirths = 3
  MaxEvents = 1
  None = None
PROPERTIES
  StartedFromTarget
CHECK_DEADLOCK FALSE
