\* Two events that nobody waits for, in a switch with five inspections of up to
\* three pages.
SPECIFICATION FairSpec
CONSTANTS
  a = a
  b = b
  Pids <- TwoPids
  Logins = {home, work}
  Target = work
  MaxThread = 3
  PageSize = 1
  MaxPages = 3
  MaxBirths = 3
  MaxEvents = 2
  None = None
INVARIANTS
  TypeOK
PROPERTIES
  SparesTurns
  InstallsAfterExit
  FreshIsFresh
  InspectionEnds
CHECK_DEADLOCK FALSE
