SPECIFICATION Spec
CONSTANTS
  work = work
  home = home
  Accounts = {work, home}
  Nobody = Nobody
  Requests <- PlainRequest
  Events = {"start"}
  MaxEvents = 1
  MaxGen = 2
  MaxRuns = 1
PROPERTIES
  NeverBeneathTargetDaemon
CHECK_DEADLOCK FALSE
