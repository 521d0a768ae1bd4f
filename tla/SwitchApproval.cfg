SPECIFICATION Spec
CONSTANTS
  work = work
  home = home
  Accounts = {work, home}
  Nobody = Nobody
  Requests <- PlainRequest
  Events = {"start", "death"}
  MaxEvents = 2
  MaxGen = 2
  MaxRuns = 1
PROPERTIES
  StopsApprovedProcess
CHECK_DEADLOCK FALSE
