SPECIFICATION FairSpec
CONSTANTS
  work = work
  home = home
  Accounts = {work, home}
  Nobody = Nobody
  Requests <- PlainRequest
  Events = {"login", "start", "death", "standalone", "cancel"}
  MaxEvents = 2
  MaxGen = 2
  MaxRuns = 1
PROPERTIES
  OutsiderSurvives
  RunEnds
CHECK_DEADLOCK FALSE
