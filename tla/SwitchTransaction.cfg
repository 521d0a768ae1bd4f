SPECIFICATION Spec
CONSTANTS
  work = work
  home = home
  Accounts = {work, home}
  Nobody = Nobody
  Requests <- AllRequests
  Events = {"rotate", "cancel", "crash", "turn", "age"}
  MaxEvents = 2
  MaxGen = 3
  MaxRuns = 2
INVARIANTS
  TypeOK
  JournalCoversEffects
  JournalPhaseHonest
  QuietErrorsAreClean
  ResultIsTrue
  EffectsHaveConsent
PROPERTIES
  OnlyTargetIsLost
  NoInstallBeneathDaemon
  KeepsPromise
CHECK_DEADLOCK FALSE
