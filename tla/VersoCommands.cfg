\* Three commands of two invocations, any two of them at once.
SPECIFICATION FairSpec
CONSTANTS
  ann = ann
  bob = bob
  nick = nick
  i1 = i1
  i2 = i2
  i3 = i3
  p1 = p1
  p2 = p2
  Processes <- TwoProcesses
  Ids <- ThreeIds
  People <- TwoPeople
  Nicks = {nick}
  Commands <- MCCommands
  Stores <- MCStores
  Nobody = Nobody
  NoCommand = NoCommand
  NoOne = NoOne
  Unused = Unused
  Removed = Removed
  NoIntent = NoIntent
  MaxGen = 1
  MaxCommands = 3
INVARIANTS
  TypeOK
PROPERTIES
  ActsSerially
  InstallsResolved
  NobodyWaits
CHECK_DEADLOCK FALSE
