\* Three versions and two builds: an update overtaken by a newer one, and an
\* archive uploaded again between the checksums and the download.
SPECIFICATION Spec
CONSTANTS
  first = first
  second = second
  Updaters <- TwoUpdaters
  Places = {bin, cellar}
  Homebrew = {cellar}
  MaxVersion = 3
  MaxBuild = 2
  MaxEvents = 2
SYMMETRY Interchangeable
INVARIANTS
  TypeOK
  InstalledIsNamed
PROPERTIES
  ReplacesOlderInUse
CHECK_DEADLOCK FALSE
