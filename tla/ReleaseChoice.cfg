\* All listings of up to three releases.
SPECIFICATION Spec
CONSTANTS
  Identifiers <- MCIdentifiers
  NaN = NaN
  Versions <- MCVersions
  MaxListed = 3
INVARIANTS
  OrdersVersions
  BestIsNewest
CHECK_DEADLOCK FALSE
