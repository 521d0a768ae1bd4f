\* Three generations, two commands and one outside event: a refresh before
\* and after another login, by Verso and by Codex.
SPECIFICATION FairSpec
CONSTANTS
  personal = personal
  work     = work
  Accounts <- TwoAccounts
  Nobody   = Nobody
  Unknown  = Unknown
  MaxGen    = 3
  MaxRuns   = 2
  MaxEvents = 1
INVARIANTS
  TypeOK
  RotationKept
  ExchangesOnce
PROPERTIES
  SelectedNeverSpent
  NeverBlamesCancel
  CommandEnds
CHECK_DEADLOCK FALSE
