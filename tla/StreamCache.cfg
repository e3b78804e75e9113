SPECIFICATION FairSpec
CONSTANTS
  pool = pool
  bins = bins
  Accounts <- MCAccounts
  Start = 1
  Tip = 6
  Cold = 0
  Warm = 1
  Keep = 4
  Window = 2
  HashAge = 2
  Sleep = 3
  MaxWritten = 1
  MaxDrops = 2
CHECK_DEADLOCK FALSE
INVARIANTS
  NoMissedUpdate
  HashOfThisStream
PROPERTIES
  NeverBack
  CatchesUp
