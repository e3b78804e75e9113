SPECIFICATION FairSpec
CONSTANTS
  scanner = scanner  verifier = verifier
  Scanner = {scanner}  Verifier = {verifier}
  MaxFails = 2  MaxBusy = 2  MaxCrashes = 1
INVARIANTS PresentIsReal GuessNeedsContention
PROPERTIES AddressHeals PoolIsServed FoundIsServed
CHECK_DEADLOCK FALSE
