SPECIFICATION MCSpec
CONSTANTS
  p1 = p1  p2 = p2
  sol = sol  coin = coin
  scanner = scanner  verifier = verifier
  NoPair = NoPair  Listener = listener
  Pairs = {p1, p2}  Quote <- MCQuote  Mint <- MCMint
  Caller = {scanner, verifier}  Minimum <- MCMinimum
  MaxReserve = 1  MaxChanges = 1  MaxFails = 1  MaxCrashes = 1
INVARIANTS MetadataSaved
PROPERTIES PhantomsVanish StaysVisible
CHECK_DEADLOCK FALSE
