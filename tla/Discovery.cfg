SPECIFICATION FairSpec
CONSTANTS
  c1 = c1  NoCoin = NoCoin
  Coins = {c1}
  MaxEvents = 2  MaxSeen = 2  MaxFails = 2  MaxCrashes = 2  MaxEdits = 2
PROPERTIES KeepsBook ListedAtLast
CHECK_DEADLOCK FALSE
