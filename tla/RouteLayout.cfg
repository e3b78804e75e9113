SPECIFICATION LayoutSpec
CONSTANTS
  Coins <- AllCoins
  Tables <- MCTables
  Senders = {TRUE, FALSE}
INVARIANTS
  DedicatedIsServed
  SectionsFound
  FloorInItsUnit
