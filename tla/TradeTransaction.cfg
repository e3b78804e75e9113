SPECIFICATION Spec
CONSTANTS
  Msgs <- MCMsgs
  Fee = 1
  Tip = 1
  Rent = 1
  MinProfit = 1
  MaxLoss = 2
  Prefund = 2
  Funds = 8
  Stock <- MCStock
  Refills <- MCRefills
  MaxPay = 3
  MaxTxs = 3
INVARIANTS
  HeldStaysHeld
  WorthIsBounded
PROPERTY
  IsAtomic
