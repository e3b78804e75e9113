SPECIFICATION Spec
CONSTANTS
  Scale = 8
  Investments <- MCInvestments
  MaxSingle = 2
  FeeKeep = 2
  WrapFee = 1
  Costs <- MCCosts
  MinWrap = 2
  Funds = 12
  MaxWraps = 2
  MaxTrades = 2
INVARIANTS
  OneHolder
  FeesKept
