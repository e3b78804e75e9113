SPECIFICATION Spec
CONSTANTS
  Pools <- MCPools
  Offers <- MCOffers
  PumpFee = 30
  OrcaRate = 3000
  Slippage = 200
  Cu = 20
  Threshold = 2
  MaxMoves = 2
CHECK_DEADLOCK FALSE
INVARIANTS
  HonouredAsRead
  ConservativeSecondLeg
  ProfitFromSpread
  EmptyNeverSent
