SPECIFICATION FairSpec
CONSTANTS
  MinProfit = 1
  MaxInvestment = 2
  MaxDailyLoss = 2
  Cooldown = 2
  Opps <- MCOpps
  Pnls <- MCPnls
  WorstLoss = 3
  MaxTries = 3
  MaxDay = 1
INVARIANTS
  TypeOK
  LossTripsBreaker
  OvershootBounded
  OutcomesAccounted
  ProjectedLossIsDead
PROPERTIES
  ReopensOnlyAfterQuiet
  BreakerReopens
