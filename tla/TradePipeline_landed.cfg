SPECIFICATION FairPipeline
CONSTANTS
  MinProfit = 1
  MaxInvestment = 2
  MaxDailyLoss = 4
  Cooldown = 0
  Opps <- MCOpps
  Pnls <- MCFewPnls
  WorstLoss = 3
  MaxTries = 2
  MaxDay = 0
  UseJito = TRUE
  Unparsable = {1}
  Outcomes <- MCTwoOutcomes
  FailFee = 1
  Cap = 1
  Keep = 1
  Repeats = TRUE
  Reorgs = TRUE
  Crashes = TRUE
PROPERTIES
  LandedIsResolved
  BookedAsLanded
  ImplementsLedger
