SPECIFICATION PipelineSpec
CONSTANTS
  MinProfit = 1
  MaxInvestment = 2
  MaxDailyLoss = 4
  Cooldown = 0
  Opps <- MCOpps
  Pnls <- MCPnls
  WorstLoss = 3
  MaxTries = 3
  MaxDay = 0
  UseJito = TRUE
  Unparsable = {2}
  Outcomes <- MCFailures
  FailFee = 1
  Cap = 2
  Keep = 1
  Repeats = FALSE
  Reorgs = TRUE
  Crashes = TRUE
INVARIANTS
  PipelineTypeOK
  TrackedOnce
  TotalMatchesDb
PROPERTY
  ConfirmedForGood
