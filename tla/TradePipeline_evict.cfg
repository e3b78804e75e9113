SPECIFICATION PipelineSpec
CONSTANTS
  MinProfit = 1
  MaxInvestment = 2
  MaxDailyLoss = 2
  Cooldown = 1
  Opps <- MCOpps
  Pnls <- MCPnls
  WorstLoss = 3
  MaxTries = 4
  MaxDay = 0
  UseJito = FALSE
  Unparsable = {}
  Outcomes <- MCOneOutcome
  FailFee = 1
  Cap = 2
  Keep = 1
  Repeats = FALSE
  Reorgs = FALSE
  Crashes = FALSE
PROPERTY EvictsOldest
