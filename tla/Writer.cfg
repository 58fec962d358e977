SPECIFICATION FairSpec
CONSTANTS
  BurstLimit = 2
  MaxFrames = 3
  MaxBytes = 4
  SubmitSize = 2
  Budget = 2
  SubmitCap = 1
  ControlCap = 2
INVARIANTS BatchFair BudgetHonest
PROPERTIES NoStarvation
CHECK_DEADLOCK FALSE
