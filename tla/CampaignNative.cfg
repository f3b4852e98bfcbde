SPECIFICATION Spec
CONSTANTS
  Native = TRUE
  Budget = 3
  Second = 2
  Checkpoint = 2
  MinCheckpoint = 1
  MinTriageCheckpoint = 1
  StallLimit = 1
  MinYieldSeconds = 2
  AflSeconds = 1
  AutoImprove = TRUE
  HarnessStrategy = FALSE
  OperatorAfl = TRUE
  MaxGenerations = 1
  MaxFailures = 2
  MaxSessions = 10
  MaxCrashes = 1
  MaxStops = 0
INVARIANTS TypeOK CountedOnce BudgetHolds
PROPERTIES EveryResultCounted
\* A campaign that is over waits for triage, a person or the agent.
CHECK_DEADLOCK FALSE
