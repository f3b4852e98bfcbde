SPECIFICATION Spec
CONSTANTS
  Native = FALSE
  Budget = 3
  Second = 2
  Checkpoint = 2
  MinCheckpoint = 1
  MinTriageCheckpoint = 1
  StallLimit = 1
  MinYieldSeconds = 2
  AflSeconds = 1
  AutoImprove = FALSE
  HarnessStrategy = FALSE
  OperatorAfl = FALSE
  MaxGenerations = 1
  MaxFailures = 2
  MaxSessions = 10
  MaxCrashes = 1
  MaxStops = 0
INVARIANTS AflCountedOnce
PROPERTIES FindingEndsSession LedgerKept
\* A campaign that is over waits for triage, a person or the agent.
CHECK_DEADLOCK FALSE
