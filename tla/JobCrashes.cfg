SPECIFICATION Spec
CONSTANTS
  Routes = {"native_generated", "oss_fuzz_existing"}
  Targets = {"t1", "t2"}
  ToolErrors = {}
  PolicyMayFail = FALSE
  Budget = 2
  MaxTransitions = 0
  MaxFailures = 2
  MaxGenerations = 1
  MaxTargets = 2
  MaxRecoveries = 1
  MaxImprovements = 1
  MaxCrashes = 1
  Commands = {"stop", "retarget", "repair-harness"}
  MaxCommands = 1
PROPERTIES ApprovedBeforeFuzzing EndedStaysEnded ReproducedKept
\* A job may be over, or wait for a person for ever.
CHECK_DEADLOCK FALSE
