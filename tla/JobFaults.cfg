SPECIFICATION Spec
CONSTANTS
  Routes = {"native_generated", "oss_fuzz_existing"}
  Targets = {"t1", "t2"}
  ToolErrors = {"tool"}
  PolicyMayFail = TRUE
  Budget = 1
  MaxTransitions = 0
  MaxFailures = 2
  MaxGenerations = 1
  MaxTargets = 2
  MaxRecoveries = 1
  MaxImprovements = 1
  MaxCrashes = 0
  Commands = {}
  MaxCommands = 0
INVARIANTS TypeOK AttemptsBounded FailuresStopTheJob RejectedNeverFuzzed
PROPERTIES JobSettles
\* A job may be over, or wait for a person for ever.
CHECK_DEADLOCK FALSE
