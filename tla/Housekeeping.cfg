SPECIFICATION Spec
CONSTANTS
  Inputs = {"seed", "a", "b", "c"}
  Features <- InputFeatures
  Content <- InputContent
  Seeds = {"seed", "a"}
  MaxFiles = 1
  RetryAfter <- RetryHours
  Interval = 1
  MaxEdits = 1
  MaxErrors = 3
  MaxCrashes = 1
INVARIANTS TypeOK CorpusCovered SessionKept BuildKept
PROPERTIES CompletedCleaned
