SPECIFICATION Spec
CONSTANTS
  Jobs = {"j1"}
  Reasons = {"failed"}
  Findings = {"f1", "f2"}
  Judgments = {"v1"}
  Notices = {"n1"}
  Opinions <- SomeOpinions
  Threshold = 1
  KeyLimit = 1
  DigestLimit = 1
  Often = 3
  BatchLimit = 1
  MaxChanges = 3
  MaxFaults = 1
INVARIANTS TypeOK ToldOnce AlertsNotRepeated ViewMatches
PROPERTIES TroubleTold EventsTold
