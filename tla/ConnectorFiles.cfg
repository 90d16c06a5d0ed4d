SPECIFICATION Spec
CONSTANTS
  Registry <- OneOfEach
  Mode <- ModeOfEach
  Config = "config.json"
  Project = {p1}
  MaxEdits = 1
  MaxRuns = 3
  MaxFaults = 2
INVARIANTS TypeOK NextCommandAccepted DriftIsOfTheUser DisconnectExact
PROPERTIES UserContentKept RollbackExact
CHECK_DEADLOCK FALSE
