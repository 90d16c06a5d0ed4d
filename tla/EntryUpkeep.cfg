CONSTANTS
  Request = {r1, r2}
  r1 = r1
  r2 = r2
  Seeds <- OldEntries
  MaxEntries = 5
  MaxRequests = 2
  HistoryCap = 2
SYMMETRY Symmetry
SPECIFICATION Spec
INVARIANTS TypeOK UpdatesLostOnlyByOverlap CompactedOnce 
PROPERTY UsedEntriesSurvive
CHECK_DEADLOCK FALSE
