SPECIFICATION Spec
CONSTANTS
  a1 = a1
  a2 = a2
  p1 = p1
  p2 = p2
  x = x
  None = None
  Agent = {a1, a2}
  Project = {p1, p2}
  Doomed = {p1}
  Restricted = {a1}
  Home <- HomeOfBoth
  Reach <- ReachOfOne
  Related <- Neighbours
  Text = {x}
  Limit = 2
  MinItems = 2
  LinkCap = 1
  Seed <- OneEntry
  MaxEntries = 3
  MaxRuns = 2
  MaxBusy = 1
INVARIANTS TypeOK DerivedFromWasRead OneVersionInContext LogTellsRun 
CHECK_DEADLOCK FALSE
