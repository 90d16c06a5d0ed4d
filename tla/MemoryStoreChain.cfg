\* One chain grows, is archived and restored by two racing requests.
SPECIFICATION Spec
CONSTANTS
  t1 = t1
  t2 = t2
  e1 = e1
  e2 = e2
  e3 = e3
  e4 = e4
  e5 = e5
  p1 = p1
  p2 = p2
  None = None
  Tx = {t1, t2}
  Entry = {e1, e2, e3, e4, e5}
  Project = {p1}
  Migrated = {e1}
  Legacy = {e2}
  Home <- OneChainHome
  SeedLinks <- NoLinks
  Given = {}
  MaxTime = 3
  MaxAutoLinks = 0
  MaxLinks = 0
  Ops = {"revise", "archive", "restore"}
SYMMETRY IdSymmetry5
INVARIANTS
  TypeOK
  HistoryWellFormed
  LeafIsMine
  OneRevisionAsOf
  FeedTellsHistory
PROPERTIES
  ImplementsHistory
