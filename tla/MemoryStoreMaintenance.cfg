\* archive_stale over linked entries while they are revised; no symmetry, for
\* the liveness property.
SPECIFICATION FairSpec
CONSTANTS
  t1 = t1
  t2 = t2
  e1 = e1
  e2 = e2
  e3 = e3
  e4 = e4
  e5 = e5
  p1 = p1
  p2 = p2
  None = None
  Tx = {t1, t2}
  Entry = {e1, e2, e3}
  Project = {p1}
  Migrated = {e1, e2}
  Legacy = {}
  Home <- TwoChainsHome
  SeedLinks <- TwoLinked
  Given = {}
  MaxTime = 2
  MaxAutoLinks = 0
  MaxLinks = 0
  Ops = {"stale", "revise"}
PROPERTIES
  RequestsEnd
