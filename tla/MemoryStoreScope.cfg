\* Creation, dated in the future too, assignment of a project, and links, for two
\* feeds.
SPECIFICATION Spec
CONSTANTS
  t1 = t1
  t2 = t2
  e1 = e1
  e2 = e2
  e3 = e3
  e4 = e4
  e5 = e5
  p1 = p1
  p2 = p2
  None = None
  Tx = {t1, t2}
  Entry = {e1, e2, e3, e4}
  Project = {p1, p2}
  Migrated = {e1, e2}
  Legacy = {}
  Home <- UnscopedHome
  SeedLinks <- TwoLinked
  Given = {3}
  MaxTime = 2
  MaxAutoLinks = 1
  MaxLinks = 1
  Ops = {"create","assign","revise","restore","link","unlink"}
SYMMETRY IdSymmetry4
PROPERTIES LinksSurviveRevision
INVARIANTS
  FeedGapFree
  ChainKeepsProject
\* The ids of new entries run out.
CHECK_DEADLOCK FALSE
