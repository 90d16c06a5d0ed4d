SPECIFICATION Spec
CONSTANTS
  Item = {i1, i2}
  Pass = {s1, s2}
  Answers <- Anything
  MaxLines = 2
  MaxDeaths = 1
SYMMETRY Symmetry
INVARIANTS TypeOK LossNeedsOverlap DuplicateNeedsFailure
PROPERTY PassKeepsLines
CHECK_DEADLOCK FALSE
