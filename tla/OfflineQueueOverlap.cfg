SPECIFICATION Spec
CONSTANTS
  Item = {i1, i2}
  Pass = {s1}
  Answers <- UpOrDown
  MaxLines = 2
  MaxDeaths = 0
INVARIANT NothingLost
