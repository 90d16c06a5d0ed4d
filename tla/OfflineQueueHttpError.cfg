SPECIFICATION Spec
CONSTANTS
  Item = {i1}
  Pass = {s1}
  Answers <- Answered
  MaxLines = 2
  MaxDeaths = 0
INVARIANT NothingLost
