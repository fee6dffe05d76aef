CONSTANTS
  Digits <- MCDigits
  Number <- MCNumber
  Labels <- MCLabels
  Bodies = {b1}
  MaxFiles = 4
  Empty = Empty
SPECIFICATION LoadSpec
\* Load ends.
CHECK_DEADLOCK FALSE
INVARIANTS
  NoFileLost
  VersionsAscend
PROPERTIES
  LoadsWhatIsInOrder
