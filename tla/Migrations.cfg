CONSTANTS
  Commands = {c1, c2, c3}
  Releases <- MCReleases
  MaxSteps = 2
  None = None
SPECIFICATION FairSpec
\* Every command runs once: the system comes to rest.
CHECK_DEADLOCK FALSE
INVARIANTS
  RecordsMatchSchema
PROPERTIES
  SuccessIsComplete
  HistorySpec
  CommandsEnd
