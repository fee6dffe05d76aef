CONSTANT Calls = {c1, c2}
SPECIFICATION FairSpec
\* The process ends.
CHECK_DEADLOCK FALSE
INVARIANTS
  CallsHaveThePool
  CleanExit
  ServingWasChecked
PROPERTIES
  HealthFollows
  ProcessEnds
