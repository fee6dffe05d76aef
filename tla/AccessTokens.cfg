CONSTANTS
  Replicas = {p1, p2}
  Sessions = {s1}
  ConfiguredKey = k0
  GeneratedKeys = {k1, k2}
  Lifetimes = {1, 2}
  MaxTime = 2
  MaxBoots = 2
  None = None
SPECIFICATION FairSpec
\* A configuration may be refused, and the clock stops at MaxTime.
CHECK_DEADLOCK FALSE
INVARIANTS
  TokensEndWithSession
  TokensFollowTheKey
  ReplaysHaveACause
PROPERTIES
  SessionsSurviveRestarts
