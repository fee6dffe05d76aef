CONSTANTS
  u1 = u1
  s1 = s1
  t0 = t0
  r0 = r0
  Users = {u1}
  Sessions = {s1, s2}
  Tokens = {t0, t1, t2, t3, forged}
  Forged = forged
  Requests = {r0, r1, r2, r3}
  RefreshTTL = 1
  MaxTime = 1
  None = None
SPECIFICATION LoggedInSpec
SYMMETRY LoggedInSymmetry
\* Every request happens once: the system may come to rest.
CHECK_DEADLOCK FALSE
INVARIANTS
  SingleExchange
  ReplayRevokes
  LogoutAllEndsEarlier
  LogoutRevokesUnlessRaced
  AbsoluteExpiry
  ListedAreRefreshable
PROPERTIES
  RotationRequiresActive
