CONSTANTS
  Users = {u1, u2}
  Sessions = {s1, s2}
  Tokens = {t1, t2, t3, forged}
  Forged = forged
  Requests = {r1, r2, r3}
  RefreshTTL = 1
  MaxTime = 1
  None = None
SPECIFICATION Spec
SYMMETRY Symmetry
\* Every request happens once: the system may come to rest.
CHECK_DEADLOCK FALSE
INVARIANTS
  TokenOwnership
  RevokeOwnedTruthful
PROPERTY LifecycleSpec
