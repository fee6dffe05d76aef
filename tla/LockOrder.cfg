CONSTANTS
  Requests = {r1, r2, r3}
  Sessions = {s1}
  Tokens = {t1}
  MaxConns = 2
  None = None
SPECIFICATION FairSpec
\* Every request happens once: the system may come to rest.
CHECK_DEADLOCK FALSE
INVARIANTS
  DeadlockShape
  PasswordSweepsOrdered
PROPERTY EveryCallEnds
