CONSTANTS
  Requests = {r1, r2}
  Passwords = {p0, p1}
  First = p0
  ResetTTL = 1
  MaxTime = 0
  None = None
SPECIFICATION Spec
SYMMETRY Symmetry
\* Every request happens once: the system may come to rest.
CHECK_DEADLOCK FALSE
INVARIANT SignsInAgain
