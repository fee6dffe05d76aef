CONSTANTS
  Requests = {r1, r2, r3}
  Passwords = {p0, p1, p2}
  First = p0
  ResetTTL = 1
  MaxTime = 1
  None = None
SPECIFICATION Spec
SYMMETRY Symmetry
\* Every request happens once: the system may come to rest.
CHECK_DEADLOCK FALSE
INVARIANT EarlierSessionsEnded
PROPERTIES
  NoLostChange
  ResetSpendsLiveToken
  CredentialSpec
