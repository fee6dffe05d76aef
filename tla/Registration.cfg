CONSTANTS
  Requests = {r1, r2, r3, r4}
  Addresses = {a1}
  VerificationTTL = 1
  MaxTime = 1
  None = None
SPECIFICATION Spec
SYMMETRY Symmetry
\* Every request happens once: the system may come to rest.
CHECK_DEADLOCK FALSE
INVARIANTS
  OneAccountPerAddress
  VerifiedOnce
PROPERTIES
  AccountSpec
  ReportsItsRow
