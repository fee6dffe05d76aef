CONSTANT
  MaxCalls = 2
SPECIFICATION Spec
\* Two calls are compared.
CHECK_DEADLOCK FALSE
INVARIANTS
  LoginHidesAccounts
  FaultsAreNotRefusals
  RefreshHidesReplay
