SPECIFICATION Spec
CONSTANTS
  Call = {c1, c2}
  Op = {"login", "password", "logout"}
  MaxCalls = 3
  MaxFaults = 1
INVARIANTS UsedOnce
PROPERTIES MovesOn CallsSettle
\* A tab that has made its last request is left alone.
CHECK_DEADLOCK FALSE
