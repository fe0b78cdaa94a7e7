CONSTANTS
  c1 = c1
  c2 = c2
  Callers = {c1}
  MaxCalls = 2
SPECIFICATION Spec
INVARIANT ConnectionOwned
CHECK_DEADLOCK FALSE
