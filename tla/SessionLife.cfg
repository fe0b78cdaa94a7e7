CONSTANTS
  c1 = c1
  c2 = c2
  Callers = {c1, c2}
  MaxCalls = 3
SPECIFICATION LoopSpec
INVARIANTS WaitersCounted OwnerExists ClosedForGood
PROPERTIES CallersReturn ClosesTakeEffect ImplementsOwnership
CHECK_DEADLOCK FALSE
