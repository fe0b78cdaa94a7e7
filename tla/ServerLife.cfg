CONSTANTS
  c1 = c1
  c2 = c2
  Callers = {c1, c2}
  MaxCalls = 3
  MaxTasks = 6
SPECIFICATION LoopSpec
INVARIANTS NoStrayServer ClosedIsStopped
PROPERTIES CallersReturn
CHECK_DEADLOCK FALSE
