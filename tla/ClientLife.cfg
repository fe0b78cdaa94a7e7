CONSTANTS
  t1 = t1
  t2 = t2
  Tasks = {t1, t2}
  Ops <- SomeOps
  MaxCalls = 5
SPECIFICATION LoopSpec
INVARIANTS ClosedLeavesNothing SessionIsLoaded
PROPERTIES TurnIsReceived
CHECK_DEADLOCK FALSE
