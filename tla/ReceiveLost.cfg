CONSTANTS
  t1 = t1
  t2 = t2
  Tasks = {t1}
  Ops <- SomeOps
  MaxCalls = 4
SPECIFICATION LoopSpec
PROPERTIES ResponseEnds
CHECK_DEADLOCK FALSE
