CONSTANTS
  t1 = t1
  t2 = t2
  t3 = t3
  Tasks = {t1, t2}
  MaxCalls = 4
  MaxSpawns = 2
SPECIFICATION LoopSpec
INVARIANTS NoOrphan
PROPERTIES DeathIsReported ClosesEnd SendersReleased
CHECK_DEADLOCK FALSE
