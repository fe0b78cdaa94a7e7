CONSTANTS
  c1 = c1
  r1 = r1
  k1 = k1
  k2 = k2
  NoCall = NoCall
  Calls = {c1}
  Ids = {c1}
  Requests = {r1}
  Closers = {k1, k2}
  IdOf <- OwnId
SPECIFICATION LoopSpec
INVARIANTS ClosedIsQuiet AtMostOneReply
PROPERTIES BrokenCallsReturn CloseEnds CallsReturn
CHECK_DEADLOCK FALSE
