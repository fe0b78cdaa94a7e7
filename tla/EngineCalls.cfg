CONSTANTS
  c1 = c1
  c2 = c2
  c3 = c3
  k1 = k1
  NoCall = NoCall
  Calls = {c1, c2, c3}
  Ids = {c1, c2, c3}
  Requests = {}
  Closers = {k1}
  IdOf <- OwnId
SPECIFICATION Spec
SYMMETRY Symmetry
INVARIANTS EntriesExact BrokenRejectsAll OwnResponse
PROPERTIES ImplementsRpcCalls
CHECK_DEADLOCK FALSE
