SPECIFICATION Spec
CONSTANTS
  Streams <- TwoStreams
  Timed <- FirstTimed
  NoStream <- Nobody
  MaxEvents <- TwoThenOne
  Liberties = {"close_session", "lose_link"}
INVARIANTS
  OneAttached
  TurnAttended
  ResultIsOwn
  NothingMissed
PROPERTIES
  InterruptsOwnTurn
CHECK_DEADLOCK FALSE
