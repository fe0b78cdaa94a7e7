SPECIFICATION LoopSpec
CONSTANTS
  Streams <- OneStream
  Timed <- OnlyFirst
  NoStream <- Nobody
  MaxEvents <- OneEvent
  Liberties = {"close_session", "lose_link", "send_malformed", "fail_handlers", "start_released"}
PROPERTIES
  TimedStreamsEnd
  WaitsEnd
  SessionFreed
CHECK_DEADLOCK FALSE
