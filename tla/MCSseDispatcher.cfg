CONSTANTS
  Client = {a, b}  MaxEvents = 2
SPECIFICATION SseSpec
INVARIANT DispatcherSurvives
CHECK_DEADLOCK FALSE
