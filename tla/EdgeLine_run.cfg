CONSTANTS
  Kinds = {"executed", "attributed"}
  HB_ALARM_TIMEOUT = 1
  MaxSessions = 2
  MaxSend = 2
  MaxEvents = 1
  MaxFails = 1
SPECIFICATION Spec
INVARIANT StreamExact
PROPERTIES Delivered Exits
CHECK_DEADLOCK FALSE
