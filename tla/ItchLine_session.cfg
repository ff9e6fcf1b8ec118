\* Two sessions without heartbeats: the two records of the list fill up, and in the
\* second session a record off the head is split on the full list.
CONSTANTS
  GapMax = 2
  GapTimeout = 0
  Conn = {primary, secondary}
  MaxSeqNo = 4
  MaxPktMsgs = 2
  MaxClock = 1
  MaxSessions = 2
  SecondMsgs = {1}
  MilliMsgs = {}
SPECIFICATION SessionsSpec
INVARIANT SessionsSound
