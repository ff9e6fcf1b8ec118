\* A list of two records that six numbers overfill, with heartbeats.
CONSTANTS
  GapMax = 2
  GapTimeout = 0
  Conn = {primary}
  MaxSeqNo = 6
  MaxPktMsgs = 2
  MaxClock = 1
  MaxSessions = 1
  SecondMsgs = {}
  MilliMsgs = {}
SPECIFICATION BeatSpec
INVARIANTS ProcessedOnce GapsAreMissing
PROPERTY ImplementsArbiter
