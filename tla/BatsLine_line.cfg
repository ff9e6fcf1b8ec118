\* One line whose gaps fit in the list.
CONSTANTS
  GapMax = 2
  GapTimeout = 0
  Line = {first}
  MaxSeqNo = 5
  MaxPktMsgs = 2
  MaxClock = 1
SPECIFICATION BatsSpec
INVARIANT GapsSound
PROPERTY CursorAdvances
