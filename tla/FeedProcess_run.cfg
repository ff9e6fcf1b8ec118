\* Two lines, the second disabled.
CONSTANTS
  NumLines = 2
  Enabled <- SampleConns
  Standalone = {TRUE, FALSE}
  MaxPackets = 2
  MaxFailures = 1
  MaxRequests = 1
SPECIFICATION FairSpec
INVARIANTS NothingForgotten CountersExact StatusFilled
PROPERTIES Shutdown Drained
CHECK_DEADLOCK FALSE
