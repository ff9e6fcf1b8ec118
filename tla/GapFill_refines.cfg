\* Three nodes, seven sequence numbers: the list fills up, splits at the head,
\* in the middle and at the tail, both with and without a free node.
CONSTANTS
  GapMax = 3
  GapTimeout = 1
  MaxSeqNo = 7
  MaxClock = 2
SPECIFICATION Spec
INVARIANTS ListSound LossNoticed
PROPERTY ImplementsTracker
