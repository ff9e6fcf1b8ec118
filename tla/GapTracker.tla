----------------------------- MODULE GapTracker -----------------------------
(***************************************************************************)
(* What the gap list promises its callers, with the list as a value: a     *)
(* caller that has reached sequence number next_seq_no opens a gap when a  *)
(* later number arrives, fills numbers that turn up late, and expires gaps *)
(* that stayed open too long.                                              *)
(***************************************************************************)
EXTENDS GapList

CONSTANTS
  MaxSeqNo,    \* bound on the sequence numbers of a run
  MaxClock     \* bound on time(NULL), which starts at 0

VARIABLES
  gaps,         \* the gap records from head to tail
  next_seq_no,  \* the caller's next expected sequence number
  now           \* time(NULL)

trackerVars == <<gaps, next_seq_no, now>>

TrackerInit == gaps = <<>> /\ next_seq_no = 1 /\ now = 0

OpenGap(n) ==
  /\ next_seq_no + n <= MaxSeqNo
  /\ gaps' = PushGap(gaps, next_seq_no, n, now)
  /\ next_seq_no' = next_seq_no + n
  /\ UNCHANGED now

FillGap(s) ==
  /\ \E i \in 1..Len(gaps) : FindGap(gaps, s, i) /\ gaps' = DelGap(gaps, i, s)
  /\ UNCHANGED <<next_seq_no, now>>

ExpireGaps ==
  /\ \E k \in 0..Len(gaps) : ExpiredPrefix(gaps, now, k) /\ gaps' = DropPrefix(gaps, k)
  /\ UNCHANGED <<next_seq_no, now>>

InOrder ==
  /\ next_seq_no < MaxSeqNo
  /\ next_seq_no' = next_seq_no + 1
  /\ UNCHANGED <<gaps, now>>

Tick == now < MaxClock /\ now' = now + 1 /\ UNCHANGED <<gaps, next_seq_no>>

TrackerNext ==
  \/ \E n \in 1..MaxSeqNo : OpenGap(n)
  \/ \E s \in 1..MaxSeqNo : FillGap(s)
  \/ ExpireGaps
  \/ InOrder
  \/ Tick

TrackerSpec == TrackerInit /\ [][TrackerNext]_trackerVars

===============================================================================
