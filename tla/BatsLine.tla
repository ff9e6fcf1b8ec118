------------------------------ MODULE BatsLine ------------------------------
(***************************************************************************)
(* The BATS lines of one process as fh_bats_parse.c arbitrates them.  All  *)
(* lines share the static gaplist and the static gapnode, which points at  *)
(* the record being filled and outlives the packet that set it.  One       *)
(* thread parses a packet at a time, so a packet is one step.  Of the      *)
(* connections' counters only the one of lost messages is kept.            *)
(***************************************************************************)
EXTENDS GapCaller

CONSTANTS
  Line,         \* the lines of the process
  MaxPktMsgs    \* bound on msg_count

ASSUME BatsAssumption == MaxPktMsgs \in Nat

VARIABLES
  gapnode,             \* gapnode
  next_seq_nos,        \* line->next_seq_no of every line, between packets
  processed,           \* how often each message of a line was processed (at most Often)
  lost_messages,       \* stats.lost_messages, summed over the connections
  unreported           \* history: what del dropped minus what was counted for it

bats == <<list, gapnode, next_seq_nos, now, processed, lost_messages, unreported>>

SeqNo == 1..MaxSeqNo

\* A message may be processed again and again: count to two.
Often == 2

BatsInit ==
  /\ list = NewList
  /\ gapnode = NULL
  /\ next_seq_nos = [l \in Line |-> 1]
  /\ now = 0
  /\ processed = [l \in Line |-> [s \in SeqNo |-> 0]]
  /\ lost_messages = 0
  /\ unreported = 0

\* The thread is still there: no NULL was followed and the list can be walked.
Running == list.ok /\ ~Endless(list)

-----------------------------------------------------------------------------
(* A packet that is being parsed is a record of the list, the gap node, the *)
(* counters, resume (next_packet_seqno) and the counts for its own line.   *)

Packet(l) ==
  [list |-> list, node |-> gapnode, resume |-> next_seq_nos[l], count |-> processed[l],
   lost |-> lost_messages, dropped |-> unreported, stop |-> FALSE]

\* fh_bats_parse_duplicate: flush, then compare the packet's number with the
\* line's.  A duplicate and a missing list stop the packet.
FlushedUncounted(p) ==   \* mutant: expired gaps are not added to lost_messages
  [p EXCEPT !.list = HeapFlush(p.list, now).list]

Flushed(p) ==
  LET f == HeapFlush(p.list, now)
  IN  [p EXCEPT !.list = f.list, !.lost = @ + f.rc]

Late(p, s) ==
  IF GapMax = 0 THEN [p EXCEPT !.list = Crash(@), !.stop = TRUE]
  ELSE [p EXCEPT !.node = HeapFind(p.list, s), !.stop = (HeapFind(p.list, s) = NULL)]

Early(p, s) ==
  LET n == s - p.resume
      h == HeapPush(p.list, p.resume, n, now)
  IN  IF GapMax = 0 THEN [p EXCEPT !.lost = @ + n, !.resume = s]
      ELSE [p EXCEPT !.list = h.list, !.resume = s,
                     !.lost = @ + IF h.rc < 0 THEN n ELSE h.rc]

Arbitrate(p, s) ==
  LET f == Flushed(p) IN
  CASE s = f.resume -> f
    [] s < f.resume -> Late(f, s)
    [] s > f.resume -> Early(f, s)

\* One message of the loop of fh_bats_parse_pkt: with a gap node its number is
\* taken out of the gap list (the loop ends when the node is used up), without
\* one the line advances.
ParseMsgMovesLine(p, s) ==   \* mutant: the line follows a packet that fills a gap
  LET d == HeapDel(p.list, p.node, s)
  IN  IF p.stop THEN p
      ELSE IF p.node = NULL THEN [p EXCEPT !.count[s] = Min({@ + 1, Often}), !.resume = s + 1]
      ELSE [p EXCEPT !.count[s] = Min({@ + 1, Often}), !.resume = s + 1,
                     !.list = d.list, !.node = d.node, !.stop = (d.node = NULL)]

ParseMsg(p, s) ==
  LET d    == HeapDel(p.list, p.node, s)
      lost == IF d.rc > 0 THEN d.rc ELSE 0
      done == [p EXCEPT !.count[s] = Min({@ + 1, Often})]
  IN  IF p.stop \/ ~p.list.ok THEN p
      ELSE IF p.node = NULL THEN [done EXCEPT !.resume = @ + 1]
      ELSE [done EXCEPT !.list = d.list, !.node = d.node, !.stop = (d.node = NULL),
                        !.lost = @ + lost,
                        !.dropped = @ + HeapDropped(p.list, p.node, s) - lost]

ParseMsgs(p, s, k) == FoldLeft(ParseMsg, p, [i \in 1..k |-> s + i - 1])

-----------------------------------------------------------------------------

\* The thread parses a packet that starts at s and of which the first k
\* messages are good; a heartbeat has none.
ParsePkt(l, s, k) ==
  /\ Running
  /\ s + k - 1 <= MaxSeqNo
  /\ \E p \in {ParseMsgs(Arbitrate(Packet(l), s), s, k)} :
       /\ list' = p.list
       /\ gapnode' = p.node
       /\ next_seq_nos' = [next_seq_nos EXCEPT ![l] = p.resume]
       /\ processed' = [processed EXCEPT ![l] = p.count]
       /\ lost_messages' = p.lost
       /\ unreported' = p.dropped
  /\ UNCHANGED now

BatsTick ==
  /\ now < MaxClock
  /\ now' = now + 1
  /\ UNCHANGED <<list, gapnode, next_seq_nos, processed, lost_messages, unreported>>

BatsNext ==
  \/ \E l \in Line, s \in SeqNo, k \in 0..MaxPktMsgs : ParsePkt(l, s, k)
  \/ BatsTick

BatsSpec == BatsInit /\ [][BatsNext]_bats

-----------------------------------------------------------------------------

\* The line never goes back to a number it has passed (next_packet_seqno is
\* what every way out of fh_bats_parse_pkt restores).
CursorAdvances ==
  [][\A l \in Line : next_seq_nos'[l] >= next_seq_nos[l]]_bats

GivenUp(l) ==
  {s \in SeqNo : /\ s < next_seq_nos[l] /\ processed[l][s] = 0
                 /\ s \notin Missing(Records(list))}

\* lost_messages is the "count of messages in gaps that could not be filled"
\* (common/fh_info.h:70): a number that is neither processed nor in a gap any
\* more has been counted lost, up to what a split on a full list miscounts.
LossReported ==
  \A l \in Line : Cardinality(GivenUp(l)) <= lost_messages + unreported

\* Whatever record gapnode points at when the next packet uses it, the list keeps its
\* links and nodes, and a number it gives up has been reported.
GapsSound == ListIntact /\ LossReported

===============================================================================
