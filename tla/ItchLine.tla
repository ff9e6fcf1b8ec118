------------------------------ MODULE ItchLine ------------------------------
(***************************************************************************)
(* One ITCH line as fh_itch_parse.c arbitrates it: the same MoldUDP64      *)
(* stream arrives on two multicast connections, either of which may lose,  *)
(* repeat or reorder packets.  A packet is parsed message by message by    *)
(* the line handler thread; only the clock moves meanwhile.                *)
(***************************************************************************)
EXTENDS GapList, FiniteSets

CONSTANTS
  Conn,         \* the connections of the line (primary, secondary)
  MaxSeqNo,     \* bound on the sequence numbers of a session
  MaxPktMsgs,   \* bound on msg_count
  MaxClock,     \* bound on time(NULL)
  MaxSessions,  \* bound on the sessions of a run
  SecondMsgs,   \* sequence numbers that carry a 'T' (seconds) message
  MilliMsgs     \* sequence numbers that carry an 'M' (milliseconds) message

ASSUME ItchAssumption ==
  /\ Conn # {}
  /\ MaxSeqNo \in Nat /\ MaxPktMsgs \in Nat /\ MaxClock \in Nat /\ MaxSessions \in Nat
  /\ SecondMsgs \subseteq Nat /\ MilliMsgs \subseteq Nat

VARIABLES
  next_seq_no,         \* line->next_seq_no
  gaps,                \* gaplist, from head to tail
  now,                 \* time(NULL)
  session,             \* how many sessions have begun
  pkt,                 \* the packet being parsed: connection, next message, messages left
  timestamp,           \* conn->timestamp: the last second and millisecond seen
  lost_messages,       \* stats.lost_messages, summed over the connections
  recovered_messages,  \* stats.recovered_messages, summed over the connections
  processed,           \* how often each message was processed to the end
  header,              \* the header built for the last message, and which one it was
  crashed,             \* TRUE once the code has followed a NULL gaplist
  unreported           \* history: what left the list minus what was counted for it

vars == <<next_seq_no, gaps, now, session, pkt, timestamp, lost_messages,
          recovered_messages, processed, header, crashed, unreported>>

SeqNo == 1..MaxSeqNo

NoPkt == [conn |-> CHOOSE c \in Conn : TRUE, seq |-> 0, left |-> -1]
NoHeader == [msg |-> 0, sec |-> 0, ms |-> 0]

Init ==
  /\ next_seq_no = 1
  /\ gaps = <<>>
  /\ now = 0
  /\ session = 1
  /\ pkt = NoPkt
  /\ timestamp = [c \in Conn |-> [sec |-> 0, ms |-> 0]]
  /\ lost_messages = 0
  /\ recovered_messages = 0
  /\ processed = [s \in SeqNo |-> 0]
  /\ header = NoHeader
  /\ crashed = FALSE
  /\ unreported = 0

-----------------------------------------------------------------------------
(* fh_itch_parse_pkt: every packet first flushes expired gaps.              *)

Idle == pkt = NoPkt /\ ~crashed

FlushUncounted ==   \* mutant: expired gaps are not added to lost_messages
  /\ \E k \in 0..Len(gaps) : ExpiredPrefix(gaps, now, k) /\ gaps' = DropPrefix(gaps, k)
  /\ UNCHANGED lost_messages

FlushExpired ==
  \E k \in 0..Len(gaps) :
    /\ ExpiredPrefix(gaps, now, k)
    /\ gaps' = DropPrefix(gaps, k)
    /\ lost_messages' = lost_messages + Sizes(SubSeq(gaps, 1, k))

\* Shorter than a MoldUDP64 header: counted and dropped.
ShortPkt ==
  /\ Idle
  /\ FlushExpired
  /\ UNCHANGED <<next_seq_no, now, session, pkt, timestamp, recovered_messages, processed,
                 header, crashed, unreported>>

\* mutant: the heartbeat's number is taken even when it is old
HeartbeatRewinds(s) ==
  /\ Idle /\ FlushExpired /\ next_seq_no' = s
  /\ UNCHANGED <<now, session, pkt, timestamp, recovered_messages, processed, header,
                 crashed, unreported>>

Heartbeat(s) ==
  /\ Idle
  /\ FlushExpired
  /\ next_seq_no' = IF s > next_seq_no THEN s ELSE next_seq_no
  /\ UNCHANGED <<now, session, pkt, timestamp, recovered_messages, processed, header,
                 crashed, unreported>>

\* The next session numbers its messages from 1 again; the gap list is kept.
EndOfSession ==
  /\ Idle
  /\ session < MaxSessions
  /\ session' = session + 1
  /\ FlushExpired
  /\ next_seq_no' = 1
  /\ processed' = [s \in SeqNo |-> 0]
  /\ UNCHANGED <<now, pkt, timestamp, recovered_messages, header, crashed, unreported>>

DataPkt(c, s, n) ==
  /\ Idle
  /\ s + n - 1 <= MaxSeqNo
  /\ FlushExpired
  /\ pkt' = [conn |-> c, seq |-> s, left |-> n]
  /\ UNCHANGED <<next_seq_no, now, session, timestamp, recovered_messages, processed,
                 header, crashed, unreported>>

\* After the last message gaplist->count is read, whether or not there is a list.
EndPkt ==
  /\ pkt.left = 0 /\ ~crashed
  /\ pkt' = NoPkt
  /\ crashed' = (GapMax = 0)
  /\ UNCHANGED <<next_seq_no, gaps, now, session, timestamp, lost_messages,
                 recovered_messages, processed, header, unreported>>

-----------------------------------------------------------------------------
(* fh_itch_parse_msg and fh_itch_is_duplicate.                              *)

Msg == pkt.seq

AtMsg == pkt.left > 0 /\ ~crashed

NextMsg == pkt' = [pkt EXCEPT !.seq = @ + 1, !.left = @ - 1]

TimeMsgs == SecondMsgs \cup MilliMsgs

\* How the message switch can end.  "malformed": bad length or type; "refused":
\* the plugin's hook for the message fails.  Both end the packet before the
\* message counts as processed; "unsent", a failing hook_msg_send, does so after.
\* Time messages have no hooks.
Outcome == IF Msg \in TimeMsgs THEN {"ok"} ELSE {"ok", "malformed", "refused", "unsent"}

Counted(o) == o \in {"ok", "unsent"}

Proceed(o) == IF o = "ok" THEN NextMsg ELSE pkt' = NoPkt

\* Time messages set the connection's clock; any other message gets a header
\* made from that clock.
Handle(o) ==
  /\ timestamp' =
       [timestamp EXCEPT ![pkt.conn] =
          [sec |-> IF Msg \in SecondMsgs THEN Msg ELSE @.sec,
           ms  |-> IF Msg \in SecondMsgs THEN 0
                   ELSE IF Msg \in MilliMsgs THEN Msg ELSE @.ms]]
  /\ header' = IF Msg \in TimeMsgs \/ o = "malformed" THEN NoHeader
               ELSE [msg |-> Msg, sec |-> timestamp[pkt.conn].sec, ms |-> timestamp[pkt.conn].ms]
  /\ processed' = IF Counted(o) THEN [processed EXCEPT ![Msg] = @ + 1] ELSE processed

\* Too short for its length field or for its body.
MsgTruncated ==
  /\ AtMsg
  /\ pkt' = NoPkt
  /\ UNCHANGED <<next_seq_no, gaps, now, session, timestamp, lost_messages,
                 recovered_messages, processed, header, crashed, unreported>>

MsgAdvancedLate(o) ==   \* mutant: the line advances after hook_msg_send
  /\ AtMsg /\ Msg = next_seq_no
  /\ Handle(o)
  /\ next_seq_no' = IF o = "ok" THEN next_seq_no + 1 ELSE next_seq_no
  /\ Proceed(o)
  /\ UNCHANGED <<gaps, now, session, lost_messages, recovered_messages, crashed, unreported>>

MsgInOrder(o) ==
  /\ AtMsg /\ Msg = next_seq_no
  /\ Handle(o)
  /\ next_seq_no' = IF Counted(o) THEN next_seq_no + 1 ELSE next_seq_no
  /\ Proceed(o)
  /\ UNCHANGED <<gaps, now, session, lost_messages, recovered_messages, crashed, unreported>>

\* A number was skipped: push the gap (or, without a list, count it as lost)
\* and go on as if in order.  Between the push and the count of what it dropped,
\* hook_alert is given rc and may leave its own status there, FH_OK or FH_ERROR:
\* then nothing is counted.
MsgEarly(o) ==
  /\ AtMsg /\ Msg > next_seq_no
  /\ IF GapMax > 0
       THEN /\ gaps' = PushGap(gaps, next_seq_no, Msg - next_seq_no, now)
            /\ \E rc \in {PushLost(gaps), 0} :
                 /\ lost_messages' = lost_messages + rc
                 /\ unreported' = unreported + PushLost(gaps) - rc
       ELSE /\ lost_messages' = lost_messages + (Msg - next_seq_no)
            /\ UNCHANGED <<gaps, unreported>>
  /\ Handle(o)
  /\ next_seq_no' = IF Counted(o) THEN Msg + 1 ELSE Msg
  /\ Proceed(o)
  /\ UNCHANGED <<now, session, recovered_messages, crashed>>

\* A number of an open gap.
MsgLate(o) ==
  /\ AtMsg /\ Msg < next_seq_no
  /\ \E i \in 1..Len(gaps) :
       /\ FindGap(gaps, Msg, i)
       /\ IF Counted(o)
            THEN /\ gaps' = DelGap(gaps, i, Msg)
                 /\ lost_messages' = lost_messages + DelLost(gaps, i, Msg)
                 /\ unreported' = unreported + DelDropped(gaps, i, Msg) - DelLost(gaps, i, Msg)
                 /\ recovered_messages' = recovered_messages + 1
            ELSE UNCHANGED <<gaps, lost_messages, recovered_messages, unreported>>
  /\ Handle(o)
  /\ Proceed(o)
  /\ UNCHANGED <<next_seq_no, now, session, crashed>>

\* An old number in no gap; looking for it needs a gap list.
MsgDuplicate ==
  /\ AtMsg /\ Msg < next_seq_no
  /\ \A i \in 1..Len(gaps) : Msg \notin Span(gaps[i])
  /\ IF GapMax = 0 THEN crashed' = TRUE /\ UNCHANGED pkt
                   ELSE NextMsg /\ UNCHANGED crashed
  /\ UNCHANGED <<next_seq_no, gaps, now, session, timestamp, lost_messages,
                 recovered_messages, processed, header, unreported>>

-----------------------------------------------------------------------------

Tick ==
  /\ now < MaxClock
  /\ now' = now + 1
  /\ UNCHANGED <<next_seq_no, gaps, session, pkt, timestamp, lost_messages,
                 recovered_messages, processed, header, crashed, unreported>>

ParseMsg ==
  \/ MsgTruncated
  \/ \E o \in Outcome : MsgInOrder(o)
  \/ \E o \in Outcome : MsgEarly(o)
  \/ \E o \in Outcome : MsgLate(o)
  \/ MsgDuplicate

Data == \E c \in Conn, s \in SeqNo, n \in 1..MaxPktMsgs : DataPkt(c, s, n)

\* The packets of one session; with heartbeats; and of several sessions.
SessionNext == ShortPkt \/ Data \/ EndPkt \/ ParseMsg \/ Tick

BeatNext == SessionNext \/ \E s \in SeqNo : Heartbeat(s)
SessionsNext == SessionNext \/ EndOfSession

BeatSpec == Init /\ [][BeatNext]_vars
SessionsSpec == Init /\ [][SessionsNext]_vars

-----------------------------------------------------------------------------

TypeOK ==
  /\ next_seq_no \in Nat \ {0}
  /\ gaps \in Seq(Gap)
  /\ now \in Nat
  /\ session \in Nat
  /\ pkt \in [conn : Conn, seq : Nat, left : Nat \cup {-1}]
  /\ timestamp \in [Conn -> [sec : Nat, ms : Nat]]
  /\ recovered_messages \in Nat
  /\ processed \in [SeqNo -> Nat]
  /\ header \in [msg : Nat, sec : Nat, ms : Nat]
  /\ crashed \in BOOLEAN

\* No message of a session is processed twice, whichever connections its
\* copies arrive on, in whatever order, and however its gap was split
\* (fh_itch_is_duplicate and the bookkeeping at the end of fh_itch_parse_msg).
ProcessedOnce == \A s \in SeqNo : processed[s] <= 1

\* An open gap never covers a message that was already processed and never
\* reaches the expected number: what find locates is really missing.
GapsAreMissing ==
  \A s \in Missing(gaps) : s < next_seq_no /\ (s \in SeqNo => processed[s] = 0)

\* What makes these hold, step after step: the records are in order, end below
\* the expected number, and no processed number is in one of them.
PktInv == pkt.left > 0 => pkt.seq > 0 /\ pkt.seq + pkt.left - 1 <= MaxSeqNo

LineInv ==
  /\ Ordered(gaps)
  /\ AllBelow(gaps, next_seq_no)
  /\ PktInv
  /\ \A s \in SeqNo : /\ processed[s] <= 1
                      /\ processed[s] > 0 => s < next_seq_no /\ s \notin Missing(gaps)

\* The list never holds more records than its pool has nodes, and never an
\* empty record, through any number of sessions, pushes, splits and flushes.
GapsBounded == Len(gaps) <= GapMax /\ \A i \in 1..Len(gaps) : gaps[i].size > 0

\* The line implements the abstract arbiter: each step of the parser advances,
\* recovers a number of an open gap, gives numbers up, or changes nothing that
\* the consumer of the line can see.
Arb == INSTANCE Arbiter WITH next <- next_seq_no, open <- Missing(gaps)

ImplementsArbiter == Arb!ArbiterSpec

\* The numbers below the expected one that are neither processed nor in a gap.
GivenUp ==
  {s \in SeqNo : s < next_seq_no /\ processed[s] = 0 /\ s \notin Missing(gaps)}

\* lost_messages is the "count of messages in gaps that could not be filled"
\* (common/fh_info.h:70): each number of the first session that is given up counts
\* once, and in a later one none goes uncounted, although the gaps of the session
\* before are still in the list, overlap the new numbers and expire with them.  Two
\* things are miscounted, and `unreported` holds exactly those: what a split on a full
\* list drops, and what a push on a full list drops when hook_alert overwrites rc.
LossCounted ==
  /\ lost_messages + unreported >= Cardinality(GivenUp)
  /\ session = 1 => lost_messages + unreported = Cardinality(GivenUp)

\* Over the end of a session, which resets the expected number and nothing else:
\* the gap list stays within its pool and no loss goes uncounted.
SessionsSound == TypeOK /\ GapsBounded /\ LossCounted

===============================================================================
