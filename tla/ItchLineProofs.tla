--------------------------- MODULE ItchLineProofs ---------------------------
(***************************************************************************)
(* For any number of connections, any length of session, packet and gap    *)
(* list and any clock: a line types correctly, processes no message of a   *)
(* session twice, and implements the abstract arbiter.                     *)
(***************************************************************************)
EXTENDS ItchLine, GapListProofs

\* What a packet's first step, the flush, does to the gaps.
LEMMA FlushKeeps ==
  ASSUME TypeOK, LineInv, FlushExpired
  PROVE  /\ gaps' \in Seq(Gap)
         /\ Ordered(gaps')
         /\ AllBelow(gaps', next_seq_no)
         /\ Missing(gaps') \subseteq Missing(gaps)
<1>1. PICK k \in 0..Len(gaps) : gaps' = DropPrefix(gaps, k)
  BY DEF FlushExpired
<1>2. gaps \in Seq(Gap) /\ Ordered(gaps) /\ AllBelow(gaps, next_seq_no) /\ next_seq_no \in Nat
  BY DEF TypeOK, LineInv
<1> QED
  BY <1>1, <1>2, DropPrefixKeeps

\* The record NoPkt is a packet.
LEMMA NoPktType == NoPkt \in [conn : Conn, seq : Nat, left : Nat \cup {-1}] /\ NoPkt.left = -1
<1>1. (CHOOSE c \in Conn : TRUE) \in Conn
  BY ItchAssumption
<1> QED
  BY <1>1 DEF NoPkt

\* Where the parse goes after a message.
LEMMA ProceedKeeps ==
  ASSUME TypeOK, PktInv, AtMsg, NEW o, Proceed(o)
  PROVE  pkt' \in [conn : Conn, seq : Nat, left : Nat \cup {-1}] /\ PktInv'
<1>1. CASE o = "ok"
  <2>1. /\ pkt.conn \in Conn /\ pkt.seq \in Nat /\ pkt.left \in Nat /\ pkt.left > 0
        /\ pkt.seq + pkt.left - 1 <= MaxSeqNo
    BY DEF TypeOK, AtMsg, PktInv
  <2>2. /\ pkt' = [pkt EXCEPT !.seq = @ + 1, !.left = @ - 1]
        /\ pkt'.seq = pkt.seq + 1 /\ pkt'.left = pkt.left - 1
    BY <1>1 DEF Proceed, NextMsg, TypeOK
  <2>3. pkt' \in [conn : Conn, seq : Nat, left : Nat \cup {-1}]
    <3>1. pkt' = [conn |-> pkt.conn, seq |-> pkt.seq + 1, left |-> pkt.left - 1]
      BY <2>2 DEF TypeOK
    <3>2. pkt.seq + 1 \in Nat /\ pkt.left - 1 \in Nat \cup {-1}
      BY <2>1
    <3> QED
      BY <2>1, <3>1, <3>2
  <2> QED
    BY <2>1, <2>2, <2>3, ItchAssumption DEF PktInv
<1>2. CASE o # "ok"
  BY <1>2, NoPktType DEF Proceed, PktInv
<1> QED
  BY <1>1, <1>2

\* The message being parsed is one of the session.
LEMMA MsgType ==
  ASSUME TypeOK, PktInv, AtMsg
  PROVE  Msg \in SeqNo /\ Msg \in Nat /\ Msg > 0
<1>1. pkt.seq \in Nat /\ pkt.left \in Nat /\ pkt.left > 0
  BY DEF TypeOK, AtMsg
<1> QED
  BY <1>1, ItchAssumption DEF PktInv, AtMsg, Msg, SeqNo

\* What the message switch writes has its type.
LEMMA HandleType ==
  ASSUME TypeOK, PktInv, AtMsg, NEW o, Handle(o)
  PROVE  /\ timestamp' \in [Conn -> [sec : Nat, ms : Nat]]
         /\ header' \in [msg : Nat, sec : Nat, ms : Nat]
         /\ processed' \in [SeqNo -> Nat]
<1>1. Msg \in Nat /\ pkt.conn \in Conn
  BY MsgType DEF TypeOK
<1>2. timestamp[pkt.conn].sec \in Nat /\ timestamp[pkt.conn].ms \in Nat
  BY <1>1 DEF TypeOK
<1>3. timestamp' \in [Conn -> [sec : Nat, ms : Nat]]
  BY <1>1, <1>2, ItchAssumption DEF Handle, TypeOK
<1>4. header' \in [msg : Nat, sec : Nat, ms : Nat]
  BY <1>1, <1>2 DEF Handle, NoHeader
<1>5. processed' \in [SeqNo -> Nat]
  BY MsgType DEF Handle, TypeOK
<1> QED
  BY <1>3, <1>4, <1>5

\* What the message switch does to the count of processed messages.
LEMMA HandleCounts ==
  ASSUME TypeOK, PktInv, AtMsg, NEW o, Handle(o)
  PROVE  /\ ~Counted(o) => processed' = processed
         /\ Counted(o) => /\ processed'[Msg] = processed[Msg] + 1
                          /\ \A s \in SeqNo : s # Msg => processed'[s] = processed[s]
  BY MsgType DEF Handle, TypeOK

-----------------------------------------------------------------------------
(* Each action keeps the type invariant and the line invariant.             *)

Inv == TypeOK /\ LineInv

\* The packet actions: flush, then at most move the expected number up.
LEMMA PacketKeeps ==
  ASSUME Inv, FlushExpired, next_seq_no' \in Nat, next_seq_no' >= next_seq_no,
         UNCHANGED <<now, session, timestamp, recovered_messages, processed,
                     header, crashed>>,
         pkt' \in [conn : Conn, seq : Nat, left : Nat \cup {-1}], PktInv'
  PROVE  Inv'
<1>1. TypeOK /\ LineInv
  BY DEF Inv
<1>2. /\ gaps' \in Seq(Gap) /\ Ordered(gaps') /\ AllBelow(gaps', next_seq_no)
      /\ Missing(gaps') \subseteq Missing(gaps)
  BY <1>1, FlushKeeps
<1>3. next_seq_no \in Nat \ {0}
  BY <1>1 DEF TypeOK
<1>4. AllBelow(gaps', next_seq_no')
  <2> SUFFICES ASSUME NEW i \in 1..Len(gaps')
               PROVE  gaps'[i].seq_no + gaps'[i].size <= next_seq_no'
    BY DEF AllBelow
  <2>1. gaps'[i].seq_no + gaps'[i].size <= next_seq_no
    BY <1>2 DEF AllBelow
  <2>2. gaps'[i].seq_no \in Nat /\ gaps'[i].size \in Nat
    BY <1>2, RecordFields
  <2> QED
    BY <1>3, <2>1, <2>2
<1>5. TypeOK'
  BY <1>1, <1>2, <1>3 DEF TypeOK
<1>6. ASSUME NEW s \in SeqNo
      PROVE  /\ processed'[s] <= 1
             /\ processed'[s] > 0 => s < next_seq_no' /\ s \notin Missing(gaps')
  <2>1. s \in Nat /\ processed' = processed
    BY DEF SeqNo
  <2>2. /\ processed[s] <= 1
        /\ processed[s] > 0 => s < next_seq_no /\ s \notin Missing(gaps)
    BY <1>1 DEF LineInv
  <2> QED
    BY <1>2, <1>3, <2>1, <2>2
<1> QED
  BY <1>2, <1>4, <1>5, <1>6 DEF Inv, LineInv

\* The message actions: the expected number may move up, and the numbers from
\* the old one up to the message may open; a message that counts was not
\* processed before, is behind the expected number now and in no gap.
LEMMA MessageKeeps ==
  ASSUME Inv, AtMsg, NEW o, Handle(o), Proceed(o),
         next_seq_no' \in Nat, next_seq_no' >= next_seq_no,
         gaps' \in Seq(Gap), Ordered(gaps'), AllBelow(gaps', next_seq_no'),
         \A s \in Missing(gaps') : s \in Missing(gaps) \/ next_seq_no <= s,
         Counted(o) => /\ processed[Msg] = 0
                       /\ Msg < next_seq_no'
                       /\ Msg \notin Missing(gaps'),
         recovered_messages' \in Nat, UNCHANGED <<now, session, crashed>>
  PROVE  Inv'
<1>1. TypeOK /\ LineInv /\ PktInv
  BY DEF Inv, LineInv
<1>2. next_seq_no \in Nat \ {0} /\ Msg \in SeqNo /\ Msg \in Nat
  BY <1>1, MsgType DEF TypeOK
<1>3. pkt' \in [conn : Conn, seq : Nat, left : Nat \cup {-1}] /\ PktInv'
  BY <1>1, ProceedKeeps
<1>4. /\ timestamp' \in [Conn -> [sec : Nat, ms : Nat]]
      /\ header' \in [msg : Nat, sec : Nat, ms : Nat]
      /\ processed' \in [SeqNo -> Nat]
  BY <1>1, HandleType
<1>5. TypeOK'
  <2>1. next_seq_no' \in Nat \ {0}
    BY <1>2
  <2>2. now' \in Nat /\ session' \in Nat /\ crashed' \in BOOLEAN
    BY <1>1 DEF TypeOK
  <2> QED
    BY <1>3, <1>4, <2>1, <2>2 DEF TypeOK
<1>6. ASSUME NEW s \in SeqNo
      PROVE  /\ processed'[s] <= 1
             /\ processed'[s] > 0 => s < next_seq_no' /\ s \notin Missing(gaps')
  <2>1. s \in Nat
    BY DEF SeqNo
  <2>2. /\ processed[s] <= 1
        /\ processed[s] > 0 => s < next_seq_no /\ s \notin Missing(gaps)
    BY <1>1 DEF LineInv
  <2>3. /\ ~Counted(o) => processed' = processed
        /\ Counted(o) => /\ processed'[Msg] = processed[Msg] + 1
                         /\ s # Msg => processed'[s] = processed[s]
    BY <1>1, HandleCounts
  <2>4. CASE Counted(o) /\ s = Msg
    BY <1>2, <2>3, <2>4
  <2>5. CASE ~(Counted(o) /\ s = Msg)
    <3>1. processed'[s] = processed[s]
      BY <2>3, <2>5
    <3>2. s < next_seq_no => s < next_seq_no'
      BY <1>2, <2>1
    <3>3. s < next_seq_no /\ s \notin Missing(gaps) => s \notin Missing(gaps')
      BY <1>2, <2>1
    <3> QED
      BY <2>2, <3>1, <3>2, <3>3
  <2> QED
    BY <2>4, <2>5
<1> QED
  BY <1>3, <1>5, <1>6 DEF Inv, LineInv

\* What the invariant says of the gaps and of the numbers not processed yet.
LEMMA NumbersBelow ==
  ASSUME Inv
  PROVE  /\ next_seq_no \in Nat
         /\ gaps \in Seq(Gap) /\ Ordered(gaps) /\ AllBelow(gaps, next_seq_no)
         /\ \A s \in Missing(gaps) : s \in Nat /\ s < next_seq_no
         /\ \A s \in SeqNo : /\ processed[s] \in Nat
                             /\ s >= next_seq_no => processed[s] = 0
                             /\ s \in Missing(gaps) => processed[s] = 0
<1>1. /\ next_seq_no \in Nat
      /\ gaps \in Seq(Gap) /\ Ordered(gaps) /\ AllBelow(gaps, next_seq_no)
  BY DEF Inv, TypeOK, LineInv
<1>2. \A s \in Missing(gaps) : s \in Nat /\ s < next_seq_no
  BY <1>1, MissingBelow
<1>3. ASSUME NEW s \in SeqNo
      PROVE  /\ processed[s] \in Nat
             /\ s >= next_seq_no => processed[s] = 0
             /\ s \in Missing(gaps) => processed[s] = 0
  <2>1. processed[s] \in Nat /\ s \in Nat
    <3>1. processed \in [SeqNo -> Nat]
      BY DEF Inv, TypeOK
    <3>2. s \in Nat
      BY ItchAssumption DEF SeqNo
    <3> QED
      BY <3>1, <3>2
  <2>2. processed[s] > 0 => s < next_seq_no /\ s \notin Missing(gaps)
    BY DEF Inv, LineInv
  <2> QED
    BY <1>1, <2>1, <2>2
<1> QED
  BY <1>1, <1>2, <1>3

\* The expected message.
LEMMA InOrderKeeps ==
  ASSUME Inv, NEW o, MsgInOrder(o)
  PROVE  Inv'
<1>1. /\ AtMsg /\ Msg = next_seq_no /\ Handle(o) /\ Proceed(o)
      /\ next_seq_no' = IF Counted(o) THEN next_seq_no + 1 ELSE next_seq_no
      /\ UNCHANGED <<gaps, now, session, recovered_messages, crashed>>
  BY DEF MsgInOrder
<1>2. /\ next_seq_no \in Nat
      /\ gaps \in Seq(Gap) /\ Ordered(gaps) /\ AllBelow(gaps, next_seq_no)
      /\ \A s \in Missing(gaps) : s \in Nat /\ s < next_seq_no
  BY NumbersBelow
<1>3. Msg \in SeqNo /\ processed[Msg] = 0 /\ Msg \notin Missing(gaps)
  BY <1>1, <1>2, MsgType, NumbersBelow DEF Inv, LineInv
<1>4. next_seq_no' \in Nat /\ next_seq_no' >= next_seq_no
  BY <1>1, <1>2
<1>5. AllBelow(gaps', next_seq_no')
  <2> SUFFICES ASSUME NEW i \in 1..Len(gaps)
               PROVE  gaps[i].seq_no + gaps[i].size <= next_seq_no'
    BY <1>1 DEF AllBelow
  <2>1. gaps[i].seq_no + gaps[i].size <= next_seq_no
    BY <1>2 DEF AllBelow
  <2>2. gaps[i].seq_no \in Nat /\ gaps[i].size \in Nat
    BY <1>2, RecordFields
  <2> QED
    BY <1>2, <1>4, <2>1, <2>2
<1>6. Counted(o) => Msg < next_seq_no'
  BY <1>1, <1>2
<1>7. recovered_messages' \in Nat
  BY <1>1 DEF Inv, TypeOK
<1> QED
  BY <1>1, <1>2, <1>3, <1>4, <1>5, <1>6, <1>7, MessageKeeps

\* A message above the expected one opens the numbers in between.
LEMMA EarlyOpens ==
  ASSUME Inv, NEW o, MsgEarly(o)
  PROVE  /\ Msg \in SeqNo /\ Msg \in Nat /\ processed[Msg] = 0 /\ Msg > next_seq_no
         /\ gaps' \in Seq(Gap) /\ Ordered(gaps') /\ AllBelow(gaps', Msg)
         /\ \A s \in Missing(gaps') : s \in Missing(gaps) \/ (next_seq_no <= s /\ s < Msg)
<1>1. /\ AtMsg /\ Msg > next_seq_no /\ Handle(o) /\ Proceed(o)
      /\ next_seq_no' = IF Counted(o) THEN Msg + 1 ELSE Msg
      /\ UNCHANGED <<now, session, recovered_messages, crashed>>
  BY DEF MsgEarly
<1>2. gaps' = IF GapMax > 0 THEN PushGap(gaps, next_seq_no, Msg - next_seq_no, now) ELSE gaps
  BY DEF MsgEarly
<1>3. /\ next_seq_no \in Nat
      /\ gaps \in Seq(Gap) /\ Ordered(gaps) /\ AllBelow(gaps, next_seq_no)
      /\ \A s \in Missing(gaps) : s \in Nat /\ s < next_seq_no
  BY NumbersBelow
<1>4. Msg \in SeqNo /\ Msg \in Nat /\ processed[Msg] = 0
  BY <1>1, <1>3, MsgType, NumbersBelow DEF Inv, LineInv
<1>5. now \in Nat /\ Msg - next_seq_no \in Nat
  BY <1>1, <1>3, <1>4 DEF Inv, TypeOK
<1>6. /\ gaps' \in Seq(Gap) /\ Ordered(gaps') /\ AllBelow(gaps', Msg)
      /\ \A s \in Missing(gaps') : s \in Missing(gaps) \/ (next_seq_no <= s /\ s < Msg)
  <2>1. CASE GapMax > 0
    <3>1. /\ gaps' \in Seq(Gap) /\ Ordered(gaps')
          /\ Missing(gaps') \subseteq
               Missing(gaps) \cup (next_seq_no .. (next_seq_no + (Msg - next_seq_no) - 1))
          /\ AllBelow(gaps', next_seq_no + (Msg - next_seq_no))
      BY <1>2, <1>3, <1>5, <2>1, PushGapKeeps
    <3>2. next_seq_no + (Msg - next_seq_no) = Msg
      BY <1>3, <1>4
    <3> QED
      BY <1>3, <1>4, <3>1, <3>2
  <2>2. CASE ~(GapMax > 0)
    <3>1. AllBelow(gaps, Msg)
      <4> SUFFICES ASSUME NEW i \in 1..Len(gaps)
                   PROVE  gaps[i].seq_no + gaps[i].size <= Msg
        BY DEF AllBelow
      <4>1. gaps[i].seq_no + gaps[i].size <= next_seq_no
        BY <1>3 DEF AllBelow
      <4>2. gaps[i].seq_no \in Nat /\ gaps[i].size \in Nat
        BY <1>3, RecordFields
      <4> QED
        BY <1>1, <1>3, <1>4, <4>1, <4>2
    <3> QED
      BY <1>2, <1>3, <2>2, <3>1
  <2> QED
    BY <2>1, <2>2
<1> QED
  BY <1>1, <1>4, <1>6

\* A message above the expected one.
LEMMA EarlyKeeps ==
  ASSUME Inv, NEW o, MsgEarly(o)
  PROVE  Inv'
<1>1. /\ AtMsg /\ Handle(o) /\ Proceed(o)
      /\ next_seq_no' = IF Counted(o) THEN Msg + 1 ELSE Msg
      /\ UNCHANGED <<now, session, recovered_messages, crashed>>
  BY DEF MsgEarly
<1>2. /\ next_seq_no \in Nat /\ recovered_messages' \in Nat
      /\ \A s \in Missing(gaps) : s \in Nat /\ s < next_seq_no
  BY <1>1, NumbersBelow DEF Inv, TypeOK
<1>3. /\ Msg \in SeqNo /\ Msg \in Nat /\ processed[Msg] = 0 /\ Msg > next_seq_no
      /\ gaps' \in Seq(Gap) /\ Ordered(gaps') /\ AllBelow(gaps', Msg)
      /\ \A s \in Missing(gaps') : s \in Missing(gaps) \/ (next_seq_no <= s /\ s < Msg)
  BY EarlyOpens
<1>4. next_seq_no' \in Nat /\ next_seq_no' >= Msg /\ next_seq_no' >= next_seq_no
  BY <1>1, <1>2, <1>3
<1>5. AllBelow(gaps', next_seq_no')
  <2> SUFFICES ASSUME NEW i \in 1..Len(gaps')
               PROVE  gaps'[i].seq_no + gaps'[i].size <= next_seq_no'
    BY DEF AllBelow
  <2>1. gaps'[i].seq_no + gaps'[i].size <= Msg
    BY <1>3 DEF AllBelow
  <2>2. gaps'[i].seq_no \in Nat /\ gaps'[i].size \in Nat
    BY <1>3, RecordFields
  <2> QED
    BY <1>3, <1>4, <2>1, <2>2
<1>6. Msg \notin Missing(gaps') /\ (Counted(o) => Msg < next_seq_no')
  BY <1>1, <1>2, <1>3
<1>7. \A s \in Missing(gaps') : s \in Missing(gaps) \/ next_seq_no <= s
  BY <1>3
<1> QED
  BY <1>1, <1>2, <1>3, <1>4, <1>5, <1>6, <1>7, MessageKeeps

\* A message of a gap takes its number out of it.
LEMMA LateFills ==
  ASSUME Inv, NEW o, MsgLate(o)
  PROVE  /\ Msg \in SeqNo /\ Msg \in Missing(gaps) /\ processed[Msg] = 0
         /\ recovered_messages' \in Nat
         /\ gaps' \in Seq(Gap) /\ Ordered(gaps') /\ AllBelow(gaps', next_seq_no')
         /\ Missing(gaps') \subseteq Missing(gaps)
         /\ Counted(o) => Msg \notin Missing(gaps')
         /\ ~Counted(o) => gaps' = gaps
<1>1. /\ AtMsg /\ Msg < next_seq_no /\ Handle(o) /\ Proceed(o)
      /\ UNCHANGED <<next_seq_no, now, session, crashed>>
  BY DEF MsgLate
<1>2. PICK i \in 1..Len(gaps) :
        /\ FindGap(gaps, Msg, i)
        /\ Counted(o) => /\ gaps' = DelGap(gaps, i, Msg)
                         /\ recovered_messages' = recovered_messages + 1
        /\ ~Counted(o) => UNCHANGED <<gaps, recovered_messages>>
  BY DEF MsgLate
<1>3. /\ next_seq_no \in Nat
      /\ gaps \in Seq(Gap) /\ Ordered(gaps) /\ AllBelow(gaps, next_seq_no)
  BY NumbersBelow
<1>4. Msg \in SeqNo /\ Msg \in Missing(gaps) /\ processed[Msg] = 0
  <2>1. Msg \in SeqNo
    BY <1>1, MsgType DEF Inv, LineInv
  <2>2. Msg \in Missing(gaps)
    BY <1>2 DEF FindGap, Missing
  <2> QED
    BY <2>1, <2>2, NumbersBelow
<1>5. recovered_messages' \in Nat
  BY <1>2 DEF Inv, TypeOK
<1>6. /\ gaps' \in Seq(Gap) /\ Ordered(gaps') /\ AllBelow(gaps', next_seq_no')
      /\ Missing(gaps') \subseteq Missing(gaps)
      /\ Counted(o) => Msg \notin Missing(gaps')
  <2>1. CASE Counted(o)
    <3>1. Fills(gaps, DelGap(gaps, i, Msg), Msg)
      BY <1>2, <1>3, DelGapFills
    <3> QED
      BY <1>1, <1>2, <1>3, <2>1, <3>1 DEF Fills
  <2>2. CASE ~Counted(o)
    BY <1>1, <1>2, <1>3, <2>2
  <2> QED
    BY <2>1, <2>2
<1> QED
  BY <1>2, <1>4, <1>5, <1>6

\* A message that fills part of a gap.
LEMMA LateKeeps ==
  ASSUME Inv, NEW o, MsgLate(o)
  PROVE  Inv'
<1>1. /\ AtMsg /\ Msg < next_seq_no /\ Handle(o) /\ Proceed(o)
      /\ UNCHANGED <<next_seq_no, now, session, crashed>>
  BY DEF MsgLate
<1>2. /\ Msg \in SeqNo /\ processed[Msg] = 0 /\ recovered_messages' \in Nat
      /\ gaps' \in Seq(Gap) /\ Ordered(gaps') /\ AllBelow(gaps', next_seq_no')
      /\ Missing(gaps') \subseteq Missing(gaps)
      /\ Counted(o) => Msg \notin Missing(gaps')
  BY LateFills
<1>3. next_seq_no \in Nat
  BY NumbersBelow
<1>4. /\ next_seq_no' \in Nat /\ next_seq_no' >= next_seq_no /\ Msg < next_seq_no'
      /\ \A s \in Missing(gaps') : s \in Missing(gaps) \/ next_seq_no <= s
  BY <1>1, <1>2, <1>3
<1> QED
  BY <1>1, <1>2, <1>3, <1>4, MessageKeeps

\* A message that was seen before.
LEMMA DuplicateKeeps ==
  ASSUME Inv, MsgDuplicate
  PROVE  Inv'
<1>1. /\ AtMsg /\ crashed' \in BOOLEAN /\ (pkt' = pkt \/ Proceed("ok"))
      /\ UNCHANGED <<next_seq_no, gaps, now, session, timestamp, recovered_messages,
                     processed, header>>
  BY DEF MsgDuplicate, Proceed, Inv, TypeOK
<1>2. pkt' \in [conn : Conn, seq : Nat, left : Nat \cup {-1}] /\ PktInv'
  <2>1. CASE pkt' = pkt
    BY <2>1 DEF Inv, TypeOK, LineInv, PktInv
  <2>2. CASE Proceed("ok")
    BY <1>1, <2>2, ProceedKeeps DEF Inv, LineInv
  <2> QED
    BY <1>1, <2>1, <2>2
<1>3. TypeOK'
  BY <1>1, <1>2 DEF Inv, TypeOK
<1> QED
  BY <1>1, <1>2, <1>3 DEF Inv, LineInv

\* Every step of a session, heartbeats included, keeps the invariant.
LEMMA StepKeeps ==
  ASSUME Inv, [BeatNext]_vars
  PROVE  Inv'
<1>1. TypeOK /\ PktInv /\ next_seq_no \in Nat /\ next_seq_no >= next_seq_no
  BY DEF Inv, TypeOK, LineInv
<1>2. pkt \in [conn : Conn, seq : Nat, left : Nat \cup {-1}]
  BY <1>1 DEF TypeOK
<1>3. CASE ShortPkt
  <2>1. FlushExpired /\ UNCHANGED <<next_seq_no, now, session, pkt, timestamp,
                                    recovered_messages, processed, header, crashed>>
    BY <1>3 DEF ShortPkt
  <2>2. PktInv'
    BY <1>1, <2>1 DEF PktInv
  <2> QED
    BY <1>1, <1>2, <2>1, <2>2, PacketKeeps
<1>4. CASE \E s \in SeqNo : Heartbeat(s)
  <2>1. PICK s \in SeqNo : Heartbeat(s)
    BY <1>4
  <2>2. /\ FlushExpired
        /\ UNCHANGED <<now, session, pkt, timestamp, recovered_messages, processed,
                       header, crashed>>
        /\ next_seq_no' = IF s > next_seq_no THEN s ELSE next_seq_no
    BY <2>1 DEF Heartbeat
  <2>3. PktInv'
    BY <1>1, <2>2 DEF PktInv
  <2>4. next_seq_no' \in Nat /\ next_seq_no' >= next_seq_no
    BY <1>1, <2>2 DEF SeqNo
  <2> QED
    BY <1>1, <1>2, <2>2, <2>3, <2>4, PacketKeeps
<1>5. CASE Data
  <2>1. PICK c \in Conn, s \in SeqNo, n \in 1..MaxPktMsgs : DataPkt(c, s, n)
    BY <1>5 DEF Data
  <2>2. /\ FlushExpired
        /\ pkt' = [conn |-> c, seq |-> s, left |-> n]
        /\ s + n - 1 <= MaxSeqNo
        /\ UNCHANGED <<next_seq_no, now, session, timestamp, recovered_messages,
                       processed, header, crashed>>
    BY <2>1 DEF DataPkt
  <2>3. s \in Nat /\ s > 0 /\ n \in Nat
    BY ItchAssumption DEF SeqNo
  <2>4. pkt' \in [conn : Conn, seq : Nat, left : Nat \cup {-1}] /\ PktInv'
    BY <2>2, <2>3 DEF PktInv
  <2> QED
    BY <1>1, <2>2, <2>4, PacketKeeps
<1>6. CASE EndPkt \/ MsgTruncated
  <2>1. /\ pkt' = NoPkt /\ crashed' \in BOOLEAN
        /\ UNCHANGED <<next_seq_no, gaps, now, session, timestamp, recovered_messages,
                       processed, header>>
    BY <1>1, <1>6 DEF EndPkt, MsgTruncated, TypeOK
  <2>2. pkt' \in [conn : Conn, seq : Nat, left : Nat \cup {-1}] /\ PktInv'
    BY <2>1, NoPktType DEF PktInv
  <2>3. TypeOK'
    BY <1>1, <2>1, <2>2 DEF TypeOK
  <2> QED
    BY <2>1, <2>2, <2>3 DEF Inv, LineInv
<1>7. CASE Tick
  <2>1. /\ now' = now + 1
        /\ UNCHANGED <<next_seq_no, gaps, session, pkt, timestamp, recovered_messages,
                       processed, header, crashed>>
    BY <1>7 DEF Tick
  <2> QED
    BY <2>1 DEF Inv, TypeOK, LineInv, PktInv
<1>8. CASE UNCHANGED vars
  BY <1>8 DEF vars, Inv, TypeOK, LineInv, PktInv
<1>9. CASE \/ \E o \in Outcome : MsgInOrder(o)
           \/ \E o \in Outcome : MsgEarly(o)
           \/ \E o \in Outcome : MsgLate(o)
           \/ MsgDuplicate
  BY <1>9, InOrderKeeps, EarlyKeeps, LateKeeps, DuplicateKeeps
<1> QED
  BY <1>3, <1>4, <1>5, <1>6, <1>7, <1>8, <1>9 DEF BeatNext, SessionNext, ParseMsg

\* The initial state satisfies the invariant.
LEMMA InitKeeps == Init => Inv
<1> SUFFICES ASSUME Init PROVE Inv
  OBVIOUS
<1>1. gaps = <<>> /\ next_seq_no = 1 /\ Missing(gaps) = {}
  BY DEF Init, Missing
<1>2. TypeOK
  <2>1. next_seq_no \in Nat \ {0} /\ gaps \in Seq(Gap) /\ now \in Nat /\ session \in Nat
    BY DEF Init
  <2>2. pkt \in [conn : Conn, seq : Nat, left : Nat \cup {-1}]
    BY NoPktType DEF Init
  <2>3. timestamp \in [Conn -> [sec : Nat, ms : Nat]]
    BY DEF Init
  <2>4. header \in [msg : Nat, sec : Nat, ms : Nat]
    BY DEF Init, NoHeader
  <2>5. recovered_messages \in Nat /\ processed \in [SeqNo -> Nat] /\ crashed \in BOOLEAN
    BY DEF Init
  <2> QED
    BY <2>1, <2>2, <2>3, <2>4, <2>5 DEF TypeOK
<1>3. Ordered(gaps) /\ AllBelow(gaps, next_seq_no)
  BY <1>1 DEF Ordered, AllBelow
<1>4. PktInv
  BY NoPktType DEF Init, PktInv
<1>5. \A s \in SeqNo : processed[s] = 0
  BY DEF Init
<1> QED
  BY <1>1, <1>2, <1>3, <1>4, <1>5 DEF Inv, LineInv

\* The invariant holds throughout a session.
THEOREM Invariance == BeatSpec => []Inv
  BY InitKeeps, StepKeeps, PTL DEF BeatSpec

\* The variables of a line keep their types (fh_itch_parse.c, all operations of
\* a session).
THEOREM TypeCorrect == BeatSpec => []TypeOK
<1>1. Inv => TypeOK
  BY DEF Inv
<1> QED
  BY <1>1, Invariance, PTL

\* fh_itch_is_duplicate and the gap list together let no message of a session
\* through twice.
THEOREM NeverTwice == BeatSpec => []ProcessedOnce
<1>1. Inv => ProcessedOnce
  BY DEF Inv, LineInv, ProcessedOnce
<1> QED
  BY <1>1, Invariance, PTL

\* What fh_shr_gap_fill_find locates is really missing.
THEOREM GapsMissing == BeatSpec => []GapsAreMissing
<1>1. Inv => GapsAreMissing
  BY NumbersBelow DEF GapsAreMissing
<1> QED
  BY <1>1, Invariance, PTL

-----------------------------------------------------------------------------
(* The line implements the abstract arbiter.                                *)

\* A packet's first step gives numbers up and may move the line on.
LEMMA PacketSkips ==
  ASSUME Inv, FlushExpired, next_seq_no' \in Nat, next_seq_no' >= next_seq_no,
         UNCHANGED processed
  PROVE  Arb!ArbiterNext
<1>1. Missing(gaps') \subseteq Missing(gaps)
  BY FlushKeeps DEF Inv
<1>2. Arb!Skip
  BY <1>1 DEF Arb!Skip, Arb!ReachUpTo
<1> QED
  BY <1>2 DEF Arb!ArbiterNext

\* A message that counts is the next one or a recovered one.
LEMMA MessageArbitrated ==
  ASSUME Inv, NEW o, MsgInOrder(o) \/ MsgEarly(o) \/ MsgLate(o)
  PROVE  Arb!ArbiterNext \/ UNCHANGED Arb!arbiterVars
<1>1. /\ next_seq_no \in Nat
      /\ Msg \in SeqNo /\ Msg \in Nat
      /\ Counted(o) => processed' = [processed EXCEPT ![Msg] = @ + 1]
      /\ ~Counted(o) => processed' = processed
  <2>1. AtMsg /\ Handle(o)
    BY MsgType DEF MsgInOrder, MsgEarly, MsgLate, Inv, TypeOK, LineInv
  <2>2. next_seq_no \in Nat /\ Msg \in SeqNo /\ Msg \in Nat
    BY <2>1, MsgType DEF Inv, TypeOK, LineInv
  <2> QED
    BY <2>1, <2>2 DEF Handle
<1>2. CASE MsgInOrder(o)
  <2>1. /\ gaps' = gaps /\ Msg = next_seq_no
        /\ next_seq_no' = IF Counted(o) THEN next_seq_no + 1 ELSE next_seq_no
    BY <1>2 DEF MsgInOrder
  <2>2. CASE Counted(o)
    <3>1. Arb!ProcessNext(Msg)
      BY <1>1, <2>1, <2>2 DEF Arb!ProcessNext, Arb!ReachUpTo
    <3> QED
      BY <1>1, <3>1 DEF Arb!ArbiterNext
  <2>3. CASE ~Counted(o)
    BY <1>1, <2>1, <2>3 DEF Arb!arbiterVars
  <2> QED
    BY <2>2, <2>3
<1>3. CASE MsgEarly(o)
  <2>1. /\ Msg > next_seq_no
        /\ \A s \in Missing(gaps') : s \in Missing(gaps) \/ (next_seq_no <= s /\ s < Msg)
    BY <1>3, EarlyOpens
  <2>2. /\ next_seq_no' = IF Counted(o) THEN Msg + 1 ELSE Msg
        /\ gaps' \in Seq(Gap)
    BY <1>3, EarlyOpens DEF MsgEarly
  <2>3. Missing(gaps') \subseteq Missing(gaps) \cup (next_seq_no .. (Msg - 1))
    <3> SUFFICES ASSUME NEW s \in Missing(gaps'), s \notin Missing(gaps)
                 PROVE  s \in next_seq_no .. (Msg - 1)
      OBVIOUS
    <3>1. s \in Int
      BY <2>2, MissingMember
    <3> QED
      BY <1>1, <2>1, <3>1
  <2>4. CASE Counted(o)
    <3>1. Arb!ProcessNext(Msg)
      BY <1>1, <2>1, <2>2, <2>3, <2>4 DEF Arb!ProcessNext, Arb!ReachUpTo
    <3> QED
      BY <1>1, <3>1 DEF Arb!ArbiterNext
  <2>5. CASE ~Counted(o)
    <3>1. Arb!Skip
      BY <1>1, <2>1, <2>2, <2>3, <2>5 DEF Arb!Skip, Arb!ReachUpTo
    <3> QED
      BY <3>1 DEF Arb!ArbiterNext
  <2> QED
    BY <2>4, <2>5
<1>4. CASE MsgLate(o)
  <2>1. /\ Msg \in Missing(gaps) /\ Missing(gaps') \subseteq Missing(gaps)
        /\ Counted(o) => Msg \notin Missing(gaps')
        /\ ~Counted(o) => gaps' = gaps
    BY <1>4, LateFills
  <2>2. next_seq_no' = next_seq_no
    BY <1>4 DEF MsgLate
  <2>3. CASE Counted(o)
    <3>1. Arb!Recover(Msg)
      BY <1>1, <2>1, <2>2, <2>3 DEF Arb!Recover
    <3> QED
      BY <1>1, <3>1 DEF Arb!ArbiterNext
  <2>4. CASE ~Counted(o)
    BY <1>1, <2>1, <2>2, <2>4 DEF Arb!arbiterVars
  <2> QED
    BY <2>3, <2>4
<1> QED
  BY <1>2, <1>3, <1>4

\* Every step of the line is a step of the arbiter or changes nothing it sees.
LEMMA StepArbitrated ==
  ASSUME Inv, [BeatNext]_vars
  PROVE  Arb!ArbiterNext \/ UNCHANGED Arb!arbiterVars
<1>1. next_seq_no \in Nat
  BY NumbersBelow
<1>2. CASE ShortPkt \/ Data
  <2>1. FlushExpired /\ UNCHANGED <<next_seq_no, processed>>
    BY <1>2 DEF ShortPkt, Data, DataPkt
  <2> QED
    BY <1>1, <2>1, PacketSkips
<1>3. CASE \E s \in SeqNo : Heartbeat(s)
  <2>1. PICK s \in SeqNo : Heartbeat(s)
    BY <1>3
  <2>2. /\ FlushExpired /\ UNCHANGED processed
        /\ next_seq_no' = IF s > next_seq_no THEN s ELSE next_seq_no
    BY <2>1 DEF Heartbeat
  <2>3. next_seq_no' \in Nat /\ next_seq_no' >= next_seq_no
    BY <1>1, <2>2 DEF SeqNo
  <2> QED
    BY <2>2, <2>3, PacketSkips
<1>4. CASE EndPkt \/ MsgTruncated \/ MsgDuplicate \/ Tick \/ UNCHANGED vars
  BY <1>4 DEF EndPkt, MsgTruncated, MsgDuplicate, Tick, vars, Arb!arbiterVars
<1>5. CASE \/ \E o \in Outcome : MsgInOrder(o)
           \/ \E o \in Outcome : MsgEarly(o)
           \/ \E o \in Outcome : MsgLate(o)
  BY <1>5, MessageArbitrated
<1> QED
  BY <1>2, <1>3, <1>4, <1>5 DEF BeatNext, SessionNext, ParseMsg

\* The ITCH line, through any session, implements the abstract arbiter.
THEOREM Refinement == BeatSpec => ImplementsArbiter
<1>1. Init => Arb!ArbiterInit
  BY DEF Init, Arb!ArbiterInit, Missing
<1>2. Inv /\ [BeatNext]_vars => [Arb!ArbiterNext]_(Arb!arbiterVars)
  BY StepArbitrated
<1> QED
  BY <1>1, <1>2, Invariance, PTL DEF BeatSpec, ImplementsArbiter, Arb!ArbiterSpec

-----------------------------------------------------------------------------
(* Over the end of a session the records need not be in order any more, nor *)
(* below the expected number; what is counted lost still covers what is     *)
(* given up.  In the first session they are, and the count is exact.        *)

SessInv ==
  /\ TypeOK /\ PktInv
  /\ lost_messages \in Nat /\ unreported \in Int
  /\ session > 0
  /\ GapsBounded
  /\ LossCounted
  /\ session = 1 => LineInv /\ Missing(gaps) \subseteq SeqNo

\* The set of numbers given up is finite.
LEMMA GivenUpFinite ==
  /\ IsFiniteSet(GivenUp) /\ Cardinality(GivenUp) \in Nat
  /\ IsFiniteSet(GivenUp') /\ Cardinality(GivenUp)' \in Nat
<1>1. MaxSeqNo \in Nat
  BY ItchAssumption
<1>2. IsFiniteSet(1..MaxSeqNo)
  BY <1>1, FS_Interval
<1>3. GivenUp \subseteq 1..MaxSeqNo /\ GivenUp' \subseteq 1..MaxSeqNo
  BY DEF GivenUp, SeqNo
<1>4. IsFiniteSet(GivenUp) /\ IsFiniteSet(GivenUp')
  BY <1>2, <1>3, FS_Subset
<1> QED
  BY <1>4, FS_CardinalityType

\* A step that gives up the numbers of D and counts them.
LEMMA LossStep ==
  ASSUME SessInv, NEW D, IsFiniteSet(D),
         lost_messages' \in Nat, unreported' \in Int, UNCHANGED session,
         GivenUp' \subseteq GivenUp \cup D,
         session = 1 => GivenUp \cup D \subseteq GivenUp' /\ GivenUp \cap D = {},
         lost_messages' + unreported' >= lost_messages + unreported + Cardinality(D),
         session = 1 =>
           lost_messages' + unreported' = lost_messages + unreported + Cardinality(D)
  PROVE  LossCounted'
<1> DEFINE G == GivenUp
           H == GivenUp'
<1>1. IsFiniteSet(G) /\ Cardinality(G) \in Nat /\ IsFiniteSet(H) /\ Cardinality(H) \in Nat
  BY GivenUpFinite
<1>2. /\ lost_messages \in Nat /\ unreported \in Int
      /\ lost_messages + unreported >= Cardinality(G)
      /\ session = 1 => lost_messages + unreported = Cardinality(G)
  BY DEF SessInv, LossCounted
<1>3. H \subseteq G \cup D /\ (session = 1 => G \cup D \subseteq H /\ G \cap D = {})
  OBVIOUS
<1> HIDE DEF G, H
<1>4. /\ IsFiniteSet(G \cup D)
      /\ Cardinality(G \cup D) = Cardinality(G) + Cardinality(D) - Cardinality(G \cap D)
  BY <1>1, FS_Union
<1>5. Cardinality(D) \in Nat /\ Cardinality(G \cap D) \in Nat
  <2>1. IsFiniteSet(G \cap D)
    BY <1>1, FS_Intersection
  <2> QED
    BY <2>1, FS_CardinalityType
<1>6. Cardinality(H) <= Cardinality(G \cup D)
  BY <1>3, <1>4, FS_Subset
<1>7. session = 1 => H = G \cup D /\ Cardinality(G \cap D) = 0
  BY <1>3, FS_EmptySet
<1>8. /\ lost_messages' + unreported' >= Cardinality(H)
      /\ session = 1 => lost_messages' + unreported' = Cardinality(H)
  <2> DEFINE a == lost_messages + unreported
             b == lost_messages' + unreported'
             cg == Cardinality(G)
             cd == Cardinality(D)
             ci == Cardinality(G \cap D)
             cu == Cardinality(G \cup D)
             ch == Cardinality(H)
  <2>1. a \in Int /\ b \in Int /\ a >= cg /\ b >= a + cd /\ ch <= cu /\ cu = cg + cd - ci
    BY <1>2, <1>4, <1>6
  <2>2. cg \in Nat /\ cd \in Nat /\ ci \in Nat /\ ch \in Nat
    BY <1>1, <1>5
  <2>3. session = 1 => a = cg /\ b = a + cd /\ ch = cu /\ ci = 0
    BY <1>2, <1>7
  <2> HIDE DEF a, b, cg, cd, ci, cu, ch
  <2>4. b >= ch /\ (session = 1 => b = ch)
    BY <2>1, <2>2, <2>3
  <2> QED
    BY <2>4 DEF b, ch
<1> QED
  BY <1>8 DEF LossCounted, H

\* A step that changes none of the numbers given up and none of the counts.
LEMMA LossSame ==
  ASSUME SessInv, UNCHANGED <<session, lost_messages, unreported>>, GivenUp' = GivenUp
  PROVE  LossCounted'
  BY DEF SessInv, LossCounted

\* The flush: the numbers of the expired records are given up and counted.
LEMMA FlushCounts ==
  ASSUME SessInv, FlushExpired
  PROVE  /\ gaps' \in Seq(Gap) /\ GapsBounded' /\ lost_messages' \in Nat
         /\ lost_messages' >= lost_messages
         /\ session = 1 => Missing(gaps') \subseteq Missing(gaps)
         /\ UNCHANGED <<next_seq_no, processed, session, unreported>> => LossCounted'
<1>1. PICK k \in 0..Len(gaps) :
        /\ gaps' = DropPrefix(gaps, k)
        /\ lost_messages' = lost_messages + Sizes(SubSeq(gaps, 1, k))
  BY DEF FlushExpired
<1> DEFINE D == UNION {Span(gaps[j]) : j \in 1..k}
           n == Sizes(SubSeq(gaps, 1, k))
<1>2. /\ gaps \in Seq(Gap) /\ lost_messages \in Nat /\ unreported \in Int
      /\ Len(gaps) <= GapMax /\ NonEmpty(gaps)
      /\ session = 1 => /\ Ordered(gaps) /\ Missing(gaps) \subseteq SeqNo
                        /\ TypeOK /\ LineInv
  BY DEF SessInv, TypeOK, GapsBounded, NonEmpty, LineInv
<1>3. n \in Nat /\ IsFiniteSet(D) /\ Cardinality(D) <= n /\ (Ordered(gaps) => Cardinality(D) = n)
  BY <1>2, ExpiredNumbers
<1>4. lost_messages' \in Nat /\ lost_messages' >= lost_messages /\ lost_messages' = lost_messages + n
  <2> HIDE DEF n
  <2>1. lost_messages' = lost_messages + n
    BY <1>1 DEF n
  <2> QED
    BY <1>2, <1>3, <2>1
<1>5. Leaves(gaps, gaps', -1, D) /\ gaps' \in Seq(Gap) /\ Len(gaps') = Len(gaps) - k
  BY <1>1, <1>2, DropPrefixLeaves, DropPrefixElements
<1>6. GapsBounded'
  <2>1. Len(gaps') <= GapMax
    BY <1>2, <1>5, GapAssumption
  <2> QED
    BY <1>2, <1>5, <2>1 DEF Leaves, GapsBounded, NonEmpty
<1>7. session = 1 => Missing(gaps') \subseteq Missing(gaps)
  BY <1>1, <1>2, DropPrefixKeeps
<1>8. ASSUME UNCHANGED <<next_seq_no, processed, session, unreported>> PROVE LossCounted'
  <2>1. GivenUp' \subseteq GivenUp \cup D
    <3> SUFFICES ASSUME NEW x \in GivenUp', x \notin GivenUp PROVE x \in D
      OBVIOUS
    <3>1. x \in SeqNo /\ x \in Missing(gaps) /\ x \notin Missing(gaps')
      BY <1>8 DEF GivenUp
    <3>2. x # -1
      BY <3>1 DEF SeqNo
    <3> HIDE DEF D
    <3> QED
      BY <1>5, <3>1, <3>2 DEF Leaves
  <2>2. session = 1 => GivenUp \cup D \subseteq GivenUp' /\ GivenUp \cap D = {}
    <3> SUFFICES ASSUME session = 1
                 PROVE  GivenUp \cup D \subseteq GivenUp' /\ GivenUp \cap D = {}
      OBVIOUS
    <3>1. GivenUp \subseteq GivenUp'
      BY <1>7, <1>8 DEF GivenUp
    <3>2. ASSUME NEW x \in D PROVE x \in GivenUp' /\ x \notin GivenUp
      <4>1. x \in Missing(gaps) /\ x \notin Missing(gaps')
        BY <1>1, <1>2, DropPrefixParts
      <4>2. x \in SeqNo /\ x < next_seq_no /\ processed[x] = 0
        BY <1>2, <4>1, NumbersBelow DEF Inv
      <4> QED
        BY <1>8, <4>1, <4>2 DEF GivenUp
    <3> QED
      BY <3>1, <3>2
  <2> HIDE DEF D, n
  <2>3. /\ lost_messages' + unreported' >= lost_messages + unreported + Cardinality(D)
        /\ session = 1 =>
             lost_messages' + unreported' = lost_messages + unreported + Cardinality(D)
    <3>1. Cardinality(D) \in Nat
      BY <1>3, FS_CardinalityType
    <3> QED
      BY <1>2, <1>3, <1>4, <1>8, <3>1
  <2> QED
    BY <1>2, <1>3, <1>4, <1>8, <2>1, <2>2, <2>3, LossStep
<1> QED
  BY <1>4, <1>5, <1>6, <1>7, <1>8

\* A message action keeps the types, whatever the order of the records.
LEMMA MessageTypes ==
  ASSUME TypeOK, PktInv, AtMsg, NEW o, Handle(o), Proceed(o),
         next_seq_no' \in Nat \ {0}, gaps' \in Seq(Gap), recovered_messages' \in Nat,
         UNCHANGED <<now, session, crashed>>
  PROVE  TypeOK' /\ PktInv'
<1>1. pkt' \in [conn : Conn, seq : Nat, left : Nat \cup {-1}] /\ PktInv'
  BY ProceedKeeps
<1>2. /\ timestamp' \in [Conn -> [sec : Nat, ms : Nat]]
      /\ header' \in [msg : Nat, sec : Nat, ms : Nat]
      /\ processed' \in [SeqNo -> Nat]
  BY HandleType
<1>3. now' \in Nat /\ session' \in Nat /\ crashed' \in BOOLEAN
  BY DEF TypeOK
<1> QED
  BY <1>1, <1>2, <1>3 DEF TypeOK

\* In the first session the invariant of one session holds, and every step but
\* the end of the session keeps it.
LEMMA FirstSessionKeeps ==
  ASSUME SessInv, SessionNext, session = 1
  PROVE  LineInv'
<1>1. Inv
  BY DEF SessInv, Inv
<1>2. [BeatNext]_vars
  BY DEF BeatNext
<1>3. Inv'
  BY <1>1, <1>2, StepKeeps
<1> QED
  BY <1>3 DEF Inv

\* The expected message gives nothing up.
LEMMA InOrderCounts ==
  ASSUME SessInv, NEW o \in Outcome, MsgInOrder(o)
  PROVE  SessInv'
<1>1. /\ AtMsg /\ Msg = next_seq_no /\ Handle(o) /\ Proceed(o)
      /\ next_seq_no' = IF Counted(o) THEN next_seq_no + 1 ELSE next_seq_no
      /\ UNCHANGED <<gaps, now, session, lost_messages, recovered_messages, crashed, unreported>>
  BY DEF MsgInOrder
<1>2. TypeOK /\ PktInv /\ next_seq_no \in Nat \ {0} /\ Msg \in SeqNo
  BY <1>1, MsgType DEF SessInv, TypeOK
<1>3. TypeOK' /\ PktInv'
  <2>1. next_seq_no' \in Nat \ {0} /\ gaps' \in Seq(Gap) /\ recovered_messages' \in Nat
    BY <1>1, <1>2 DEF TypeOK
  <2> QED
    BY <1>1, <1>2, <2>1, MessageTypes
<1>4. GivenUp' = GivenUp
  <2>1. /\ ~Counted(o) => processed' = processed
        /\ Counted(o) => /\ processed'[Msg] = processed[Msg] + 1
                         /\ \A s \in SeqNo : s # Msg => processed'[s] = processed[s]
    BY <1>1, <1>2, HandleCounts
  <2>2. CASE ~Counted(o)
    BY <1>1, <2>1, <2>2 DEF GivenUp
  <2>3. CASE Counted(o)
    <3>1. ASSUME NEW x \in SeqNo
          PROVE  x < next_seq_no' /\ processed'[x] = 0 <=> x < next_seq_no /\ processed[x] = 0
      <4>1. x \in Nat /\ next_seq_no' = Msg + 1 /\ processed[x] \in Nat
        BY <1>1, <1>2, <2>3 DEF SeqNo, TypeOK
      <4> QED
        BY <1>1, <1>2, <2>1, <2>3, <4>1
    <3> QED
      BY <1>1, <3>1 DEF GivenUp
  <2> QED
    BY <2>2, <2>3
<1>5. LossCounted'
  BY <1>1, <1>4, LossSame
<1>6. session = 1 => LineInv'
  BY FirstSessionKeeps DEF SessionNext, ParseMsg
<1> QED
  BY <1>1, <1>3, <1>5, <1>6 DEF SessInv, GapsBounded

\* A message above the expected one gives up the head of a full list or, without
\* a list, the numbers in between.
LEMMA EarlyCounts ==
  ASSUME SessInv, NEW o \in Outcome, MsgEarly(o)
  PROVE  SessInv'
<1>1. /\ AtMsg /\ Msg > next_seq_no /\ Handle(o) /\ Proceed(o)
      /\ next_seq_no' = IF Counted(o) THEN Msg + 1 ELSE Msg
      /\ UNCHANGED <<now, session, recovered_messages, crashed>>
  BY DEF MsgEarly
<1>2. /\ TypeOK /\ PktInv /\ next_seq_no \in Nat /\ next_seq_no > 0
      /\ Msg \in SeqNo /\ Msg \in Nat /\ Msg <= MaxSeqNo
      /\ gaps \in Seq(Gap) /\ now \in Nat /\ NonEmpty(gaps) /\ Len(gaps) <= GapMax
      /\ lost_messages \in Nat /\ unreported \in Int /\ GapMax \in Nat
  <2>1. TypeOK /\ PktInv /\ lost_messages \in Nat /\ unreported \in Int /\ GapMax \in Nat
    BY GapAssumption DEF SessInv
  <2>2. Msg \in SeqNo /\ Msg \in Nat /\ Msg <= MaxSeqNo
    BY <1>1, <2>1, MsgType DEF SeqNo
  <2>3. next_seq_no \in Nat /\ next_seq_no > 0 /\ gaps \in Seq(Gap) /\ now \in Nat
    BY <2>1 DEF TypeOK
  <2>4. NonEmpty(gaps) /\ Len(gaps) <= GapMax
    BY DEF SessInv, GapsBounded, NonEmpty
  <2> QED
    BY <2>1, <2>2, <2>3, <2>4
<1>3. /\ ~Counted(o) => processed' = processed
      /\ Counted(o) => /\ processed'[Msg] = processed[Msg] + 1
                       /\ \A s \in SeqNo : s # Msg => processed'[s] = processed[s]
  BY <1>1, <1>2, HandleCounts
<1>4. ASSUME NEW x \in SeqNo
      PROVE  x < next_seq_no' /\ processed'[x] = 0 <=> x < Msg /\ processed[x] = 0
  <2>1. x \in Nat /\ processed[x] \in Nat
    BY <1>2 DEF SeqNo, TypeOK
  <2> QED
    BY <1>1, <1>2, <1>3, <2>1
<1>5. session = 1 => /\ LineInv' /\ Inv
                     /\ Missing(gaps) \subseteq SeqNo
                     /\ \A x \in Missing(gaps) : x \in Nat /\ x < next_seq_no /\ processed[x] = 0
                     /\ \A x \in SeqNo : x >= next_seq_no => processed[x] = 0
  <2> SUFFICES ASSUME session = 1
               PROVE  /\ LineInv' /\ Inv
                      /\ Missing(gaps) \subseteq SeqNo
                      /\ \A x \in Missing(gaps) : x \in Nat /\ x < next_seq_no /\ processed[x] = 0
                      /\ \A x \in SeqNo : x >= next_seq_no => processed[x] = 0
    OBVIOUS
  <2>1. LineInv'
    BY FirstSessionKeeps DEF SessionNext, ParseMsg
  <2>2. Inv /\ Missing(gaps) \subseteq SeqNo
    BY DEF SessInv, Inv
  <2> QED
    BY <2>1, <2>2, NumbersBelow
<1>6. session = 1 =>
        \A x \in Missing(gaps') : x \in Missing(gaps) \/ (next_seq_no <= x /\ x < Msg)
  BY <1>5, EarlyOpens
<1> DEFINE D == IF GapMax > 0 THEN IF ListFull(gaps) THEN Span(gaps[1]) ELSE {}
                ELSE next_seq_no .. (Msg - 1)
<1>7. /\ gaps' \in Seq(Gap) /\ NonEmpty(gaps') /\ Len(gaps') <= GapMax
      /\ \A x \in Missing(gaps) : x \in Missing(gaps') \/ x \in D
      /\ \A x \in SeqNo : next_seq_no <= x /\ x < Msg => x \in Missing(gaps') \/ x \in D
      /\ session = 1 => \A x \in D : /\ x \in SeqNo /\ x < Msg /\ processed[x] = 0
                                     /\ x \notin Missing(gaps')
                                     /\ x \in Missing(gaps) \/ x >= next_seq_no
      /\ IsFiniteSet(D) /\ Cardinality(D) \in Nat
      /\ lost_messages' \in Nat /\ unreported' \in Int
      /\ lost_messages' + unreported' = lost_messages + unreported + Cardinality(D)
  <2>1. CASE GapMax > 0
    <3> DEFINE n == Msg - next_seq_no
    <3>1. n \in Nat /\ n > 0 /\ next_seq_no + n - 1 = Msg - 1
      BY <1>1, <1>2
    <3>2. /\ gaps' = PushGap(gaps, next_seq_no, n, now)
          /\ \E rc \in {PushLost(gaps), 0} :
               /\ lost_messages' = lost_messages + rc
               /\ unreported' = unreported + PushLost(gaps) - rc
      BY <2>1 DEF MsgEarly
    <3> HIDE DEF n
    <3>3. /\ gaps' \in Seq(Gap) /\ NonEmpty(gaps') /\ Len(gaps') <= GapMax
          /\ \A x \in Missing(gaps) : x \in Missing(gaps') \/ (ListFull(gaps) /\ x \in Span(gaps[1]))
          /\ next_seq_no .. (next_seq_no + n - 1) \subseteq Missing(gaps')
      BY <1>2, <2>1, <3>1, <3>2, PushGapLeaves
    <3>4. \A x \in SeqNo : next_seq_no <= x /\ x < Msg => x \in Missing(gaps')
      BY <1>2, <3>1, <3>3 DEF SeqNo
    <3>5. session = 1 => \A x \in D : x \in Missing(gaps) /\ x \notin Missing(gaps')
      <4> SUFFICES ASSUME session = 1, NEW x \in D
                   PROVE  x \in Missing(gaps) /\ x \notin Missing(gaps')
        OBVIOUS
      <4>1. ListFull(gaps) /\ x \in Span(gaps[1])
        BY <2>1
      <4>2. Ordered(gaps) /\ AllBelow(gaps, next_seq_no)
        BY <1>5 DEF Inv, LineInv
      <4> QED
        BY <1>2, <2>1, <3>1, <3>2, <4>1, <4>2, PushGapParts
    <3>6. IsFiniteSet(D) /\ Cardinality(D) = PushLost(gaps) /\ Cardinality(D) \in Nat
      <4>1. CASE ListFull(gaps)
        <5>1. 1 \in 1..Len(gaps)
          BY <1>2, <2>1, <4>1 DEF ListFull
        <5>2. gaps[1].seq_no \in Nat /\ gaps[1].size \in Nat
          BY <1>2, <5>1, RecordFields
        <5>3. IsFiniteSet(Span(gaps[1])) /\ Cardinality(Span(gaps[1])) = gaps[1].size
          <6> DEFINE a == gaps[1].seq_no
                     b == gaps[1].seq_no + gaps[1].size - 1
          <6>1. a \in Int /\ b \in Int /\ (IF a > b THEN 0 ELSE b - a + 1) = gaps[1].size
            BY <5>2
          <6>2. Span(gaps[1]) = a..b
            BY DEF Span
          <6> HIDE DEF a, b
          <6> QED
            BY <6>1, <6>2, FS_Interval
        <5> QED
          BY <2>1, <4>1, <5>2, <5>3 DEF PushLost
      <4>2. CASE ~ListFull(gaps)
        BY <2>1, <4>2, FS_EmptySet DEF PushLost
      <4> QED
        BY <4>1, <4>2
    <3>7. \A x \in Missing(gaps) : x \in Missing(gaps') \/ x \in D
      BY <2>1, <3>3
    <3> HIDE DEF D
    <3>9. /\ lost_messages' \in Nat /\ unreported' \in Int
          /\ lost_messages' + unreported' = lost_messages + unreported + Cardinality(D)
      <4>1. PICK rc \in {Cardinality(D), 0} :
                /\ lost_messages' = lost_messages + rc
                /\ unreported' = unreported + Cardinality(D) - rc
        BY <3>2, <3>6
      <4> DEFINE c == Cardinality(D)
      <4>2. c \in Nat /\ lost_messages \in Nat /\ unreported \in Int
        <5>1. lost_messages \in Nat /\ unreported \in Int
          BY <1>2
        <5> QED
          BY <3>6, <5>1
      <4>3. /\ rc \in {c, 0}
            /\ lost_messages' = lost_messages + rc
            /\ unreported' = unreported + c - rc
        BY <4>1
      <4> HIDE DEF c
      <4>4. CASE rc = c
        <5>1. lost_messages' = lost_messages + c /\ unreported' = unreported + c - c
          BY <4>3, <4>4
        <5>2. /\ lost_messages' \in Nat /\ unreported' \in Int
              /\ lost_messages' + unreported' = lost_messages + unreported + c
          BY <4>2, <5>1
        <5> QED
          BY <5>2 DEF c
      <4>5. CASE rc = 0
        <5>1. lost_messages' = lost_messages /\ unreported' = unreported + c
          BY <4>2, <4>3, <4>5
        <5>2. /\ lost_messages' \in Nat /\ unreported' \in Int
              /\ lost_messages' + unreported' = lost_messages + unreported + c
          BY <4>2, <5>1
        <5> QED
          BY <5>2 DEF c
      <4> QED
        BY <4>3, <4>4, <4>5
    <3>8. session = 1 => \A x \in D : /\ x \in SeqNo /\ x < Msg /\ processed[x] = 0
                                      /\ x \notin Missing(gaps')
                                      /\ x \in Missing(gaps) \/ x >= next_seq_no
      BY <1>1, <1>2, <1>5, <3>5
    <3> QED
      BY <3>3, <3>4, <3>6, <3>7, <3>8, <3>9
  <2>2. CASE ~(GapMax > 0)
    <3>1. /\ gaps' = gaps /\ unreported' = unreported
          /\ lost_messages' = lost_messages + (Msg - next_seq_no)
      BY <2>2 DEF MsgEarly
    <3>2. D = next_seq_no .. (Msg - 1)
      BY <2>2
    <3>3. IsFiniteSet(D) /\ Cardinality(D) = Msg - next_seq_no /\ Cardinality(D) \in Nat
      <4> DEFINE b == Msg - 1
      <4>1. /\ next_seq_no \in Int /\ b \in Int /\ Msg - next_seq_no \in Nat
            /\ (IF next_seq_no > b THEN 0 ELSE b - next_seq_no + 1) = Msg - next_seq_no
        BY <1>1, <1>2
      <4> HIDE DEF b
      <4> QED
        BY <3>2, <4>1, FS_Interval DEF b
    <3>4. session = 1 => \A x \in D : /\ x \in SeqNo /\ x < Msg /\ processed[x] = 0
                                      /\ x \notin Missing(gaps)
                                      /\ x >= next_seq_no
      <4> SUFFICES ASSUME session = 1, NEW x \in D
                   PROVE  /\ x \in SeqNo /\ x < Msg /\ processed[x] = 0
                          /\ x \notin Missing(gaps)
                          /\ x >= next_seq_no
        OBVIOUS
      <4>1. x \in Nat /\ next_seq_no <= x /\ x < Msg
        BY <1>2, <3>2
      <4>2. x \in SeqNo
        BY <1>2, <4>1, ItchAssumption DEF SeqNo
      <4> QED
        BY <1>2, <1>5, <4>1, <4>2
    <3>5. \A x \in SeqNo : next_seq_no <= x /\ x < Msg => x \in D
      BY <1>2, <3>2 DEF SeqNo
    <3> HIDE DEF D
    <3> QED
      BY <1>2, <3>1, <3>3, <3>4, <3>5
  <2> QED
    BY <2>1, <2>2
<1> HIDE DEF D
<1>8. TypeOK' /\ PktInv'
  <2>1. next_seq_no' \in Nat \ {0} /\ recovered_messages' \in Nat
    BY <1>1, <1>2 DEF TypeOK
  <2> QED
    BY <1>1, <1>2, <1>7, <2>1, MessageTypes
<1>9. GivenUp' \subseteq GivenUp \cup D
  <2> SUFFICES ASSUME NEW x \in GivenUp', x \notin D PROVE x \in GivenUp
    OBVIOUS
  <2>1. x \in SeqNo /\ x < Msg /\ processed[x] = 0 /\ x \notin Missing(gaps')
    BY <1>4 DEF GivenUp
  <2>2. x \in Nat /\ x \notin Missing(gaps) /\ ~(next_seq_no <= x)
    BY <1>7, <2>1 DEF SeqNo
  <2> QED
    BY <1>2, <2>1, <2>2 DEF GivenUp
<1>10. session = 1 => GivenUp \cup D \subseteq GivenUp' /\ GivenUp \cap D = {}
  <2> SUFFICES ASSUME session = 1
               PROVE  GivenUp \cup D \subseteq GivenUp' /\ GivenUp \cap D = {}
    OBVIOUS
  <2>1. ASSUME NEW x \in GivenUp PROVE x \in GivenUp' /\ x \notin D
    <3>1. x \in SeqNo /\ x \in Nat /\ x < next_seq_no /\ processed[x] = 0 /\ x \notin Missing(gaps)
      BY DEF GivenUp, SeqNo
    <3>2. x < Msg /\ x \notin Missing(gaps') /\ x \notin D
      BY <1>1, <1>2, <1>6, <1>7, <3>1
    <3> QED
      BY <1>4, <3>1, <3>2 DEF GivenUp
  <2>2. ASSUME NEW x \in D PROVE x \in GivenUp'
    BY <1>4, <1>7 DEF GivenUp
  <2> QED
    BY <2>1, <2>2
<1>11. LossCounted'
  <2>1. /\ lost_messages' \in Nat /\ unreported' \in Int
        /\ lost_messages' + unreported' = lost_messages + unreported + Cardinality(D)
        /\ lost_messages' + unreported' >= lost_messages + unreported + Cardinality(D)
    BY <1>1, <1>2, <1>7
  <2> QED
    BY <1>1, <1>7, <1>9, <1>10, <2>1, LossStep
<1>12. session = 1 => Missing(gaps') \subseteq SeqNo
  <2> SUFFICES ASSUME session = 1, NEW x \in Missing(gaps') PROVE x \in SeqNo
    OBVIOUS
  <2>1. CASE x \in Missing(gaps)
    BY <1>5, <2>1
  <2>2. CASE next_seq_no <= x /\ x < Msg
    <3>1. x \in Int
      BY <1>7, MissingMember
    <3> QED
      BY <1>2, <2>2, <3>1, ItchAssumption DEF SeqNo
  <2> QED
    BY <1>6, <2>1, <2>2
<1>13. lost_messages' \in Nat /\ unreported' \in Int /\ session' > 0 /\ GapsBounded'
  BY <1>1, <1>2, <1>7 DEF SessInv, GapsBounded, NonEmpty
<1> QED
  BY <1>1, <1>5, <1>8, <1>11, <1>12, <1>13 DEF SessInv

\* A message of a gap gives up what a split on a full list drops.
LEMMA LateCounts ==
  ASSUME SessInv, NEW o \in Outcome, MsgLate(o)
  PROVE  SessInv'
<1>1. /\ AtMsg /\ Msg < next_seq_no /\ Handle(o) /\ Proceed(o)
      /\ UNCHANGED <<next_seq_no, now, session, crashed>>
  BY DEF MsgLate
<1>2. PICK i \in 1..Len(gaps) :
        /\ FindGap(gaps, Msg, i)
        /\ Counted(o) => /\ gaps' = DelGap(gaps, i, Msg)
                         /\ lost_messages' = lost_messages + DelLost(gaps, i, Msg)
                         /\ unreported' = unreported + DelDropped(gaps, i, Msg)
                                            - DelLost(gaps, i, Msg)
                         /\ recovered_messages' = recovered_messages + 1
        /\ ~Counted(o) => UNCHANGED <<gaps, lost_messages, recovered_messages, unreported>>
  BY DEF MsgLate
<1>3. /\ TypeOK /\ PktInv /\ Msg \in SeqNo /\ gaps \in Seq(Gap) /\ next_seq_no \in Nat \ {0}
      /\ lost_messages \in Nat /\ unreported \in Int /\ session > 0
      /\ NonEmpty(gaps) /\ Len(gaps) <= GapMax
  <2>1. TypeOK /\ PktInv /\ lost_messages \in Nat /\ unreported \in Int /\ session > 0
    BY DEF SessInv
  <2>2. Msg \in SeqNo /\ gaps \in Seq(Gap) /\ next_seq_no \in Nat \ {0}
    BY <1>1, <2>1, MsgType DEF TypeOK
  <2>3. NonEmpty(gaps) /\ Len(gaps) <= GapMax
    BY DEF SessInv, GapsBounded, NonEmpty
  <2> QED
    BY <2>1, <2>2, <2>3
<1>4. session = 1 => LineInv' /\ Inv /\ Missing(gaps) \subseteq SeqNo
  <2>1. session = 1 => LineInv'
    BY FirstSessionKeeps DEF SessionNext, ParseMsg
  <2> QED
    BY <2>1 DEF SessInv, Inv
<1>5. session = 1 =>
        /\ Missing(gaps') \subseteq Missing(gaps) /\ Msg \in Missing(gaps)
        /\ \A x \in Missing(gaps) : x \in SeqNo /\ x < next_seq_no /\ processed[x] = 0
  <2> SUFFICES ASSUME session = 1
               PROVE  /\ Missing(gaps') \subseteq Missing(gaps) /\ Msg \in Missing(gaps)
                      /\ \A x \in Missing(gaps) :
                           x \in SeqNo /\ x < next_seq_no /\ processed[x] = 0
    OBVIOUS
  <2>1. Inv /\ Missing(gaps) \subseteq SeqNo
    BY <1>4
  <2>2. Missing(gaps') \subseteq Missing(gaps) /\ Msg \in Missing(gaps)
    BY <2>1, LateFills
  <2> QED
    BY <2>1, <2>2, NumbersBelow
<1>6. /\ ~Counted(o) => processed' = processed
      /\ Counted(o) => /\ processed'[Msg] = processed[Msg] + 1
                       /\ \A s \in SeqNo : s # Msg => processed'[s] = processed[s]
  BY <1>1, <1>3, HandleCounts
<1>7. CASE Counted(o)
  <2> DEFINE D == DelDrops(gaps, i, Msg)
             h == DelGap(gaps, i, Msg)
             n == DelDropped(gaps, i, Msg)
             m == DelLost(gaps, i, Msg)
  <2>1. Leaves(gaps, h, Msg, D) /\ Len(h) <= GapMax
    BY <1>2, <1>3, DelGapLeaves
  <2>2. IsFiniteSet(D) /\ Cardinality(D) = n /\ n \in Nat /\ m \in Nat
    BY <1>2, <1>3, DropsCount
  <2>3. /\ gaps' = h /\ lost_messages' = lost_messages + m
        /\ unreported' = unreported + n - m /\ recovered_messages' = recovered_messages + 1
    BY <1>2, <1>7
  <2>4. session = 1 => \A x \in D : x # Msg /\ x \in Missing(gaps) /\ x \notin Missing(h)
    <3> SUFFICES ASSUME session = 1, NEW x \in D
                 PROVE  x # Msg /\ x \in Missing(gaps) /\ x \notin Missing(h)
      OBVIOUS
    <3>1. Ordered(gaps)
      BY <1>4 DEF Inv, LineInv
    <3> QED
      BY <1>2, <1>3, <3>1, DelGapParts
  <2> HIDE DEF D, h, n, m
  <2>5. GivenUp' \subseteq GivenUp \cup D
    <3> SUFFICES ASSUME NEW x \in GivenUp', x \notin GivenUp PROVE x \in D
      OBVIOUS
    <3>1. x \in SeqNo /\ x < next_seq_no /\ processed'[x] = 0 /\ x \notin Missing(h)
      BY <1>1, <2>3 DEF GivenUp
    <3>2. x # Msg
      <4>1. processed[Msg] \in Nat
        BY <1>3 DEF TypeOK
      <4> QED
        BY <1>6, <1>7, <3>1, <4>1
    <3>3. processed[x] = 0
      BY <1>6, <1>7, <3>1, <3>2
    <3>4. x \in Missing(gaps)
      BY <3>1, <3>3 DEF GivenUp
    <3> QED
      BY <2>1, <3>1, <3>2, <3>4 DEF Leaves
  <2>6. session = 1 => GivenUp \cup D \subseteq GivenUp' /\ GivenUp \cap D = {}
    <3> SUFFICES ASSUME session = 1
                 PROVE  GivenUp \cup D \subseteq GivenUp' /\ GivenUp \cap D = {}
      OBVIOUS
    <3>1. ASSUME NEW x \in SeqNo, x < next_seq_no, processed[x] = 0, x # Msg,
                 x \notin Missing(h)
          PROVE  x \in GivenUp'
      BY <1>1, <1>6, <1>7, <2>3, <3>1 DEF GivenUp
    <3>2. ASSUME NEW x \in GivenUp PROVE x \in GivenUp' /\ x \notin D
      <4>1. x \in SeqNo /\ x < next_seq_no /\ processed[x] = 0 /\ x \notin Missing(gaps)
        BY DEF GivenUp
      <4>2. x # Msg /\ x \notin Missing(h) /\ x \notin D
        BY <1>5, <2>3, <2>4, <4>1
      <4> QED
        BY <3>1, <4>1, <4>2
    <3>3. ASSUME NEW x \in D PROVE x \in GivenUp'
      BY <1>5, <2>4, <3>1
    <3> QED
      BY <3>2, <3>3
  <2>7. /\ lost_messages' \in Nat /\ unreported' \in Int /\ recovered_messages' \in Nat
        /\ lost_messages' + unreported' = lost_messages + unreported + Cardinality(D)
        /\ lost_messages' + unreported' >= lost_messages + unreported + Cardinality(D)
    <3>1. recovered_messages \in Nat
      BY <1>3 DEF TypeOK
    <3> QED
      BY <1>3, <2>2, <2>3, <3>1
  <2>8. LossCounted'
    BY <1>1, <2>2, <2>5, <2>6, <2>7, LossStep
  <2>9. GapsBounded' /\ gaps' \in Seq(Gap)
    BY <1>3, <2>1, <2>3 DEF Leaves, GapsBounded, NonEmpty
  <2>10. TypeOK' /\ PktInv'
    BY <1>1, <1>3, <2>7, <2>9, MessageTypes
  <2> QED
    BY <1>1, <1>3, <1>4, <1>5, <2>7, <2>8, <2>9, <2>10 DEF SessInv
<1>8. CASE ~Counted(o)
  <2>1. UNCHANGED <<gaps, lost_messages, recovered_messages, unreported, processed>>
    BY <1>2, <1>6, <1>8
  <2>2. LossCounted'
    BY <1>1, <2>1, LossSame DEF GivenUp
  <2>3. recovered_messages' \in Nat
    BY <1>3, <2>1 DEF TypeOK
  <2>4. TypeOK' /\ PktInv'
    BY <1>1, <1>3, <2>1, <2>3, MessageTypes
  <2> QED
    BY <1>1, <1>3, <1>4, <2>1, <2>2, <2>4 DEF SessInv, GapsBounded
<1> QED
  BY <1>7, <1>8

\* The end of a session forgets what it gave up; the counts stay.
LEMMA EndOfSessionCounts ==
  ASSUME SessInv, EndOfSession
  PROVE  SessInv'
<1>1. /\ FlushExpired /\ session' = session + 1 /\ next_seq_no' = 1
      /\ processed' = [s \in SeqNo |-> 0]
      /\ UNCHANGED <<now, pkt, timestamp, recovered_messages, header, crashed, unreported>>
  BY DEF EndOfSession
<1>2. TypeOK /\ PktInv /\ lost_messages \in Nat /\ unreported \in Int /\ session > 0 /\ LossCounted
  BY DEF SessInv
<1>3. /\ gaps' \in Seq(Gap) /\ GapsBounded' /\ lost_messages' \in Nat
      /\ lost_messages' >= lost_messages
  BY <1>1, FlushCounts
<1>4. session \in Nat /\ session' \in Nat /\ session' > 1
  BY <1>1, <1>2 DEF TypeOK
<1>5. TypeOK'
  BY <1>1, <1>2, <1>3, <1>4 DEF TypeOK
<1>6. GivenUp' = {}
  BY <1>1 DEF GivenUp, SeqNo
<1>7. LossCounted'
  <2>1. Cardinality(GivenUp)' = 0
    BY <1>6, FS_EmptySet
  <2>2. lost_messages + unreported >= 0
    BY <1>2, GivenUpFinite DEF LossCounted
  <2>3. lost_messages' + unreported' >= 0
    <3>1. unreported' = unreported /\ lost_messages \in Nat /\ unreported \in Int
      BY <1>1, <1>2
    <3>2. lost_messages' \in Nat /\ lost_messages' >= lost_messages
      BY <1>3
    <3> DEFINE a == lost_messages
               b == unreported
               c == lost_messages'
    <3>3. a \in Nat /\ b \in Int /\ c \in Nat /\ c >= a /\ a + b >= 0
      BY <2>2, <3>1, <3>2
    <3> HIDE DEF a, b, c
    <3>4. c + b >= 0
      BY <3>3
    <3> QED
      BY <3>1, <3>4 DEF b, c
  <2> QED
    BY <1>4, <2>1, <2>3 DEF LossCounted
<1> QED
  BY <1>1, <1>2, <1>3, <1>4, <1>5, <1>7 DEF SessInv, PktInv

\* Every step of a line, the end of a session included, keeps the invariant.
LEMMA SessionStepKeeps ==
  ASSUME SessInv, [SessionsNext]_vars
  PROVE  SessInv'
<1>1. /\ TypeOK /\ PktInv /\ lost_messages \in Nat /\ unreported \in Int /\ session > 0
      /\ GapsBounded /\ (session = 1 => Missing(gaps) \subseteq SeqNo)
  BY DEF SessInv
<1>2. SessionNext /\ session = 1 => LineInv'
  BY FirstSessionKeeps
<1>3. ASSUME FlushExpired,
             UNCHANGED <<next_seq_no, now, session, timestamp, recovered_messages, processed,
                         header, crashed, unreported>>,
             pkt' \in [conn : Conn, seq : Nat, left : Nat \cup {-1}], PktInv',
             SessionNext
      PROVE  SessInv'
  <2>1. /\ gaps' \in Seq(Gap) /\ GapsBounded' /\ lost_messages' \in Nat
        /\ session = 1 => Missing(gaps') \subseteq Missing(gaps)
        /\ LossCounted'
    BY <1>3, FlushCounts
  <2>2. TypeOK'
    BY <1>1, <1>3, <2>1 DEF TypeOK
  <2> QED
    BY <1>1, <1>2, <1>3, <2>1, <2>2 DEF SessInv
<1>4. ASSUME UNCHANGED <<next_seq_no, gaps, session, lost_messages, processed, unreported>>,
             TypeOK', PktInv', SessionNext
      PROVE  SessInv'
  <2>1. LossCounted'
    BY <1>4, LossSame DEF GivenUp
  <2> QED
    BY <1>1, <1>2, <1>4, <2>1 DEF SessInv, GapsBounded
<1>5. CASE ShortPkt
  <2>1. FlushExpired /\ UNCHANGED <<next_seq_no, now, session, pkt, timestamp,
                          recovered_messages, processed, header, crashed, unreported>>
    BY <1>5 DEF ShortPkt
  <2>2. pkt' \in [conn : Conn, seq : Nat, left : Nat \cup {-1}] /\ PktInv'
    BY <1>1, <2>1 DEF PktInv, TypeOK
  <2> QED
    BY <1>3, <1>5, <2>1, <2>2 DEF SessionNext
<1>6. CASE Data
  <2>1. PICK c \in Conn, s \in SeqNo, n \in 1..MaxPktMsgs : DataPkt(c, s, n)
    BY <1>6 DEF Data
  <2>2. /\ FlushExpired
        /\ pkt' = [conn |-> c, seq |-> s, left |-> n]
        /\ s + n - 1 <= MaxSeqNo
        /\ UNCHANGED <<next_seq_no, now, session, timestamp, recovered_messages, processed,
                       header, crashed, unreported>>
    BY <2>1 DEF DataPkt
  <2>3. s \in Nat /\ s > 0 /\ n \in Nat
    BY ItchAssumption DEF SeqNo
  <2>4. pkt' \in [conn : Conn, seq : Nat, left : Nat \cup {-1}] /\ PktInv'
    BY <2>2, <2>3 DEF PktInv
  <2> QED
    BY <1>3, <1>6, <2>2, <2>4 DEF SessionNext
<1>7. CASE EndPkt \/ MsgTruncated
  <2>1. /\ pkt' = NoPkt /\ crashed' \in BOOLEAN
        /\ UNCHANGED <<next_seq_no, gaps, now, session, timestamp, lost_messages,
                       recovered_messages, processed, header, unreported>>
    BY <1>1, <1>7 DEF EndPkt, MsgTruncated, TypeOK
  <2>2. pkt' \in [conn : Conn, seq : Nat, left : Nat \cup {-1}] /\ PktInv'
    BY <2>1, NoPktType DEF PktInv
  <2>3. TypeOK'
    BY <1>1, <2>1, <2>2 DEF TypeOK
  <2> QED
    BY <1>4, <1>7, <2>1, <2>2, <2>3 DEF SessionNext, ParseMsg
<1>8. CASE MsgDuplicate
  <2>1. /\ AtMsg /\ crashed' \in BOOLEAN /\ (pkt' = pkt \/ Proceed("ok"))
        /\ UNCHANGED <<next_seq_no, gaps, now, session, timestamp, lost_messages,
                       recovered_messages, processed, header, unreported>>
    BY <1>1, <1>8 DEF MsgDuplicate, Proceed, TypeOK
  <2>2. pkt' \in [conn : Conn, seq : Nat, left : Nat \cup {-1}] /\ PktInv'
    <3>1. CASE pkt' = pkt
      BY <1>1, <3>1 DEF TypeOK, PktInv
    <3>2. CASE Proceed("ok")
      BY <1>1, <2>1, <3>2, ProceedKeeps
    <3> QED
      BY <2>1, <3>1, <3>2
  <2>3. TypeOK'
    BY <1>1, <2>1, <2>2 DEF TypeOK
  <2> QED
    BY <1>4, <1>8, <2>1, <2>2, <2>3 DEF SessionNext, ParseMsg
<1>9. CASE Tick
  <2>1. /\ now' = now + 1
        /\ UNCHANGED <<next_seq_no, gaps, session, pkt, timestamp, lost_messages,
                       recovered_messages, processed, header, crashed, unreported>>
    BY <1>9 DEF Tick
  <2>2. TypeOK' /\ PktInv'
    BY <1>1, <2>1 DEF TypeOK, PktInv
  <2> QED
    BY <1>4, <1>9, <2>1, <2>2 DEF SessionNext
<1>10. CASE UNCHANGED vars
  BY <1>10 DEF vars, SessInv, TypeOK, LineInv, PktInv, GapsBounded, LossCounted, GivenUp
<1>11. CASE \/ \E o \in Outcome : MsgInOrder(o)
            \/ \E o \in Outcome : MsgEarly(o)
            \/ \E o \in Outcome : MsgLate(o)
  BY <1>11, InOrderCounts, EarlyCounts, LateCounts
<1>12. CASE EndOfSession
  BY <1>12, EndOfSessionCounts
<1> QED
  BY <1>5, <1>6, <1>7, <1>8, <1>9, <1>10, <1>11, <1>12
  DEF SessionsNext, SessionNext, ParseMsg

\* The initial state satisfies it.
LEMMA SessionInitKeeps == Init => SessInv
<1> SUFFICES ASSUME Init PROVE SessInv
  OBVIOUS
<1>1. TypeOK /\ LineInv
  BY InitKeeps DEF Inv
<1>2. gaps = <<>> /\ next_seq_no = 1 /\ Missing(gaps) = {} /\ session = 1
      /\ lost_messages = 0 /\ unreported = 0
  BY DEF Init, Missing
<1>3. GapsBounded
  BY <1>2, GapAssumption DEF GapsBounded
<1>4. GivenUp = {}
  BY <1>2 DEF GivenUp, SeqNo
<1>5. LossCounted
  BY <1>2, <1>4, FS_EmptySet DEF LossCounted
<1> QED
  BY <1>1, <1>2, <1>3, <1>5 DEF SessInv, LineInv

\* fh_itch_parse.c over any number of sessions, which reset the expected number
\* and leave the gaps of the old one in the list: the list stays within its pool,
\* holds no empty record, and every number the line gives up is counted, in the
\* first session exactly once.
THEOREM LossesCounted == SessionsSpec => []SessionsSound
<1>1. SessInv => SessionsSound
  BY DEF SessInv, SessionsSound
<1> QED
  BY <1>1, SessionInitKeeps, SessionStepKeeps, PTL DEF SessionsSpec

===============================================================================
