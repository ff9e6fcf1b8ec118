------------------------------ MODULE OpraFast ------------------------------
(***************************************************************************)
(* The OPRA messages in FAST (codec/fast_decode.c) and the packets that    *)
(* hold them (codec/fast_process.c).  The exchange starts each packet with *)
(* a fresh encoder.  The handler has one codec for the life of the process *)
(* and never resets it; before it decodes a packet it peeks into the first *)
(* message with the same codec, and a packet that turns out a duplicate is *)
(* not decoded at all.                                                     *)
(*                                                                         *)
(* A message is the sequence of its fields, <<slot, value>>, in the order  *)
(* of the decoder.  A packet is its bytes from the size byte of the first  *)
(* message to ETX; the header before them has no part in the decoding.     *)
(***************************************************************************)
EXTENDS FastApi, TLC

CONSTANTS
    Packets,       \* the packets the exchange may send: sequences of messages
    MaxPackets     \* bound: packets

VARIABLES
    codec,         \* the handler's
    expected,      \* the messages of the last packet decoded
    decoded,       \* what the decoder made of them
    packets

opraFastVars == <<codec, expected, decoded, packets>>

\* enum opra_msg_field_tags_v2: the slots that are named below.
MESSAGE_CATEGORY == 0
MESSAGE_TYPE == 1
MESSAGE_SEQUENCE_NUMBER == 4
SECURITY_SYMBOL == 6
BBO_INDICATOR == 30
NUMBER_OF_INDICES == 39
NUMBER_OF_SPOT_VALUES == 40
INDEX_SYMBOL == 41
FCO_SYMBOL == 45
TEXT == 48
DEF_MSG == 49
Slots == 0..49

\* The tags: every field is copied but the sequence number, which counts.
StrSlots == {SECURITY_SYMBOL, TEXT, DEF_MSG} \cup INDEX_SYMBOL..FCO_SYMBOL
TagOf(slot) == MakeTag(IF slot \in StrSlots THEN "STR" ELSE "U32",
                       IF slot = MESSAGE_SEQUENCE_NUMBER THEN "INCR" ELSE "COPY", slot)

\* What the fields of a message hold before they are decoded: the symbols
\* are padded with spaces.  The size of a symbol depends on the category.
Padding(slot, fco) ==
    CASE slot = SECURITY_SYMBOL -> [i \in 1..(IF fco THEN 3 ELSE 5) |-> 32]
      [] slot \in {INDEX_SYMBOL, FCO_SYMBOL} -> <<32, 32, 32>>
      [] slot \in INDEX_SYMBOL + 1..FCO_SYMBOL - 1 -> [i \in 1..8 |-> 0]
      [] slot \in {TEXT, DEF_MSG} -> [i \in 1..450 |-> 0]

\* u32_to_ascii keeps the last two digits of a date and of a year.
u32_to_ascii(n) == IF n = Junk THEN n ELSE n % 100
TwoDigits == {8, 9}

\* A string without its padding.
Pruned(s) ==
    LET kept == {i \in DOMAIN s : s[i] \notin {0, 32}}
    IN  IF kept = {} THEN SubSeq(s, 1, 1) ELSE SubSeq(s, 1, Max(kept))

-----------------------------------------------------------------------------
(* A message in the making: the codec, the fields, and whether the message *)
(* is handed on.  Of a text only the bytes that were sent are used.        *)

Decoded(d, slot) ==
    LET fco == d.out # <<>> /\ d.out[1][2] \in {79, 85, 70}
    IN  IF slot \in StrSlots THEN fast_decode_str(d.c, TagOf(slot), Padding(slot, fco))
        ELSE fast_decode_u32(d.c, TagOf(slot))
Shown(slot, v) ==
    IF slot \in TwoDigits THEN u32_to_ascii(v) ELSE IF slot \in {TEXT, DEF_MSG} THEN Pruned(v) ELSE v
Take(d, slot) ==
    Then(Decoded(d, slot), LAMBDA r : [d EXCEPT !.c = r, !.out = Append(@, <<slot, Shown(slot, r.val)>>)])
TakeAll(d, slots) == Fold(Take, d, slots)
Last2(d) == d.out[Len(d.out)][2]
HandOn(d) == [d EXCEPT !.handed = TRUE]

\* The fields of the header, behind the category.
msg_decode_hdr_v2 == <<1, 2, 3, 4, 5>>

\* symbol, month, date, year, denominator, strike, strike code
Contract == <<6, 7, 8, 9, 10, 11, 12>>
BestBid == <<31, 32, 33, 34>>
BestOffer == <<35, 36, 37, 38>>

\* What follows a quote with each letter of the BBO indicator.
Appendages ==
    [bbo \in {65, 66, 68, 69, 70, 72, 73, 74, 76, 32} |-> <<>>]      \* A B D E F H I J L, blank
    @@ [bbo \in {67, 71, 75} |-> BestOffer]                          \* C G K
    @@ [bbo \in {77, 80, 78} |-> BestBid]                            \* M P N
    @@ (79 :> BestBid \o BestOffer)                                  \* O

QuoteSizeMsg(d) ==
    Then(TakeAll(d, msg_decode_hdr_v2 \o Contract \o <<15, 25, 26, 27, 28, 29, BBO_INDICATOR>>), LAMBDA q :
         IF Last2(q) \in DOMAIN Appendages THEN HandOn(TakeAll(q, Appendages[Last2(q)])) ELSE q)

\* The messages whose fields are always the same.
OpenIntMsg == msg_decode_hdr_v2 \o Contract \o <<14>>
LastSaleMsg == msg_decode_hdr_v2 \o Contract \o <<13, 15, 16, 29>>
EodMsg == msg_decode_hdr_v2 \o Contract \o <<13, 14, 15, 17, 18, 19, 20, 21, 22, 23, 24, 25, 27>>
AdminMsg == msg_decode_hdr_v2 \o <<TEXT>>
ControlMsg == msg_decode_hdr_v2 \o <<TEXT>>

\* The foreign currency options are decoded and dropped, and so is the rest.
FcoLastSaleMsg == msg_decode_hdr_v2 \o <<6, 8, 12, 13, 16>>
FcoQuoteMsg == msg_decode_hdr_v2 \o <<6, 8, 12, 25, 27>>
FcoEodMsg == msg_decode_hdr_v2 \o <<6, 8, 12, 13, 14, 17, 18, 19, 20, 21, 22, 24>>
DefMsg == <<DEF_MSG>>

\* As many groups as the count says, each with all its fields.
Groups(d, count, slots) ==
    Then(Take(d, count), LAMBDA r : Fold(LAMBDA g, i : TakeAll(g, slots), r, [i \in 1..Last2(r) |-> i]))
SpotValues == <<NUMBER_OF_SPOT_VALUES, <<45, 46, 47>>>>
GroupOf == (32 :> <<NUMBER_OF_INDICES, <<41, 42>>>>) @@ (73 :> <<NUMBER_OF_INDICES, <<41, 43, 44>>>>)
           @@ (70 :> SpotValues) @@ (67 :> SpotValues)
UlValueMsg(d) ==
    Then(TakeAll(d, msg_decode_hdr_v2), LAMBDA h :
         LET type == h.out[2][2]
         IN  IF type \in DOMAIN GroupOf THEN HandOn(Groups(h, GroupOf[type][1], GroupOf[type][2])) ELSE h)

\* The categories handed on, d a f C H, and those dropped, O U F.
Handed == (100 :> OpenIntMsg) @@ (97 :> LastSaleMsg) @@ (102 :> EodMsg) @@ (67 :> AdminMsg) @@ (72 :> ControlMsg)
Dropped == (79 :> FcoLastSaleMsg) @@ (85 :> FcoQuoteMsg) @@ (70 :> FcoEodMsg)

\* FastOpraDecoder: the decoder of each category, k and Y among them.
FastOpraDecoder(d) ==
    LET category == Last2(d)
    IN  IF category = 107 THEN QuoteSizeMsg(d)
        ELSE IF category = 89 THEN UlValueMsg(d)
        ELSE IF category \in DOMAIN Handed THEN HandOn(TakeAll(d, Handed[category]))
        ELSE TakeAll(d, IF category \in DOMAIN Dropped THEN Dropped[category] ELSE DefMsg)

StartMsg(c) == Take([c |-> c, out |-> <<>>, handed |-> FALSE], MESSAGE_CATEGORY)

-----------------------------------------------------------------------------
(* Packets.  255 as the size means the rest of the packet.  What lies      *)
(* behind the packet in the buffer is read as 0.                           *)

From(b, at, n) == [i \in 1..n |-> IF at + i \in DOMAIN b THEN b[at + i] ELSE 0]
Input(c, b, at, size) == fast_set_input_buffer(c, From(b, at, IF size = 255 THEN Len(b) ELSE size))

\* The peek: the header of the first message up to its time.
fast_opra_hdr_info(c, b) ==
    Then(fast_decode_new_msg(Input(c, b, 1, b[1])), LAMBDA m :
         IF m.ok THEN TakeAll(StartMsg(m), msg_decode_hdr_v2).c ELSE m)

\* One turn of the loop.
DecodeMsg(s, b) ==
    LET size == b[s.at + 1]
    IN  Then(fast_decode_new_msg(Input(s.c, b, s.at + 1, size)), LAMBDA m :
             IF ~m.ok THEN [s EXCEPT !.c = m, !.over = TRUE]
             ELSE Then(FastOpraDecoder(StartMsg(m)), LAMBDA d :
                       [s EXCEPT !.c = d.c, !.msgs = Append(@, <<d.handed, d.out>>),
                                 !.at = @ + 1 + size, !.left = @ - 1 - size]))

fast_opra_decode(c, b) ==
    Fold(LAMBDA s, i : IF s.over \/ (i > 1 /\ s.left <= 1) THEN s ELSE DecodeMsg(s, b),
         [c |-> c, at |-> 0, left |-> Len(b), msgs |-> <<>>, over |-> FALSE],
         [i \in 1..4 |-> i])

-----------------------------------------------------------------------------
(* The exchange.                                                           *)

\* Numbers as the encoder sends them; a string that is sent loses its padding,
\* and one that repeats may be left out when omit says so.
SendField(c, f, omit) ==
    IF f[1] \notin StrSlots THEN fast_encode_u32(c, TagOf(f[1]), f[2])
    ELSE IF omit /\ f[1] = SECURITY_SYMBOL /\ Chars(c.cv[f[1]].str, Len(f[2])) = f[2] THEN c
    ELSE cv_set_str(fast_encode_str(c, TagOf(f[1]), Pruned(f[2])), TagOf(f[1]), f[2])

EncodeMsg(c, m, omit) == Fold(LAMBDA e, f : SendField(e, f, omit), c, m[2])

\* The messages with their sizes; the last may say 255, and must when its
\* size does not fit a byte.
Sized(body, last, mark) == <<IF last /\ (mark \/ Len(body) > 254) THEN 255 ELSE Len(body)>> \o body
EncodePacket(p, omit, mark) ==
    Fold(LAMBDA a, i : Then(EncodeMsg(a.c, p[i], omit), LAMBDA e :
                            [c |-> fast_encode_end_msg(e),
                             bytes |-> a.bytes \o Sized(flush_group(e), i = Len(p), mark)]),
         [c |-> fast_create_codec(Slots), bytes |-> <<>>], [i \in DOMAIN p |-> i]).bytes \o <<3>>

OpraFastInit ==
    codec = fast_create_codec(Slots) /\ expected = <<>> /\ decoded = <<>> /\ packets = 0

\* A packet arrives, is peeked into, and is decoded unless it is a duplicate.
OpraPacket(p) ==
    /\ packets < MaxPackets /\ packets' = packets + 1
    /\ \E omit \in BOOLEAN, mark \in BOOLEAN :
        \E b \in {EncodePacket(p, omit, mark)} :
            \E c \in {fast_opra_hdr_info(codec, b)} :
                \/ /\ codec' = c /\ UNCHANGED <<expected, decoded>>
                \/ \E s \in {fast_opra_decode(c, b)} :
                    codec' = s.c /\ expected' = p /\ decoded' = s.msgs

OpraFastNext == \E p \in Packets : OpraPacket(p)

(* A packet is decoded to the messages that were sent, whatever the codec  *)
(* went through before: other packets, peeks into packets that were not    *)
(* decoded, and the peek into this one.                                    *)
OpraRoundTrip == decoded = expected

(* Encoder and decoder agree, field by field and packet by packet.         *)
OpraExact == ApiRoundTrip /\ OpraRoundTrip

=============================================================================
