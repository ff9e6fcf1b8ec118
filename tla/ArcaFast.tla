------------------------------ MODULE ArcaFast ------------------------------
(***************************************************************************)
(* The ArcaBook FAST decoder, twice: the exchange's original               *)
(* (codec/AB_FastDecode.c) and the rewritten one that is built             *)
(* (codec/newFastDecode.c).  A packet is a sequence of messages.  Each     *)
(* begins with a presence map of one bit per field; a field whose bit is   *)
(* clear has the value of the last message that had the field (COPY), or   *)
(* one more (INCR), so a message is only worth something with the table    *)
(* its predecessors in the packet left.  Fields of different messages      *)
(* share an entry of that table (ORDER_ID and the total imbalance, FIRM_ID *)
(* and the auction time, ...).                                             *)
(*                                                                         *)
(* Bytes are numbers 0..255, a byte of 128 or more ends its field, and an  *)
(* entry's value is the union of the code: the bytes of a number, low byte *)
(* first, or of a string.  Numbers are compared as numbers: the byte order *)
(* in which each decoder leaves them in the message is the same (network), *)
(* reached by different conversions.                                       *)
(***************************************************************************)
EXTENDS FastBytes, TLC

CONSTANTS
    Messages,      \* the messages the exchange may send: records type, val
    MaxMessages,   \* bound: messages in a packet
    MaxString,     \* AB_MAX_STRLEN
    ShortMaps      \* may a presence map be one byte long?

ASSUME ArcaFastAssumption ==
    MaxMessages \in Nat \ {0} /\ MaxString \in Nat \ {0} /\ ShortMaps \in BOOLEAN

VARIABLES
    sent,          \* the messages of the packet, as the exchange meant them
    encoder,       \* the exchange's table, which the decoders must follow
    packet,        \* the bytes of the packet
    cut            \* was the datagram cut short in its last message?

fastVars == <<sent, encoder, packet, cut>>

\* enum AB_FIELDS.
MSG_TYPE == 0
STOCK_IDX == 1
SEQUENCE == 2
TIME == 3
ORDER_ID == 4
VOLUME == 5
PRICE == 6
PRICE_SCALE == 7
BUY_SELL == 8
EXCH_ID == 9
SECURITY_TYPE == 10
FIRM_ID == 11
SESSION_ID == 12
BITMAP == 13
MAX_FIELD == 14
MAX_PMAP == (MAX_FIELD - 1) \div 7 + 1

\* The error codes.
OK == 0
INVALID_FIELD == -2
INVALID_STATE == -3
INCOMPLETE == -4
INVALID_HEADER == -6

\* fastStateInit.
FastStateInit ==
    [f \in 0..MAX_FIELD - 1 |->
        [valid |-> FALSE, size |-> 0, value |-> [i \in 1..WordBytes |-> 0],
         encodeType |-> IF f \in {MSG_TYPE, BITMAP} THEN "NONE"
                        ELSE IF f = SEQUENCE THEN "INCR" ELSE "COPY"]]

\* The union of an entry: a number's bytes, and a string written over them.
LowFirst(n) == [i \in 1..WordBytes |-> (n \div 2 ^ (8 * (i - 1))) % 256]
AsNumber(v) == FoldLeft(LAMBDA a, b : 256 * a + b, 0, Reverse(SubSeq(v, 1, WordBytes)))
Over(v, s) == s \o SubSeq(v, Len(s) + 1, Len(v))

ISBITSET(map, f) == (map[f \div 7 + 1] \div 2 ^ (6 - (f % 7))) % 2 = 1

-----------------------------------------------------------------------------
(* A decoder in the middle of a message: the buffer, the bytes used, the   *)
(* map, the table, the message so far, and the field's value.              *)

\* The place of the first byte from the offset on that ends a field, or 0.
FieldEnd(s) ==
    LET at == {i \in s.off + 1..Len(s.buf) : s.buf[i] >= 128}
    IN  IF at = {} THEN 0 ELSE CHOOSE i \in at : \A j \in at : i <= j

Bytes(s, end) == [i \in 1..end - s.off |-> s.buf[s.off + i] % 128]

\* mutant: the value a field is left with is not counted on.
CopyI32Still(s, f) ==
    LET e == s.tab[f]
    IN  IF e.valid /\ e.encodeType # "NONE"
        THEN [s EXCEPT !.val = IF e.encodeType = "INCR" THEN (AsNumber(e.value) + 1) % Word
                               ELSE AsNumber(e.value)]
        ELSE [s EXCEPT !.rc = INVALID_STATE]

\* DecodeI32 when the field is not in the message.
CopyI32(s, f) ==
    LET e == s.tab[f]
        n == IF e.encodeType = "INCR" THEN (AsNumber(e.value) + 1) % Word ELSE AsNumber(e.value)
    IN  IF e.valid /\ e.encodeType # "NONE"
        THEN [s EXCEPT !.tab[f].value = Over(@, LowFirst(n)), !.val = n]
        ELSE [s EXCEPT !.rc = INVALID_STATE]

\* DecodeI32 (newFastDecode.c); buf[iSize++] up to the byte with the high bit.
TakeI32(s, f) ==
    LET end == FieldEnd(s)
        n == FromDigits(0, Bytes(s, end))
        kept == [s.tab[f] EXCEPT !.valid = TRUE, !.size = WordBytes, !.value = Over(@, LowFirst(n))]
    IN  IF end = 0 THEN [s EXCEPT !.rc = INCOMPLETE]
        ELSE [s EXCEPT !.off = end, !.val = n,
                       !.tab[f] = IF @.encodeType = "NONE" THEN @ ELSE kept]

DecodeI32(s, f) == IF ISBITSET(s.pmap, f) THEN TakeI32(s, f) ELSE CopyI32(s, f)

\* The narrow integers take the low bytes of the 32-bit one.
Low(r, n) == IF r.rc = OK THEN [r EXCEPT !.val = @ % n] ELSE r
DecodeI16(s, f) == Low(DecodeI32(s, f), 65536)
DecodeI8(s, f) == Low(DecodeI32(s, f), 256)

\* A string that does not fit the entry makes the entry invalid.
DecodeASCII(s, f) ==
    LET e == s.tab[f]
        end == FieldEnd(s)
        str == Bytes(s, end)
        kept == IF Len(str) <= MaxString
                THEN [e EXCEPT !.valid = TRUE, !.size = Len(str), !.value = Over(@, str)]
                ELSE [e EXCEPT !.valid = FALSE]
    IN  IF ~ISBITSET(s.pmap, f)
        THEN IF e.valid /\ e.encodeType = "COPY"
             THEN [s EXCEPT !.val = SubSeq(e.value, 1, e.size)]
             ELSE [s EXCEPT !.rc = INVALID_STATE]
        ELSE IF end = 0 THEN [s EXCEPT !.rc = INCOMPLETE]
        ELSE [s EXCEPT !.off = end, !.val = str,
                       !.tab[f] = IF e.encodeType = "COPY" THEN kept ELSE @]

(* Seven bits of each byte make the bits of the data.  The stop bit is     *)
(* looked for only in the byte that holds the last bit of a data byte, and *)
(* the length left is compared with the number of data bytes.  What lies   *)
(* past the buffer is read as 0.                                           *)
DecodeBitmap(s, f) ==
    LET left == Len(s.buf) - s.off
        At(i) == IF s.off + i + 1 \in 1..Len(s.buf) THEN s.buf[s.off + i + 1] ELSE 0
        Bit(b) == (At(b \div 7) \div 2 ^ (6 - (b % 7))) % 2
        Data(n) == FoldLeft(LAMBDA a, j : 2 * a + Bit(8 * n + j), 0, <<0, 1, 2, 3, 4, 5, 6, 7>>)
        done == {n \in 1..left : At((8 * n - 1) \div 7) >= 128}
        size == IF done = {} THEN left ELSE CHOOSE n \in done : \A k \in done : n <= k
    IN  IF ~ISBITSET(s.pmap, f) THEN s
        ELSE IF left <= size THEN [s EXCEPT !.rc = INCOMPLETE]
        ELSE [s EXCEPT !.off = @ + (8 * size - 1) \div 7 + 1,
                       !.val = [n \in 1..size |-> Data(n - 1)]]

\* The original checks the number of the field first.
OldField(s, f) == IF f >= MAX_FIELD THEN [s EXCEPT !.rc = INVALID_FIELD] ELSE s
OldDecodeI32(s, f) == LET r == OldField(s, f) IN IF r.rc = OK THEN DecodeI32(r, f) ELSE r
OldDecodeI16(s, f) == Low(OldDecodeI32(s, f), 65536)
OldDecodeI8(s, f) == Low(OldDecodeI32(s, f), 256)
OldDecodeASCII(s, f) == LET r == OldField(s, f) IN IF r.rc = OK THEN DecodeASCII(r, f) ELSE r
OldDecodeBitmap(s, f) == LET r == OldField(s, f) IN IF r.rc = OK THEN DecodeBitmap(r, f) ELSE r

-----------------------------------------------------------------------------
(* The fields of each message, in the order the decoder takes them: the    *)
(* kind of the field and its entry of the table.                           *)

I32(f) == <<"I32", f>>
I16(f) == <<"I16", f>>
I8(f) == <<"I8", f>>
Ascii(f) == <<"ASCII", f>>

\* The original's switch.
OldAdd == <<I16(STOCK_IDX), I32(SEQUENCE), I32(TIME), I32(ORDER_ID), I32(VOLUME), I32(PRICE),
            I8(PRICE_SCALE), Ascii(BUY_SELL), Ascii(EXCH_ID), Ascii(SECURITY_TYPE),
            I16(FIRM_ID), I8(SESSION_ID)>>
OldModify == <<I16(STOCK_IDX), I32(SEQUENCE), I32(TIME), I32(ORDER_ID), I32(VOLUME), I32(PRICE),
               I8(PRICE_SCALE), Ascii(BUY_SELL), Ascii(EXCH_ID), Ascii(SECURITY_TYPE),
               I16(FIRM_ID), I8(SESSION_ID)>>
OldDelete == <<I16(STOCK_IDX), I32(SEQUENCE), I32(TIME), I32(ORDER_ID), Ascii(BUY_SELL),
               Ascii(EXCH_ID), Ascii(SECURITY_TYPE), I8(SESSION_ID), I16(FIRM_ID)>>
OldImbalance == <<I16(STOCK_IDX), I32(SEQUENCE), I32(TIME), I32(VOLUME), I32(ORDER_ID),
                  I32(BITMAP), I32(PRICE), I8(PRICE_SCALE), Ascii(BUY_SELL), Ascii(EXCH_ID),
                  Ascii(SECURITY_TYPE), I8(SESSION_ID), I16(FIRM_ID)>>
OldSymbolUpdate == <<I16(STOCK_IDX), I8(SESSION_ID), Ascii(BITMAP)>>
OldSymbolClear == <<I32(SEQUENCE), I16(STOCK_IDX), Ascii(SESSION_ID)>>
OldFirmUpdate == <<I16(FIRM_ID), Ascii(BITMAP)>>
OldBookRefresh == <<I32(SEQUENCE), I32(TIME), I32(ORDER_ID), I32(VOLUME), I32(PRICE),
                    I8(PRICE_SCALE), Ascii(BUY_SELL), Ascii(EXCH_ID), Ascii(SECURITY_TYPE),
                    I16(FIRM_ID)>>
OldSequenceReset == <<I32(SEQUENCE)>>

OldFields ==
    100 :> OldAdd @@ 101 :> OldModify @@ 102 :> OldDelete @@ 103 :> OldImbalance
    @@ 35 :> OldSymbolUpdate @@ 36 :> OldSymbolClear @@ 37 :> OldFirmUpdate
    @@ 32 :> OldBookRefresh @@ 1 :> OldSequenceReset

\* The rewritten one: what the four frequent messages share, then the rest of each.
NewFrequent == <<I16(STOCK_IDX), I32(SEQUENCE), I32(TIME)>>
NewAddModify == <<I32(ORDER_ID), I32(VOLUME), I32(PRICE), I8(PRICE_SCALE), Ascii(BUY_SELL),
                  Ascii(EXCH_ID), Ascii(SECURITY_TYPE), I16(FIRM_ID), I8(SESSION_ID)>>
\* mutant: the delete message in the order of the add message.
NewDeleteAsAdd == <<I32(ORDER_ID), Ascii(BUY_SELL), Ascii(EXCH_ID), Ascii(SECURITY_TYPE),
                    I16(FIRM_ID), I8(SESSION_ID)>>
NewDelete == <<I32(ORDER_ID), Ascii(BUY_SELL), Ascii(EXCH_ID), Ascii(SECURITY_TYPE),
               I8(SESSION_ID), I16(FIRM_ID)>>
NewImbalance == <<I32(VOLUME), I32(ORDER_ID), I32(BITMAP), I32(PRICE), I8(PRICE_SCALE),
                  Ascii(BUY_SELL), Ascii(EXCH_ID), Ascii(SECURITY_TYPE), I8(SESSION_ID),
                  I16(FIRM_ID)>>
NewOthers ==
    35 :> <<I16(STOCK_IDX), I8(SESSION_ID), Ascii(BITMAP)>>
    @@ 36 :> <<I32(SEQUENCE), I16(STOCK_IDX), Ascii(SESSION_ID)>>
    @@ 37 :> <<I16(FIRM_ID), Ascii(BITMAP)>>
    @@ 32 :> <<I32(SEQUENCE), I32(TIME), I32(ORDER_ID), I32(VOLUME), I32(PRICE), I8(PRICE_SCALE),
               Ascii(BUY_SELL), Ascii(EXCH_ID), Ascii(SECURITY_TYPE), I16(FIRM_ID)>>
    @@ 1 :> <<I32(SEQUENCE)>>
NewFields ==
    100 :> NewFrequent \o NewAddModify @@ 101 :> NewFrequent \o NewAddModify
    @@ 102 :> NewFrequent \o NewDelete @@ 103 :> NewFrequent \o NewImbalance
    @@ NewOthers

-----------------------------------------------------------------------------
(* One message.  The value of a one-character field is its first byte: a   *)
(* longer string would run over the field behind it.                       *)

Narrow(d, v) == IF d[1] = "ASCII" /\ d[2] # BITMAP THEN v[1] ELSE v
Put(s, d) == IF s.rc = OK THEN [s EXCEPT !.out = @ @@ (d[2] :> Narrow(d, s.val))] ELSE s

\* The presence map of the original: its length, and its bytes.
PmapLen(b, off) ==
    LET ends == {i \in 1..MAX_PMAP : i = MAX_PMAP \/ b[off + i] >= 128}
    IN  CHOOSE i \in ends : \A j \in ends : i <= j
OldPmap(b, off) == SubSeq(b, off + 1, off + PmapLen(b, off))

\* copyPmap: a byte is copied only once it is known not to be the last, or
\* when it is the last that fits.
CopyPmap(b, off) ==
    IF b[off + 1] >= 128 THEN <<0>> ELSE <<b[off + 1], b[off + 2]>>

\* ABFastValidate on the map it found.
Validate(map) ==
    IF map[Len(map)] < 128 THEN INVALID_HEADER
    ELSE IF ~ISBITSET(map, MSG_TYPE) THEN INVALID_HEADER ELSE OK

\* The decoder behind the map; the map's unused bytes are zero.
Start(b, off, map, tab) ==
    [buf |-> b, off |-> off + Len(map), rc |-> Validate(map), tab |-> tab, val |-> 0, type |-> 0,
     pmap |-> map \o [i \in 1..MAX_PMAP - Len(map) |-> 0], out |-> <<>>]

\* What ABFastDecode returns: the message only when all went well.
Result(s) == [rc |-> s.rc, off |-> s.off, tab |-> s.tab, msg |-> [type |-> s.type, val |-> s.out]]

OldStep(s, d) ==
    IF s.rc # OK THEN s
    ELSE Put(CASE d[1] = "I32" -> OldDecodeI32(s, d[2]) [] d[1] = "I16" -> OldDecodeI16(s, d[2])
               [] d[1] = "I8" -> OldDecodeI8(s, d[2]) [] d[1] = "ASCII" -> OldDecodeASCII(s, d[2]), d)

NewStep(s, d) ==
    IF s.rc # OK THEN s
    ELSE Put(CASE d[1] = "I32" -> DecodeI32(s, d[2]) [] d[1] = "I16" -> DecodeI16(s, d[2])
               [] d[1] = "I8" -> DecodeI8(s, d[2]) [] d[1] = "ASCII" -> DecodeASCII(s, d[2]), d)

\* Every other type of message: the length of the type is skipped once more.
SkipAgain(t, before) == [t EXCEPT !.off = @ + (t.off - before.off), !.out = <<>>]

\* The fields behind the type, which t has just decoded.
OldBody(s, t) ==
    IF t.rc # OK THEN t
    ELSE IF t.val \in DOMAIN OldFields THEN Fold(OldStep, [t EXCEPT !.type = t.val], OldFields[t.val])
    ELSE OldDecodeBitmap([SkipAgain(t, s) EXCEPT !.type = t.val], BITMAP)
NewBody(s, t) ==
    IF t.rc # OK THEN t
    ELSE IF t.val \in DOMAIN NewFields THEN Fold(NewStep, [t EXCEPT !.type = t.val], NewFields[t.val])
    ELSE DecodeBitmap([SkipAgain(t, s) EXCEPT !.type = t.val], BITMAP)

\* The original works on a copy of the table and returns it when all went well.
OldABFastDecode(b, off, tab) ==
    IF Len(b) - off < 2 THEN [rc |-> INCOMPLETE, tab |-> tab]
    ELSE Then(Start(b, off, OldPmap(b, off), tab), LAMBDA s :
              Then(IF s.rc # OK THEN s
                   ELSE Then(OldDecodeI16(s, MSG_TYPE), LAMBDA t : OldBody(s, t)), LAMBDA r :
                   IF r.rc = OK THEN Result(r) ELSE [rc |-> r.rc, tab |-> tab]))

\* The rewritten one changes the caller's table as it goes.
ABFastDecode(b, off, tab) ==
    IF Len(b) - off < 2 THEN [rc |-> INCOMPLETE, tab |-> tab]
    ELSE Then(Start(b, off, CopyPmap(b, off), tab), LAMBDA s :
              IF s.rc # OK THEN Result(s)
              ELSE Then(DecodeI16(s, MSG_TYPE), LAMBDA t : Result(NewBody(s, t))))

-----------------------------------------------------------------------------
(* A packet: the table is started again, and messages are decoded until    *)
(* the buffer is used up or one fails.                                     *)

PacketStart == [off |-> 0, rc |-> OK, tab |-> FastStateInit, msgs |-> <<>>]

PacketStep(p, r) ==
    IF r.rc = OK THEN [off |-> r.off, rc |-> OK, tab |-> r.tab, msgs |-> Append(p.msgs, r.msg)]
    ELSE [p EXCEPT !.rc = r.rc]

PacketOver(p, b) == p.rc # OK \/ p.off >= Len(b)

Turns == [i \in 1..MaxMessages + 1 |-> i]

OldPacket(b) ==
    Fold(LAMBDA p, i : IF PacketOver(p, b) THEN p
                       ELSE PacketStep(p, OldABFastDecode(b, p.off, p.tab)), PacketStart, Turns)
NewPacket(b) ==
    Fold(LAMBDA p, i : IF PacketOver(p, b) THEN p
                       ELSE PacketStep(p, ABFastDecode(b, p.off, p.tab)), PacketStart, Turns)

-----------------------------------------------------------------------------
(* The exchange's encoder.                                                 *)

Digits(n) == Stopped(ToDigits(n, u32_to_size(n)))

\* The descriptors of a message, and the bytes of its field d.
Descriptors(m) == IF m.type \in DOMAIN OldFields THEN OldFields[m.type] ELSE <<>>
Encoded(m, d) == IF d[1] # "ASCII" THEN Digits(m.val[d[2]])
                 ELSE IF d[2] = BITMAP THEN Stopped(m.val[d[2]]) ELSE Stopped(<<m.val[d[2]]>>)

\* The fields that may be left out, as the encoder's table stands.
Omissible(m) ==
    {f \in {Descriptors(m)[i][2] : i \in DOMAIN Descriptors(m)} \ {BITMAP} :
        /\ encoder[f] # -1
        /\ m.val[f] = IF f = SEQUENCE THEN encoder[f] + 1 ELSE encoder[f]}

MapBytes(present) ==
    LET Byte(k) == FoldLeft(LAMBDA a, j : 2 * a + (IF 7 * k + j \in present THEN 1 ELSE 0), 0,
                            <<0, 1, 2, 3, 4, 5, 6>>)
    IN  IF ShortMaps /\ Byte(1) = 0 THEN <<Byte(0) + 128>> ELSE <<Byte(0), Byte(1) + 128>>

\* A message without the fields of omit.
Encode(m, omit) ==
    LET ds == SelectSeq(Descriptors(m), LAMBDA d : d[2] \notin omit)
    IN  MapBytes({MSG_TYPE} \cup {ds[i][2] : i \in DOMAIN ds}) \o Digits(m.type)
        \o FlattenSeq([i \in DOMAIN ds |-> Encoded(m, ds[i])])

FastInit == sent = <<>> /\ encoder = [f \in 0..MAX_FIELD - 1 |-> -1] /\ packet = <<>> /\ cut = FALSE

\* The exchange leaves out all it may, what it may of the first fields, or nothing.
Send(m) ==
    /\ Len(sent) < MaxMessages /\ ~cut
    /\ \E omit \in {{}, Omissible(m), {f \in Omissible(m) : f < 7}} :
        packet' = packet \o Encode(m, omit)
    /\ sent' = Append(sent, m)
    /\ encoder' = [f \in DOMAIN encoder |->
                    IF f \in {Descriptors(m)[i][2] : i \in DOMAIN Descriptors(m)} THEN
                    m.val[f] ELSE encoder[f]]
    /\ UNCHANGED cut

\* The datagram is shorter than the packet: the last message lost its end.
CutShort ==
    /\ ~cut /\ packet # <<>>
    /\ \E n \in 1..2 :
        /\ n < Len(packet)
        /\ packet' = SubSeq(packet, 1, Len(packet) - n)
    /\ cut' = TRUE
    /\ UNCHANGED <<sent, encoder>>

FastNext == (\E m \in Messages : Send(m)) \/ CutShort

-----------------------------------------------------------------------------
\* Are the messages of the packet all of a type the decoders know?
Known == \A i \in DOMAIN sent : sent[i].type \in DOMAIN OldFields

Agree(old, new) == /\ old.rc = new.rc /\ old.off = new.off /\ old.msgs = new.msgs
                   /\ old.rc = OK => old.tab = new.tab

(* The rewritten decoder gives the messages, the error and, when there is  *)
(* none, the table of the original (newFastDecode.c:386), cut packets      *)
(* included; behind a message of an unknown type both have lost their      *)
(* place.                                                                  *)
ArcaAgree ==
    (\A i \in 1..Len(sent) - 1 : sent[i].type \in DOMAIN OldFields) =>
        Agree(OldPacket(packet), NewPacket(packet))

(* A packet that arrives whole is decoded to the messages that were sent,  *)
(* although most of their fields come from earlier messages, some of       *)
(* another type.                                                           *)
ArcaRoundTrip ==
    Known /\ ~cut => LET p == NewPacket(packet) IN p.rc = OK /\ p.msgs = sent

(* A message that lost its end is never taken for a message: the packet    *)
(* ends with an error behind the messages that are whole.                  *)
ArcaCutNoticed ==
    Known /\ cut => LET p == NewPacket(packet) IN p.rc # OK /\ p.msgs = Front(sent)

(* Whole packets are decoded exactly and cut ones are noticed.             *)
ArcaExact == ArcaRoundTrip /\ ArcaCutNoticed

=============================================================================
