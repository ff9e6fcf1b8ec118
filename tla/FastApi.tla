------------------------------ MODULE FastApi -------------------------------
(***************************************************************************)
(* The FAST codec of the OPRA feed (codec/fast_api.c): a presence map, the *)
(* current value of each slot, and one encode and one decode operation for *)
(* each type of field under the operators NONE, COPY, INCR and DELTA.      *)
(*                                                                         *)
(* The feed handler is built with FAST_OPTIMIZE, which leaves the encoder  *)
(* and the reset of the decoder out; the encoder stands here for the       *)
(* exchange's, which is the same library.                                  *)
(*                                                                         *)
(* A codec: cv, the current values; bits and size, the presence map; msg,  *)
(* the bytes the encoder has emitted; in, the bytes not decoded yet; ok    *)
(* and val, the outcome of the last operation.                             *)
(***************************************************************************)
EXTENDS FastBytes, FiniteSets, FiniteSetsExt

CONSTANT Junk          \* what an uninitialised variable holds

MAX_PMAP_BYTES == 8

\* MAKE_TAG; the template id is always OPRA_BASE_TID.
MakeTag(type, op, slot) == [type |-> type, op |-> op, slot |-> slot]

fast_create_codec(slots) ==
    [cv |-> [s \in slots |-> [valid |-> FALSE, num |-> 0, str |-> <<>>]],
     bits |-> {}, size |-> 0, msg |-> <<>>, in |-> <<>>, ok |-> TRUE, val |-> 0]

-----------------------------------------------------------------------------
(* Current values.                                                         *)

cv_set_num(c, t, n) == [c EXCEPT !.cv[t.slot].num = n, !.cv[t.slot].valid = TRUE]

\* The buffer of a string is zero at first; a string and its NUL are written
\* over what is there.
Chars(s, n) == [i \in 1..n |-> IF i \in DOMAIN s THEN s[i] ELSE 0]
StrLen(s) == Min({i \in DOMAIN s : s[i] = 0} \cup {Len(s) + 1}) - 1
WriteOver(old, s) == s \o (IF Len(s) < Len(old) THEN SubSeq(old, Len(s) + 1, Len(old)) ELSE <<>>)
cv_set_str(c, t, s) ==
    [c EXCEPT !.cv[t.slot].str = WriteOver(@, Append(s, 0)), !.cv[t.slot].valid = TRUE]

cv_get(c, t) == c.cv[t.slot].num
cv_is_valid(c, t) == c.cv[t.slot].valid
cv_eq(c, t, n) == cv_is_valid(c, t) /\ cv_get(c, t) = n

(* As written, strings that are equal are not: a string is always sent.    *)
cv_eq_str(c, t, s) ==
    /\ cv_is_valid(c, t)
    /\ Chars(c.cv[t.slot].str, Len(s)) # s
    /\ Chars(c.cv[t.slot].str, Len(s)) = s

\* The digits a signed number needs.
i32_to_size(n) ==
    LET Fits(k) == k = MaxDigits \/ (-64 * 128 ^ (k - 1) <= n /\ n < 64 * 128 ^ (k - 1))
    IN  CHOOSE k \in 1..MaxDigits : Fits(k) /\ \A j \in 1..k - 1 : ~Fits(j)

\* An int of the machine for a value modulo Word.
Signed(n) == IF n >= Word \div 2 THEN n - Word ELSE n

-----------------------------------------------------------------------------
(* The encoder.                                                            *)

set_pmap(c, t) == [c EXCEPT !.bits = @ \cup {t.slot}]

emit(c, t, bytes) == [set_pmap(c, t) EXCEPT !.msg = @ \o Stopped(bytes)]
emit_i32(c, t, n) == emit(c, t, ToDigits(n, i32_to_size(n)))
emit_u32(c, t, n) == emit(c, t, ToDigits(n, u32_to_size(n)))
emit_str(c, t, s) == emit(c, t, s)

\* The map, as long as its last bit needs.
emit_pmap(c) ==
    LET bytes == (Max(c.bits \cup {0}) + 7) \div 7
        Byte(p) == FoldLeft(LAMBDA a, j : 2 * a + (IF 7 * p + j \in c.bits THEN 1 ELSE 0), 0,
                            <<0, 1, 2, 3, 4, 5, 6>>)
    IN  Stopped([p \in 1..bytes |-> Byte(p - 1)])

\* The bytes of the message, and the codec ready for the next.
flush_group(c) == emit_pmap(c) \o c.msg
fast_encode_end_msg(c) == [c EXCEPT !.bits = {}, !.msg = <<>>]

fast_encode_i32(c, t, n) ==
    IF t.op = "COPY" /\ cv_eq(c, t, n) THEN c ELSE emit_i32(cv_set_num(c, t, n), t, n)

\* INCR keeps the value it expects next; DELTA sends the difference.
fast_encode_u32(c, t, n) ==
    CASE t.op = "COPY" /\ cv_eq(c, t, n) -> c
      [] t.op = "INCR" /\ cv_eq(c, t, n) -> cv_set_num(c, t, (n + 1) % Word)
      [] t.op = "DELTA" /\ cv_eq(c, t, n) -> c
      [] t.op = "DELTA" /\ cv_is_valid(c, t) /\ ~cv_eq(c, t, n) ->
            emit_i32(cv_set_num(c, t, n), t, Signed((n - cv_get(c, t)) % Word))
      [] OTHER -> emit_u32(cv_set_num(c, t, IF t.op = "INCR" THEN (n + 1) % Word ELSE n), t, n)

\* The first place where two strings differ, counted from 0.
find_char_delta_offset(a, b) ==
    LET differ == {i \in DOMAIN b : i > Len(a) \/ a[i] # b[i]}
    IN  IF differ = {} THEN Len(b) ELSE Min(differ) - 1

\* DELTA sends the tail that changed, and does not mark the value as valid.
fast_encode_str(c, t, s) ==
    LET curr == c.cv[t.slot].str
        offset == find_char_delta_offset(curr, s)
    IN  CASE t.op = "COPY" /\ cv_eq_str(c, t, s) -> c
          [] t.op = "DELTA" /\ offset = Len(s) -> c
          [] t.op = "DELTA" /\ offset < Len(s) ->
                emit_str([c EXCEPT !.cv[t.slot].str = WriteOver(@, s)], t, SubSeq(s, offset + 1, Len(s)))
          [] OTHER -> emit_str(cv_set_str(c, t, s), t, s)

-----------------------------------------------------------------------------
(* The decoder.                                                            *)

fast_set_input_buffer(c, bytes) == [c EXCEPT !.in = bytes]

\* parse_bytes: the length of the next field, or -1 when it does not end
\* within the input or within size bytes.
parse_bytes(c, size) ==
    LET ends == {i \in 1..Len(c.in) : c.in[i] >= 128}
    IN  IF ends = {} \/ Min(ends) > size THEN -1 ELSE Min(ends)

\* parse_bytes uses up what it has read when it fails, too.
Failed(c, size) == [c EXCEPT !.ok = FALSE, !.val = Junk, !.in = SubSeq(@, size + 1, Len(@))]
Field(c, n) == [i \in 1..n |-> c.in[i] % 128]
Rest(c, n) == [c EXCEPT !.in = SubSeq(@, n + 1, Len(@)), !.ok = TRUE]

\* Bits behind the end of the map keep their values; size tells them apart.
parse_pmap(c) ==
    LET n == parse_bytes(c, MAX_PMAP_BYTES)
        set == {b \in 0..7 * n - 1 : (c.in[b \div 7 + 1] \div 2 ^ (6 - (b % 7))) % 2 = 1}
    IN  IF n < 0 THEN Failed(c, MAX_PMAP_BYTES)
        ELSE [Rest(c, n) EXCEPT !.bits = {b \in c.bits : b >= 7 * n} \cup set, !.size = 7 * n]

\* mutant: the bits an earlier, longer map left are taken for this one's.
get_pmapStale(c, t) == t.slot \in c.bits
get_pmap(c, t) == t.slot < c.size /\ t.slot \in c.bits

fast_decode_new_msg(c) == parse_pmap(c)

\* The number in the input, sign extended when it is signed.
parse_32(c, n, signed) ==
    FromDigits(IF signed /\ (c.in[1] % 128) >= 64 THEN Word - 1 ELSE 0, Field(c, n))

Done(c, t, n) == [cv_set_num(c, t, n) EXCEPT !.val = n, !.ok = TRUE]

\* A 32-bit field: what the input holds, or what the operator makes of none.
Absent(c, t) ==
    CASE t.op = "NONE" -> FALSE
      [] t.op \in {"INCR", "DELTA"} -> cv_is_valid(c, t)
      [] t.op = "COPY" -> cv_is_valid(c, t) \/ t.type = "I32"

Decode32(c, t) ==
    LET n == parse_bytes(c, MaxDigits)
        delta == t.op = "DELTA" /\ cv_is_valid(c, t)
        wire == parse_32(c, n, t.type = "I32" \/ delta)
    IN  IF ~get_pmap(c, t)
        THEN IF Absent(c, t)
             THEN Done(c, t, IF t.op = "INCR" THEN (cv_get(c, t) + 1) % Word ELSE cv_get(c, t))
             ELSE [c EXCEPT !.ok = FALSE, !.val = Junk]
        ELSE IF n < 0 THEN Failed(c, MaxDigits)
        ELSE Done(Rest(c, n), t, IF delta THEN (cv_get(c, t) + wire) % Word ELSE wire)

fast_decode_u32(c, t) == Decode32(c, t)
fast_decode_i32(c, t) == LET r == Decode32(c, t) IN IF r.ok THEN [r EXCEPT !.val = Signed(@)] ELSE r

\* A string of the field's size: what is not sent keeps what the caller put
\* there, and the whole of it becomes the current value.
fast_decode_str(c, t, data) ==
    LET n == parse_bytes(c, Len(data))
        size == Len(data)
        curr == c.cv[t.slot].str
        new == IF n > 0 THEN Field(c, n) \o SubSeq(data, n + 1, size) ELSE data
        Give(r, s) == [r EXCEPT !.val = s, !.ok = TRUE]
        tail == IF get_pmap(c, t) THEN Field(c, n) ELSE <<>>
        merged == Chars(curr, size - Len(tail)) \o tail
        after == IF get_pmap(c, t) THEN Rest(c, n) ELSE c
    IN  IF get_pmap(c, t) /\ n < 0 THEN Failed(c, size)
        ELSE CASE t.op = "NONE" -> IF get_pmap(c, t) THEN Give(after, new)
                                   ELSE [c EXCEPT !.ok = FALSE, !.val = Junk]
               [] t.op = "COPY" -> IF get_pmap(c, t) THEN Give(cv_set_str(after, t, new), new)
                                   ELSE Give(c, Chars(curr, size))
               [] t.op = "DELTA" /\ ~cv_is_valid(c, t) -> Give(cv_set_str(after, t, tail), Chars(cv_set_str(after, t, tail).cv[t.slot].str, size))
               [] t.op = "DELTA" /\ cv_is_valid(c, t) ->
                    IF StrLen(curr) # size THEN [after EXCEPT !.ok = FALSE, !.val = Junk]
                    ELSE Give(cv_set_str(after, t, merged), merged)

-----------------------------------------------------------------------------
(* One field after another through an encoder and a decoder, with a number *)
(* behind each that shows whether the decoder kept its place.              *)

CONSTANTS
    ApiTags,       \* the tags under test
    Numbers,       \* values of the numbers
    Strings,       \* values of the strings, of one size
    MaxFields      \* bound: messages

VARIABLES tag, writer, reader, wrote, read, fields

apiVars == <<tag, writer, reader, wrote, read, fields>>

Guard == MakeTag("U32", "NONE", 9)
ApiSlots == {0, 9}

ApiInit ==
    /\ tag \in ApiTags
    /\ writer = fast_create_codec(ApiSlots) /\ reader = fast_create_codec(ApiSlots)
    /\ wrote = <<>> /\ read = <<>> /\ fields = 0

ValuesOf(t) == CASE t.type = "U32" -> Numbers
                 [] t.type = "I32" -> {Signed(n) : n \in Numbers}
                 [] t.type = "STR" -> Strings

EncodeField(c, v) ==
    CASE tag.type = "U32" -> fast_encode_u32(c, tag, v)
      [] tag.type = "I32" -> fast_encode_i32(c, tag, v)
      [] tag.type = "STR" -> fast_encode_str(c, tag, v)

DecodeField(c) ==
    CASE tag.type = "U32" -> fast_decode_u32(c, tag)
      [] tag.type = "I32" -> fast_decode_i32(c, tag)
      [] tag.type = "STR" -> fast_decode_str(c, tag, [i \in 1..Len(CHOOSE s \in Strings : TRUE) |-> 32])

\* A message of the field and the guard, sent and read.
Exchange(v) ==
    /\ fields < MaxFields
    /\ \E w \in {fast_encode_u32(EncodeField(writer, v), Guard, fields)} :
        /\ writer' = fast_encode_end_msg(w)
        /\ \E r \in {DecodeField(fast_decode_new_msg(fast_set_input_buffer(reader, flush_group(w))))} :
            \E g \in {fast_decode_u32(r, Guard)} :
                /\ reader' = g
                /\ read' = <<r.val, g.val, g.in>>
    /\ wrote' = <<v, fields, <<>>>>
    /\ fields' = fields + 1
    /\ UNCHANGED tag

ApiNext == \E v \in ValuesOf(tag) : Exchange(v)

(* Whatever the type, the operator and the values before, the decoder      *)
(* reads what the encoder was given and nothing of what follows.           *)
ApiRoundTrip == read = wrote
=============================================================================
