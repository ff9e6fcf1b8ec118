----------------------------- MODULE FastBytes ------------------------------
(***************************************************************************)
(* What the two FAST codecs share: a field is a run of bytes 0..255 of     *)
(* which only the last is 128 or more, a number is written in digits of    *)
(* seven bits, the highest first.  Word stands for 2^32.                   *)
(***************************************************************************)
EXTENDS Integers, Sequences, SequencesExt, Eager

CONSTANT WordBytes     \* bytes of an integer

ASSUME WordBytesAssumption == WordBytes \in 1..3

Word == 2 ^ (8 * WordBytes)

\* The digits an integer may need.
MaxDigits == (8 * WordBytes + 6) \div 7

\* The number that digits stand for, on top of the bits that are there.
FromDigits(base, ds) == FoldLeft(LAMBDA a, d : (128 * a + d) % Word, base, ds)

\* The last k digits of a number, negative ones in two's complement.
ToDigits(n, k) == [i \in 1..k |-> (n \div 128 ^ (k - i)) % 128]

\* The byte that ends a field.
Stopped(bytes) == [i \in DOMAIN bytes |-> bytes[i] + (IF i = Len(bytes) THEN 128 ELSE 0)]

\* The digits an unsigned number needs.
u32_to_size(n) == CHOOSE k \in 1..MaxDigits : n < 128 ^ k /\ \A j \in 1..k - 1 : n >= 128 ^ j
=============================================================================
