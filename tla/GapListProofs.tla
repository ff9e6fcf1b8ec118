---------------------------- MODULE GapListProofs ----------------------------
(***************************************************************************)
(* What push, del and flush do to the numbers a gap list covers, for lists *)
(* and gaps of any size.                                                   *)
(***************************************************************************)
EXTENDS GapList, FiniteSets, SequenceTheorems, FiniteSetTheorems, TLAPS

\* The fields of a record of a list.
LEMMA RecordFields ==
  ASSUME NEW g \in Seq(Gap), NEW i \in 1..Len(g)
  PROVE  /\ g[i] \in Gap
         /\ g[i].seq_no \in Nat /\ g[i].size \in Nat /\ g[i].timestamp \in Nat
<1>1. g[i] \in Gap
  OBVIOUS
<1> QED
  BY <1>1 DEF Gap

\* A number is missing when some record covers it.
LEMMA MissingMember ==
  ASSUME NEW g \in Seq(Gap), NEW s
  PROVE  s \in Missing(g) <=>
           /\ s \in Int
           /\ \E i \in 1..Len(g) : g[i].seq_no <= s /\ s < g[i].seq_no + g[i].size
<1>1. \A i \in 1..Len(g) : g[i] \in Gap
  OBVIOUS
<1>2. \A i \in 1..Len(g) :
        s \in Span(g[i]) <=>
          s \in Int /\ g[i].seq_no <= s /\ s < g[i].seq_no + g[i].size
  BY <1>1 DEF Gap, Span
<1> QED
  BY <1>2 DEF Missing

-----------------------------------------------------------------------------
(* Parts of a list.                                                         *)

\* A function on 1..n with values in Gap is a list of n records.
LEMMA FunctionIsList ==
  ASSUME NEW n \in Nat, NEW h \in [1..n -> Gap]
  PROVE  h \in Seq(Gap) /\ Len(h) = n
  OBVIOUS

\* The records of a list without its first k.
LEMMA DropPrefixElements ==
  ASSUME NEW g \in Seq(Gap), NEW k \in 0..Len(g)
  PROVE  /\ DropPrefix(g, k) \in Seq(Gap)
         /\ Len(DropPrefix(g, k)) = Len(g) - k
         /\ \A j \in 1..(Len(g) - k) : DropPrefix(g, k)[j] = g[k + j]
<1>1. DropPrefix(g, k) \in [1..(Len(g) - k) -> Gap]
  BY DEF DropPrefix
<1> QED
  BY <1>1, FunctionIsList DEF DropPrefix

\* The records of a list without record i.
LEMMA RemoveRecordElements ==
  ASSUME NEW g \in Seq(Gap), NEW i \in 1..Len(g)
  PROVE  /\ RemoveRecord(g, i) \in Seq(Gap)
         /\ Len(RemoveRecord(g, i)) = Len(g) - 1
         /\ \A k \in 1..(Len(g) - 1) :
              RemoveRecord(g, i)[k] = IF k < i THEN g[k] ELSE g[k + 1]
<1>1. RemoveRecord(g, i) \in [1..(Len(g) - 1) -> Gap]
  BY DEF RemoveRecord
<1> QED
  BY <1>1, FunctionIsList DEF RemoveRecord

\* The records of a list whose record i is replaced by lo and hi.
LEMMA SplitRecordElements ==
  ASSUME NEW g \in Seq(Gap), NEW i \in 1..Len(g), NEW lo \in Gap, NEW hi \in Gap
  PROVE  /\ SplitRecord(g, i, lo, hi) \in Seq(Gap)
         /\ Len(SplitRecord(g, i, lo, hi)) = Len(g) + 1
         /\ \A k \in 1..(Len(g) + 1) :
              SplitRecord(g, i, lo, hi)[k] =
                IF k < i THEN g[k]
                ELSE IF k = i THEN lo
                ELSE IF k = i + 1 THEN hi ELSE g[k - 1]
<1>1. SplitRecord(g, i, lo, hi) \in [1..(Len(g) + 1) -> Gap]
  BY DEF SplitRecord
<1> QED
  BY <1>1, FunctionIsList DEF SplitRecord

-----------------------------------------------------------------------------
(* The operations.                                                          *)

\* Dropping records from the head keeps order and adds no missing number.
LEMMA DropPrefixKeeps ==
  ASSUME NEW g \in Seq(Gap), NEW k \in 0..Len(g), Ordered(g)
  PROVE  /\ DropPrefix(g, k) \in Seq(Gap)
         /\ Ordered(DropPrefix(g, k))
         /\ Missing(DropPrefix(g, k)) \subseteq Missing(g)
         /\ \A n \in Nat : AllBelow(g, n) => AllBelow(DropPrefix(g, k), n)
<1> DEFINE h == DropPrefix(g, k)
<1>1. /\ h \in Seq(Gap) /\ Len(h) = Len(g) - k
      /\ \A j \in 1..(Len(g) - k) : h[j] = g[k + j]
  BY DropPrefixElements
<1> HIDE DEF h
<1>2. Ordered(h)
  BY <1>1 DEF Ordered
<1>3. Missing(h) \subseteq Missing(g)
  <2> SUFFICES ASSUME NEW s \in Missing(h) PROVE s \in Missing(g)
    OBVIOUS
  <2>1. s \in Int /\ \E j \in 1..Len(h) : h[j].seq_no <= s /\ s < h[j].seq_no + h[j].size
    BY <1>1, MissingMember
  <2>2. \E i \in 1..Len(g) : g[i].seq_no <= s /\ s < g[i].seq_no + g[i].size
    BY <1>1, <2>1
  <2> QED
    BY <2>1, <2>2, MissingMember
<1>4. \A n \in Nat : AllBelow(g, n) => AllBelow(h, n)
  BY <1>1 DEF AllBelow
<1> QED
  BY <1>1, <1>2, <1>3, <1>4 DEF h

\* A push above every record keeps order and adds just the numbers pushed.
LEMMA PushGapKeeps ==
  ASSUME NEW g \in Seq(Gap), Ordered(g), GapMax > 0,
         NEW s \in Nat, NEW n \in Nat, NEW t \in Nat,
         AllBelow(g, s)
  PROVE  /\ PushGap(g, s, n, t) \in Seq(Gap)
         /\ Ordered(PushGap(g, s, n, t))
         /\ Missing(PushGap(g, s, n, t)) \subseteq Missing(g) \cup (s .. (s + n - 1))
         /\ AllBelow(PushGap(g, s, n, t), s + n)
<1> DEFINE f == IF ListFull(g) THEN DropPrefix(g, 1) ELSE g
           c == NewGap(s, n, t)
           h == Append(f, c)
<1>1. c \in Gap /\ c.seq_no = s /\ c.size = n
  BY DEF NewGap, Gap
<1>2. /\ f \in Seq(Gap)
      /\ Ordered(f)
      /\ \A j \in 1..Len(f) : \E i \in 1..Len(g) : f[j] = g[i]
  <2>1. CASE ListFull(g)
    <3>1. 1 \in 0..Len(g)
      BY <2>1, GapAssumption DEF ListFull
    <3>2. /\ DropPrefix(g, 1) \in Seq(Gap) /\ Len(DropPrefix(g, 1)) = Len(g) - 1
          /\ \A j \in 1..(Len(g) - 1) : DropPrefix(g, 1)[j] = g[1 + j]
      BY <3>1, DropPrefixElements
    <3>3. Ordered(DropPrefix(g, 1))
      BY <3>1, DropPrefixKeeps
    <3> QED
      BY <2>1, <3>2, <3>3
  <2>2. CASE ~ListFull(g)
    BY <2>2
  <2> QED
    BY <2>1, <2>2
<1> HIDE DEF f, c
<1>3. /\ h \in Seq(Gap) /\ Len(h) = Len(f) + 1
      /\ \A j \in 1..Len(f) : h[j] = f[j]
      /\ h[Len(f) + 1] = c
  BY <1>1, <1>2
<1> HIDE DEF h
<1>4. Ordered(h)
  <2> SUFFICES ASSUME NEW i \in 1..Len(h), NEW j \in 1..Len(h), i < j
               PROVE  h[i].seq_no + h[i].size <= h[j].seq_no
    BY DEF Ordered
  <2>1. CASE j = Len(f) + 1
    <3>1. i \in 1..Len(f) /\ h[i] = f[i]
      BY <1>2, <1>3, <2>1
    <3>2. PICK m \in 1..Len(g) : f[i] = g[m]
      BY <1>2, <3>1
    <3>3. g[m].seq_no + g[m].size <= s
      BY DEF AllBelow
    <3> QED
      BY <1>1, <1>3, <2>1, <3>1, <3>2, <3>3
  <2>2. CASE j # Len(f) + 1
    <3>1. i \in 1..Len(f) /\ j \in 1..Len(f)
      <4>1. Len(f) \in Nat /\ Len(h) = Len(f) + 1
        BY <1>2, <1>3
      <4> QED
        BY <2>2, <4>1
    <3>2. f[i].seq_no + f[i].size <= f[j].seq_no
      BY <1>2, <3>1 DEF Ordered
    <3> QED
      BY <1>3, <3>1, <3>2
  <2> QED
    BY <2>1, <2>2
<1>5. Missing(h) \subseteq Missing(g) \cup (s .. (s + n - 1))
  <2> SUFFICES ASSUME NEW x \in Missing(h), x \notin s .. (s + n - 1)
               PROVE  x \in Missing(g)
    OBVIOUS
  <2>1. x \in Int
    BY <1>3, MissingMember
  <2>2. PICK j \in 1..Len(h) : h[j].seq_no <= x /\ x < h[j].seq_no + h[j].size
    BY <1>3, MissingMember
  <2>3. j # Len(f) + 1
    BY <1>1, <1>3, <2>1, <2>2
  <2>4. \E i \in 1..Len(g) : g[i].seq_no <= x /\ x < g[i].seq_no + g[i].size
    <3>1. j \in 1..Len(f) /\ h[j] = f[j]
      BY <1>2, <1>3, <2>3
    <3>2. PICK i \in 1..Len(g) : f[j] = g[i]
      BY <1>2, <3>1
    <3> QED
      BY <2>2, <3>1, <3>2
  <2> QED
    BY <2>1, <2>4, MissingMember
<1>6. AllBelow(h, s + n)
  <2> SUFFICES ASSUME NEW j \in 1..Len(h) PROVE h[j].seq_no + h[j].size <= s + n
    BY DEF AllBelow
  <2>1. CASE j = Len(f) + 1
    BY <1>1, <1>3, <2>1
  <2>2. CASE j # Len(f) + 1
    <3>1. j \in 1..Len(f) /\ h[j] = f[j]
      BY <1>2, <1>3, <2>2
    <3>2. PICK i \in 1..Len(g) : f[j] = g[i]
      BY <1>2, <3>1
    <3>3. g[i].seq_no + g[i].size <= s /\ g[i].seq_no \in Nat /\ g[i].size \in Nat
      BY RecordFields DEF AllBelow
    <3> QED
      BY <3>1, <3>2, <3>3
  <2> QED
    BY <2>1, <2>2
<1> QED
  BY <1>3, <1>4, <1>5, <1>6 DEF PushGap, h, f, c

\* Record d is cut out of record c and does not cover s.
CutOut(d, c, s) ==
  /\ c.seq_no <= d.seq_no
  /\ d.seq_no + d.size <= c.seq_no + c.size
  /\ s < d.seq_no \/ d.seq_no + d.size <= s

Before(c, d) == c.seq_no + c.size <= d.seq_no

\* What is cut out of two records in order is in order.
LEMMA CutOutBefore ==
  ASSUME NEW a \in Gap, NEW b \in Gap, NEW c \in Gap, NEW d \in Gap, NEW s \in Nat,
         CutOut(a, c, s), CutOut(b, d, s), Before(c, d)
  PROVE  Before(a, b)
  BY DEF CutOut, Before, Gap

\* What a cut-out record covers, its origin covers, and it is not s.
LEMMA CutOutCovers ==
  ASSUME NEW c \in Gap, NEW d \in Gap, NEW s \in Nat, NEW x \in Int, CutOut(d, c, s),
         d.seq_no <= x, x < d.seq_no + d.size
  PROVE  c.seq_no <= x /\ x < c.seq_no + c.size /\ x # s
  BY DEF CutOut, Gap

\* A cut-out record ends where its origin does, or before.
LEMMA CutOutBelow ==
  ASSUME NEW c \in Gap, NEW d \in Gap, NEW s \in Nat, NEW n \in Nat, CutOut(d, c, s),
         c.seq_no + c.size <= n
  PROVE  d.seq_no + d.size <= n
  BY DEF CutOut, Gap

\* What del must leave: a list in order that covers no new number, and not s.
Fills(g, h, s) ==
  /\ h \in Seq(Gap)
  /\ Ordered(h)
  /\ Missing(h) \subseteq Missing(g) \ {s}
  /\ \A n \in Nat : AllBelow(g, n) => AllBelow(h, n)

\* The records of h are cut out of the records of g, in the same order and
\* none covering s; f says which record of g a record of h was cut out of.
CutOutOf(g, h, f, s) ==
  /\ h \in Seq(Gap)
  /\ f \in [1..Len(h) -> 1..Len(g)]
  /\ \A k \in 1..Len(h) : CutOut(h[k], g[f[k]], s)
  /\ \A k, l \in 1..Len(h) : k < l => f[k] < f[l] \/ Before(h[k], h[l])

\* Such a list is what del must leave.
LEMMA CutOutFills ==
  ASSUME NEW g \in Seq(Gap), Ordered(g), NEW h, NEW s \in Nat, NEW f,
         CutOutOf(g, h, f, s)
  PROVE  Fills(g, h, s)
<1>0. /\ h \in Seq(Gap)
      /\ f \in [1..Len(h) -> 1..Len(g)]
      /\ \A k \in 1..Len(h) : CutOut(h[k], g[f[k]], s)
      /\ \A k, l \in 1..Len(h) : k < l => f[k] < f[l] \/ Before(h[k], h[l])
  BY DEF CutOutOf
<1>1. Ordered(h)
  <2>1. ASSUME NEW k \in 1..Len(h), NEW l \in 1..Len(h), k < l
        PROVE  Before(h[k], h[l])
    <3>1. f[k] \in 1..Len(g) /\ f[l] \in 1..Len(g)
      BY <1>0
    <3>2. CASE f[k] < f[l]
      <4>1. Before(g[f[k]], g[f[l]])
        BY <3>1, <3>2 DEF Ordered, Before
      <4>2. g[f[k]] \in Gap /\ g[f[l]] \in Gap /\ h[k] \in Gap /\ h[l] \in Gap
        BY <1>0, <3>1
      <4>3. CutOut(h[k], g[f[k]], s) /\ CutOut(h[l], g[f[l]], s)
        BY <1>0
      <4> QED
        BY <4>1, <4>2, <4>3, CutOutBefore
    <3> QED
      BY <1>0, <2>1, <3>2
  <2> QED
    BY <2>1 DEF Ordered, Before
<1>2. ASSUME NEW x \in Missing(h) PROVE x \in Missing(g) \ {s}
  <2>1. x \in Int
    BY <1>0, MissingMember
  <2>2. PICK k \in 1..Len(h) : h[k].seq_no <= x /\ x < h[k].seq_no + h[k].size
    BY <1>0, MissingMember
  <2> DEFINE i == f[k]
             c == g[i]
             d == h[k]
  <2>3. i \in 1..Len(g) /\ c \in Gap /\ d \in Gap /\ CutOut(d, c, s)
    BY <1>0
  <2>4. d.seq_no <= x /\ x < d.seq_no + d.size
    BY <2>2
  <2> HIDE DEF i, c, d
  <2>5. c.seq_no <= x /\ x < c.seq_no + c.size /\ x # s
    BY <2>1, <2>3, <2>4, CutOutCovers
  <2>6. \E n \in 1..Len(g) : g[n].seq_no <= x /\ x < g[n].seq_no + g[n].size
    BY <2>3, <2>5 DEF c
  <2> QED
    BY <2>1, <2>5, <2>6, MissingMember
<1>3. ASSUME NEW n \in Nat, AllBelow(g, n), NEW k \in 1..Len(h)
      PROVE  h[k].seq_no + h[k].size <= n
  <2> DEFINE i == f[k]
             c == g[i]
             d == h[k]
  <2>1. i \in 1..Len(g) /\ c \in Gap /\ d \in Gap /\ CutOut(d, c, s)
    BY <1>0
  <2>2. c.seq_no + c.size <= n
    BY <1>3, <2>1 DEF AllBelow
  <2> HIDE DEF i, c, d
  <2>3. d.seq_no + d.size <= n
    BY <2>1, <2>2, CutOutBelow
  <2> QED
    BY <2>3 DEF d
<1> QED
  BY <1>0, <1>1, <1>2, <1>3 DEF AllBelow, Fills

\* The two halves of a record cut at s.
LEMMA Halves ==
  ASSUME NEW c \in Gap, NEW s \in Span(c), NEW t \in Nat
  PROVE  /\ s \in Nat
         /\ Below(c, s) \in Gap /\ CutOut(Below(c, s), c, s)
         /\ Above(c, s, t) \in Gap /\ CutOut(Above(c, s, t), c, s)
         /\ Before(Below(c, s), Above(c, s, t))
<1>1. s \in Nat /\ c.seq_no <= s /\ s < c.seq_no + c.size
  BY DEF Span, Gap
<1>2. /\ Below(c, s) \in Gap /\ Below(c, s).seq_no = c.seq_no
      /\ Below(c, s).size = s - c.seq_no
  BY <1>1 DEF Below, Gap
<1>3. /\ Above(c, s, t) \in Gap /\ Above(c, s, t).seq_no = s + 1
      /\ Above(c, s, t).size = c.size - (s - c.seq_no) - 1
  BY <1>1 DEF Above, NewGap, Gap
<1> QED
  BY <1>1, <1>2, <1>3 DEF CutOut, Before, Gap

\* A record before or after the one that covers s does not cover it.
LEMMA NotCovered ==
  ASSUME NEW c \in Gap, NEW d \in Gap, NEW s \in Span(c), Before(c, d) \/ Before(d, c)
  PROVE  CutOut(d, d, s)
<1>1. s \in Int /\ c.seq_no <= s /\ s < c.seq_no + c.size
  BY DEF Span, Gap
<1>2. c.seq_no \in Nat /\ c.size \in Nat /\ d.seq_no \in Nat /\ d.size \in Nat
  BY DEF Gap
<1> QED
  BY <1>1, <1>2 DEF CutOut, Before

\* In an ordered list only one record covers s.
LEMMA OtherRecords ==
  ASSUME NEW g \in Seq(Gap), Ordered(g), NEW i \in 1..Len(g), NEW s \in Span(g[i]),
         NEW j \in 1..Len(g), j # i
  PROVE  CutOut(g[j], g[j], s)
<1>1. g[i] \in Gap /\ g[j] \in Gap
  OBVIOUS
<1>2. Before(g[i], g[j]) \/ Before(g[j], g[i])
  BY DEF Ordered, Before
<1> QED
  BY <1>1, <1>2, NotCovered

\* A record shrinks.
LEMMA ShrinkFills ==
  ASSUME NEW g \in Seq(Gap), Ordered(g), NEW i \in 1..Len(g), NEW s \in Span(g[i]),
         s \in Nat, NEW d \in Gap, CutOut(d, g[i], s)
  PROVE  Fills(g, [g EXCEPT ![i] = d], s)
<1> DEFINE h == [g EXCEPT ![i] = d]
           f == [k \in 1..Len(g) |-> k]
<1>1. /\ h \in Seq(Gap) /\ Len(h) = Len(g)
      /\ \A k \in 1..Len(g) : h[k] = IF k = i THEN d ELSE g[k]
  OBVIOUS
<1>2. \A j \in 1..Len(g) : j # i => CutOut(g[j], g[j], s)
  BY OtherRecords
<1> HIDE DEF h
<1>3. \A k \in 1..Len(h) : CutOut(h[k], g[f[k]], s)
  BY <1>1, <1>2
<1>4. f \in [1..Len(h) -> 1..Len(g)] /\ \A k, l \in 1..Len(h) : k < l => f[k] < f[l]
  BY <1>1
<1> HIDE DEF f
<1>5. CutOutOf(g, h, f, s)
  BY <1>1, <1>3, <1>4 DEF CutOutOf
<1> QED
  BY <1>5, CutOutFills DEF h

\* The record disappears.
LEMMA RemoveFills ==
  ASSUME NEW g \in Seq(Gap), Ordered(g), NEW i \in 1..Len(g), NEW s \in Span(g[i]),
         s \in Nat
  PROVE  Fills(g, RemoveRecord(g, i), s)
<1> DEFINE h == RemoveRecord(g, i)
           f == [k \in 1..(Len(g) - 1) |-> IF k < i THEN k ELSE k + 1]
<1>1. /\ h \in Seq(Gap) /\ Len(h) = Len(g) - 1
      /\ \A k \in 1..(Len(g) - 1) : h[k] = IF k < i THEN g[k] ELSE g[k + 1]
  BY RemoveRecordElements
<1>2. \A j \in 1..Len(g) : j # i => CutOut(g[j], g[j], s)
  BY OtherRecords
<1> HIDE DEF h
<1>3. \A k \in 1..Len(h) : f[k] \in 1..Len(g) /\ f[k] # i /\ h[k] = g[f[k]]
  BY <1>1
<1>4. \A k \in 1..Len(h) : CutOut(h[k], g[f[k]], s)
  BY <1>2, <1>3
<1>5. f \in [1..Len(h) -> 1..Len(g)] /\ \A k, l \in 1..Len(h) : k < l => f[k] < f[l]
  BY <1>1
<1> HIDE DEF f
<1>6. CutOutOf(g, h, f, s)
  BY <1>1, <1>4, <1>5 DEF CutOutOf
<1> QED
  BY <1>6, CutOutFills DEF h

\* The record is replaced by the halves lo and hi.
LEMMA SplitFills ==
  ASSUME NEW g \in Seq(Gap), Ordered(g), NEW i \in 1..Len(g), NEW s \in Span(g[i]),
         s \in Nat, NEW lo \in Gap, NEW hi \in Gap,
         CutOut(lo, g[i], s), CutOut(hi, g[i], s), Before(lo, hi)
  PROVE  Fills(g, SplitRecord(g, i, lo, hi), s)
<1> DEFINE h == SplitRecord(g, i, lo, hi)
           f == [k \in 1..(Len(g) + 1) |-> IF k <= i THEN k ELSE k - 1]
<1>1. /\ h \in Seq(Gap) /\ Len(h) = Len(g) + 1
      /\ \A k \in 1..(Len(g) + 1) :
           h[k] = IF k < i THEN g[k] ELSE IF k = i THEN lo
                  ELSE IF k = i + 1 THEN hi ELSE g[k - 1]
  <2>1. h \in Seq(Gap)
    BY SplitRecordElements
  <2>2. Len(h) = Len(g) + 1
    BY SplitRecordElements
  <2>3. h = [k \in 1..(Len(g) + 1) |->
               IF k < i THEN g[k] ELSE IF k = i THEN lo
               ELSE IF k = i + 1 THEN hi ELSE g[k - 1]]
    BY DEF SplitRecord
  <2> QED
    BY <2>1, <2>2, <2>3
<1>2. \A j \in 1..Len(g) : j # i => CutOut(g[j], g[j], s)
  BY OtherRecords
<1> HIDE DEF h
<1>3. f \in [1..Len(h) -> 1..Len(g)]
  BY <1>1
<1>4. ASSUME NEW k \in 1..Len(h) PROVE CutOut(h[k], g[f[k]], s)
  <2>1. CASE k < i
    BY <1>1, <1>2, <2>1
  <2>2. CASE k = i
    BY <1>1, <2>2
  <2>3. CASE k = i + 1
    BY <1>1, <2>3
  <2>4. CASE k > i + 1
    BY <1>1, <1>2, <2>4
  <2> QED
    BY <1>1, <2>1, <2>2, <2>3, <2>4
<1>5. ASSUME NEW k \in 1..Len(h), NEW l \in 1..Len(h), k < l
      PROVE  f[k] < f[l] \/ Before(h[k], h[l])
  <2>1. CASE k = i /\ l = i + 1
    BY <1>1, <2>1
  <2>2. CASE ~(k = i /\ l = i + 1)
    BY <1>1, <1>5, <2>2
  <2> QED
    BY <2>1, <2>2
<1> HIDE DEF f
<1>6. CutOutOf(g, h, f, s)
  BY <1>1, <1>3, <1>4, <1>5 DEF CutOutOf
<1> QED
  BY <1>6, CutOutFills DEF h

\* del takes s out of the list: the records stay ordered and cover nothing new.
LEMMA DelGapFills ==
  ASSUME NEW g \in Seq(Gap), Ordered(g), NEW s, NEW i, FindGap(g, s, i)
  PROVE  Fills(g, DelGap(g, i, s), s)
<1> DEFINE c == g[i]
           split(t) == SplitRecord(g, i, Below(c, s), Above(c, s, t))
<1>0. i \in 1..Len(g) /\ s \in Span(c)
  BY DEF FindGap
<1>1. i \in 1..Len(g) /\ s \in Span(c) /\ c \in Gap /\ c.timestamp \in Nat
  BY <1>0, RecordFields
<1>2. s \in Nat
  BY <1>1, Halves
<1>3. Fills(g, RemoveRecord(g, i), s)
  BY <1>1, <1>2, RemoveFills
<1>4. Fills(g, [g EXCEPT ![i] = Above(c, s, c.timestamp)], s)
  BY <1>1, <1>2, Halves, ShrinkFills
<1>5. Fills(g, [g EXCEPT ![i] = Below(c, s)], s)
  BY <1>1, <1>2, Halves, ShrinkFills
<1>6. ASSUME NEW t \in Nat
      PROVE  Fills(g, split(t), s) /\ Fills(g, DropPrefix(split(t), 1), s)
  <2>1. Fills(g, split(t), s)
    BY <1>1, <1>2, Halves, SplitFills
  <2>2. Len(split(t)) = Len(g) + 1
    <3>1. Below(c, s) \in Gap /\ Above(c, s, t) \in Gap
      BY <1>1, Halves
    <3> QED
      BY <1>1, <3>1, SplitRecordElements
  <2>3. 1 \in 0..Len(split(t))
    BY <1>1, <2>2
  <2> QED
    BY <2>1, <2>3, DropPrefixKeeps DEF Fills
<1>7. 1 \in 1..Len(g) /\ g[1].timestamp \in Nat
  <2>1. 1 \in 1..Len(g)
    BY <1>1
  <2> QED
    BY <2>1, RecordFields
<1> QED
  BY <1>1, <1>3, <1>4, <1>5, <1>6, <1>7 DEF DelGap

\* Where the records end, the missing numbers end.
LEMMA MissingBelow ==
  ASSUME NEW g \in Seq(Gap), NEW n \in Nat, AllBelow(g, n), NEW s \in Missing(g)
  PROVE  s \in Nat /\ s < n
<1>1. s \in Int
  BY MissingMember
<1>2. PICK i \in 1..Len(g) : g[i].seq_no <= s /\ s < g[i].seq_no + g[i].size
  BY MissingMember
<1>3. g[i].seq_no \in Nat /\ g[i].size \in Nat
  BY RecordFields
<1>4. g[i].seq_no + g[i].size <= n
  BY DEF AllBelow
<1> QED
  BY <1>1, <1>2, <1>3, <1>4

-----------------------------------------------------------------------------
(* What the operations leave, in a list of any order: the records of an old *)
(* session may overlap those of the new one.                                *)

NonEmpty(g) == \A i \in 1..Len(g) : g[i].size > 0

\* Each number of g is still in h, unless it is s or in D; and h is a list
\* without empty records when g is one.
Leaves(g, h, s, D) ==
  /\ h \in Seq(Gap)
  /\ NonEmpty(g) => NonEmpty(h)
  /\ \A x \in Missing(g) : x = s \/ x \in D \/ x \in Missing(h)

\* It is enough to look at the records of g one by one.
LEMMA LeavesByRecord ==
  ASSUME NEW g \in Seq(Gap), NEW h \in Seq(Gap), NEW s, NEW D,
         NonEmpty(g) => NonEmpty(h),
         \A i \in 1..Len(g), x \in Int :
           g[i].seq_no <= x /\ x < g[i].seq_no + g[i].size =>
             \/ x = s \/ x \in D
             \/ \E k \in 1..Len(h) : h[k].seq_no <= x /\ x < h[k].seq_no + h[k].size
  PROVE  Leaves(g, h, s, D)
<1>1. ASSUME NEW x \in Missing(g) PROVE x = s \/ x \in D \/ x \in Missing(h)
  <2>1. x \in Int /\ \E i \in 1..Len(g) : g[i].seq_no <= x /\ x < g[i].seq_no + g[i].size
    BY MissingMember
  <2>2. \/ x = s \/ x \in D
        \/ \E k \in 1..Len(h) : h[k].seq_no <= x /\ x < h[k].seq_no + h[k].size
    BY <2>1
  <2> QED
    BY <2>1, <2>2, MissingMember
<1> QED
  BY <1>1 DEF Leaves

\* The numbers of one record go when it goes, and no others.
LEMMA DropPrefixLeaves ==
  ASSUME NEW g \in Seq(Gap), NEW k \in 0..Len(g), NEW s
  PROVE  Leaves(g, DropPrefix(g, k), s, UNION {Span(g[j]) : j \in 1..k})
<1> DEFINE h == DropPrefix(g, k)
<1>1. /\ h \in Seq(Gap) /\ Len(h) = Len(g) - k
      /\ \A j \in 1..(Len(g) - k) : h[j] = g[k + j]
  BY DropPrefixElements
<1> HIDE DEF h
<1>2. NonEmpty(g) => NonEmpty(h)
  BY <1>1 DEF NonEmpty
<1>3. ASSUME NEW i \in 1..Len(g), NEW x \in Int,
             g[i].seq_no <= x, x < g[i].seq_no + g[i].size
      PROVE  \/ x \in UNION {Span(g[j]) : j \in 1..k}
             \/ \E m \in 1..Len(h) : h[m].seq_no <= x /\ x < h[m].seq_no + h[m].size
  <2>1. CASE i <= k
    <3>1. x \in Span(g[i])
      BY <1>3, RecordFields DEF Span
    <3> QED
      BY <2>1, <3>1
  <2>2. CASE ~(i <= k)
    <3>1. i - k \in 1..Len(h) /\ h[i - k] = g[i]
      BY <1>1, <2>2
    <3> QED
      BY <1>3, <3>1
  <2> QED
    BY <2>1, <2>2
<1> QED
  BY <1>1, <1>2, <1>3, LeavesByRecord DEF h

\* Push: the head's numbers go when the list is full, the new ones come.
LEMMA PushGapLeaves ==
  ASSUME NEW g \in Seq(Gap), GapMax > 0, NEW s \in Nat, NEW n \in Nat, n > 0, NEW t \in Nat
  PROVE  /\ PushGap(g, s, n, t) \in Seq(Gap)
         /\ NonEmpty(g) => NonEmpty(PushGap(g, s, n, t))
         /\ Len(g) <= GapMax => Len(PushGap(g, s, n, t)) <= GapMax
         /\ \A x \in Missing(g) :
              \/ x \in Missing(PushGap(g, s, n, t))
              \/ ListFull(g) /\ x \in Span(g[1])
         /\ s .. (s + n - 1) \subseteq Missing(PushGap(g, s, n, t))
<1> DEFINE f == IF ListFull(g) THEN DropPrefix(g, 1) ELSE g
           c == NewGap(s, n, t)
           h == Append(f, c)
<1>0. GapMax \in Nat /\ Len(g) \in Nat /\ (ListFull(g) => 1 \in 0..Len(g))
  BY GapAssumption DEF ListFull
<1>1. /\ f \in Seq(Gap)
      /\ NonEmpty(g) => NonEmpty(f)
      /\ Len(g) <= GapMax => Len(f) + 1 <= GapMax
      /\ \A x \in Missing(g) : x \in Missing(f) \/ (ListFull(g) /\ x \in Span(g[1]))
  <2>1. CASE ListFull(g)
    <3>1. DropPrefix(g, 1) \in Seq(Gap) /\ Len(DropPrefix(g, 1)) = Len(g) - 1
      BY <1>0, <2>1, DropPrefixElements
    <3>2. Leaves(g, DropPrefix(g, 1), -1, UNION {Span(g[j]) : j \in 1..1})
      BY <1>0, <2>1, DropPrefixLeaves
    <3>3. \A x \in Missing(g) : x # -1
      <4>1. \A i \in 1..Len(g) : g[i].seq_no \in Nat
        BY RecordFields
      <4> QED
        BY <4>1, MissingMember
    <3>4. UNION {Span(g[j]) : j \in 1..1} = Span(g[1])
      OBVIOUS
    <3> QED
      BY <1>0, <2>1, <3>1, <3>2, <3>3, <3>4 DEF Leaves
  <2>2. CASE ~ListFull(g)
    BY <1>0, <2>2 DEF ListFull
  <2> QED
    BY <2>1, <2>2
<1>2. c \in Gap /\ c.seq_no = s /\ c.size = n
  BY DEF NewGap, Gap
<1> HIDE DEF f, c
<1>3. /\ h \in Seq(Gap) /\ Len(h) = Len(f) + 1 /\ h[Len(f) + 1] = c
      /\ \A j \in 1..Len(f) : h[j] = f[j]
  BY <1>1, <1>2
<1> HIDE DEF h
<1>4. NonEmpty(f) => NonEmpty(h)
  BY <1>1, <1>2, <1>3 DEF NonEmpty
<1>5. ASSUME NEW x \in Missing(f) PROVE x \in Missing(h)
  <2>1. x \in Int /\ \E i \in 1..Len(f) : f[i].seq_no <= x /\ x < f[i].seq_no + f[i].size
    BY <1>1, MissingMember
  <2>2. \E i \in 1..Len(h) : h[i].seq_no <= x /\ x < h[i].seq_no + h[i].size
    BY <1>1, <1>3, <2>1
  <2> QED
    BY <1>3, <2>1, <2>2, MissingMember
<1>6. ASSUME NEW x \in s .. (s + n - 1) PROVE x \in Missing(h)
  <2>1. x \in Int /\ c.seq_no <= x /\ x < c.seq_no + c.size
    BY <1>2
  <2>2. Len(f) + 1 \in 1..Len(h)
    BY <1>1, <1>3
  <2> QED
    BY <1>3, <2>1, <2>2, MissingMember
<1>7. PushGap(g, s, n, t) = h
  BY DEF PushGap, h, f, c
<1> QED
  BY <1>1, <1>3, <1>4, <1>5, <1>6, <1>7

\* The numbers below s and above s of a record are those of its halves.
LEMMA HalvesCover ==
  ASSUME NEW c \in Gap, NEW s \in Span(c), NEW t \in Nat
  PROVE  /\ Below(c, s) \in Gap /\ Above(c, s, t) \in Gap
         /\ c.seq_no < s => Below(c, s).size > 0
         /\ s < c.seq_no + c.size - 1 => Above(c, s, t).size > 0
         /\ \A x \in Int : c.seq_no <= x /\ x < s =>
              Below(c, s).seq_no <= x /\ x < Below(c, s).seq_no + Below(c, s).size
         /\ \A x \in Int : s < x /\ x < c.seq_no + c.size =>
              Above(c, s, t).seq_no <= x /\ x < Above(c, s, t).seq_no + Above(c, s, t).size
<1>1. /\ c.seq_no \in Nat /\ c.size \in Nat
      /\ s \in Nat /\ c.seq_no <= s /\ s < c.seq_no + c.size
  BY DEF Span, Gap
<1>2. /\ Below(c, s) \in Gap /\ Below(c, s).seq_no = c.seq_no
      /\ Below(c, s).size = s - c.seq_no
  BY <1>1 DEF Below, Gap
<1>3. /\ Above(c, s, t) \in Gap /\ Above(c, s, t).seq_no = s + 1
      /\ Above(c, s, t).size = c.size - (s - c.seq_no) - 1
  BY <1>1 DEF Above, NewGap, Gap
<1> QED
  BY <1>1, <1>2, <1>3

\* A record shrinks to d, which keeps all but s and D of it.
LEMMA ShrinkLeaves ==
  ASSUME NEW g \in Seq(Gap), NEW i \in 1..Len(g), NEW s, NEW D, NEW d \in Gap, d.size > 0,
         \A x \in Int : g[i].seq_no <= x /\ x < g[i].seq_no + g[i].size =>
           x = s \/ x \in D \/ (d.seq_no <= x /\ x < d.seq_no + d.size)
  PROVE  Leaves(g, [g EXCEPT ![i] = d], s, D) /\ Len([g EXCEPT ![i] = d]) = Len(g)
<1> DEFINE h == [g EXCEPT ![i] = d]
<1>1. /\ h \in Seq(Gap) /\ Len(h) = Len(g)
      /\ \A k \in 1..Len(g) : h[k] = IF k = i THEN d ELSE g[k]
  OBVIOUS
<1> HIDE DEF h
<1>2. NonEmpty(g) => NonEmpty(h)
  BY <1>1 DEF NonEmpty
<1>3. ASSUME NEW j \in 1..Len(g), NEW x \in Int,
             g[j].seq_no <= x, x < g[j].seq_no + g[j].size
      PROVE  \/ x = s \/ x \in D
             \/ \E k \in 1..Len(h) : h[k].seq_no <= x /\ x < h[k].seq_no + h[k].size
  BY <1>1, <1>3
<1> QED
  BY <1>1, <1>2, <1>3, LeavesByRecord DEF h

\* A record of one number goes.
LEMMA RemoveLeaves ==
  ASSUME NEW g \in Seq(Gap), NEW i \in 1..Len(g), NEW s \in Span(g[i]), g[i].size = 1
  PROVE  Leaves(g, RemoveRecord(g, i), s, {}) /\ Len(RemoveRecord(g, i)) = Len(g) - 1
<1> DEFINE h == RemoveRecord(g, i)
<1>1. /\ h \in Seq(Gap) /\ Len(h) = Len(g) - 1
      /\ \A k \in 1..(Len(g) - 1) : h[k] = IF k < i THEN g[k] ELSE g[k + 1]
  BY RemoveRecordElements
<1>2. g[i].seq_no \in Nat /\ s = g[i].seq_no
  BY RecordFields DEF Span
<1> HIDE DEF h
<1>3. NonEmpty(g) => NonEmpty(h)
  BY <1>1 DEF NonEmpty
<1>4. ASSUME NEW j \in 1..Len(g), NEW x \in Int,
             g[j].seq_no <= x, x < g[j].seq_no + g[j].size
      PROVE  \/ x = s
             \/ \E k \in 1..Len(h) : h[k].seq_no <= x /\ x < h[k].seq_no + h[k].size
  <2>1. CASE j = i
    BY <1>2, <1>4, <2>1
  <2>2. CASE j < i
    <3>1. j \in 1..Len(h) /\ h[j] = g[j]
      BY <1>1, <2>2
    <3> QED
      BY <1>4, <3>1
  <2>3. CASE j > i
    <3>1. j - 1 \in 1..Len(h) /\ h[j - 1] = g[j]
      BY <1>1, <2>3
    <3> QED
      BY <1>4, <3>1
  <2> QED
    BY <2>1, <2>2, <2>3
<1> QED
  BY <1>1, <1>3, <1>4, LeavesByRecord DEF h

\* A record is split in two.
LEMMA SplitLeaves ==
  ASSUME NEW g \in Seq(Gap), NEW i \in 1..Len(g), NEW s,
         NEW lo \in Gap, NEW hi \in Gap, lo.size > 0, hi.size > 0,
         \A x \in Int : g[i].seq_no <= x /\ x < g[i].seq_no + g[i].size =>
           \/ x = s
           \/ lo.seq_no <= x /\ x < lo.seq_no + lo.size
           \/ hi.seq_no <= x /\ x < hi.seq_no + hi.size
  PROVE  Leaves(g, SplitRecord(g, i, lo, hi), s, {})
<1> DEFINE h == SplitRecord(g, i, lo, hi)
<1>1. /\ h \in Seq(Gap) /\ Len(h) = Len(g) + 1
      /\ \A k \in 1..(Len(g) + 1) :
           h[k] = IF k < i THEN g[k] ELSE IF k = i THEN lo
                  ELSE IF k = i + 1 THEN hi ELSE g[k - 1]
  <2>1. h \in Seq(Gap)
    BY SplitRecordElements
  <2>2. Len(h) = Len(g) + 1
    BY SplitRecordElements
  <2>3. h = [k \in 1..(Len(g) + 1) |->
               IF k < i THEN g[k] ELSE IF k = i THEN lo
               ELSE IF k = i + 1 THEN hi ELSE g[k - 1]]
    BY DEF SplitRecord
  <2> QED
    BY <2>1, <2>2, <2>3
<1> HIDE DEF h
<1>2. NonEmpty(g) => NonEmpty(h)
  <2> SUFFICES ASSUME NonEmpty(g), NEW k \in 1..(Len(g) + 1)
               PROVE  h[k].size > 0
    BY <1>1 DEF NonEmpty
  <2>1. k < i => k \in 1..Len(g)
    OBVIOUS
  <2>2. k > i + 1 => k - 1 \in 1..Len(g)
    OBVIOUS
  <2> QED
    BY <1>1, <2>1, <2>2 DEF NonEmpty
<1>3. ASSUME NEW j \in 1..Len(g), NEW x \in Int,
             g[j].seq_no <= x, x < g[j].seq_no + g[j].size
      PROVE  \/ x = s
             \/ \E k \in 1..Len(h) : h[k].seq_no <= x /\ x < h[k].seq_no + h[k].size
  <2>1. CASE j = i
    <3>1. i \in 1..Len(h) /\ i + 1 \in 1..Len(h) /\ h[i] = lo /\ h[i + 1] = hi
      BY <1>1
    <3> QED
      BY <1>3, <2>1, <3>1
  <2>2. CASE j < i
    <3>1. j \in 1..Len(h) /\ h[j] = g[j]
      BY <1>1, <2>2
    <3> QED
      BY <1>3, <3>1
  <2>3. CASE j > i
    <3>1. j + 1 \in 1..Len(h) /\ h[j + 1] = g[j]
      BY <1>1, <2>3
    <3> QED
      BY <1>3, <3>1
  <2> QED
    BY <2>1, <2>2, <2>3
<1> QED
  BY <1>1, <1>2, <1>3, LeavesByRecord DEF h

\* The numbers del gives up to make room.
DelDrops(g, i, s) ==
  IF ~InMiddle(g[i], s) \/ ~ListFull(g) THEN {}
  ELSE IF i = 1 THEN g[i].seq_no .. (s - 1) ELSE Span(g[1])

\* del takes out s, and what it drops to make room; the list stays in its pool.
LEMMA DelGapLeaves ==
  ASSUME NEW g \in Seq(Gap), NEW s, NEW i, FindGap(g, s, i)
  PROVE  /\ Leaves(g, DelGap(g, i, s), s, DelDrops(g, i, s))
         /\ Len(g) <= GapMax => Len(DelGap(g, i, s)) <= GapMax
<1> DEFINE c == g[i]
           split(t) == SplitRecord(g, i, Below(c, s), Above(c, s, t))
<1>0. GapMax \in Nat /\ Len(g) \in Nat
  BY GapAssumption
<1>1. i \in 1..Len(g) /\ s \in Span(c)
  BY DEF FindGap
<1>2. c \in Gap /\ c.seq_no \in Nat /\ c.size \in Nat /\ c.timestamp \in Nat
  BY <1>1, RecordFields
<1>3. s \in Int /\ c.seq_no <= s /\ s < c.seq_no + c.size
  BY <1>1, <1>2 DEF Span
<1>4. CASE c.size = 1
  <2>1. Leaves(g, RemoveRecord(g, i), s, {}) /\ Len(RemoveRecord(g, i)) = Len(g) - 1
    BY <1>1, <1>4, RemoveLeaves
  <2>2. DelGap(g, i, s) = RemoveRecord(g, i)
    BY <1>4 DEF DelGap
  <2> QED
    BY <1>0, <2>1, <2>2 DEF Leaves
<1>5. CASE c.size # 1 /\ s = c.seq_no
  <2>1. \A x \in Int : c.seq_no <= x /\ x < c.seq_no + c.size =>
           x = s \/ (/\ Above(c, s, c.timestamp).seq_no <= x
                     /\ x < Above(c, s, c.timestamp).seq_no + Above(c, s, c.timestamp).size)
    BY <1>1, <1>2, <1>3, <1>5, HalvesCover
  <2>2. Above(c, s, c.timestamp) \in Gap /\ Above(c, s, c.timestamp).size > 0
    BY <1>1, <1>2, <1>3, <1>5, HalvesCover
  <2> DEFINE d == Above(c, s, c.timestamp)
  <2>3. DelGap(g, i, s) = [g EXCEPT ![i] = d]
    BY <1>5 DEF DelGap
  <2>4. /\ d \in Gap /\ d.size > 0
        /\ \A x \in Int : g[i].seq_no <= x /\ x < g[i].seq_no + g[i].size =>
             x = s \/ x \in {} \/ (d.seq_no <= x /\ x < d.seq_no + d.size)
    BY <2>1, <2>2
  <2> HIDE DEF c, d
  <2>5. /\ Leaves(g, [g EXCEPT ![i] = d], s, {})
        /\ Len([g EXCEPT ![i] = d]) = Len(g)
    BY <1>1, <2>4, ShrinkLeaves
  <2>6. Leaves(g, DelGap(g, i, s), s, {}) /\ Len(DelGap(g, i, s)) = Len(g)
    BY <2>3, <2>5
  <2> QED
    BY <1>0, <2>6 DEF Leaves
<1>6. CASE c.size # 1 /\ s # c.seq_no /\ s = c.seq_no + c.size - 1
  <2>1. \A x \in Int : c.seq_no <= x /\ x < c.seq_no + c.size =>
           x = s \/ (Below(c, s).seq_no <= x /\ x < Below(c, s).seq_no + Below(c, s).size)
    BY <1>1, <1>2, <1>3, <1>6, HalvesCover
  <2>2. Below(c, s) \in Gap /\ Below(c, s).size > 0
    BY <1>1, <1>2, <1>3, <1>6, HalvesCover
  <2> DEFINE d == Below(c, s)
  <2>3. DelGap(g, i, s) = [g EXCEPT ![i] = d]
    BY <1>6 DEF DelGap
  <2>4. /\ d \in Gap /\ d.size > 0
        /\ \A x \in Int : g[i].seq_no <= x /\ x < g[i].seq_no + g[i].size =>
             x = s \/ x \in {} \/ (d.seq_no <= x /\ x < d.seq_no + d.size)
    BY <2>1, <2>2
  <2> HIDE DEF c, d
  <2>5. /\ Leaves(g, [g EXCEPT ![i] = d], s, {})
        /\ Len([g EXCEPT ![i] = d]) = Len(g)
    BY <1>1, <2>4, ShrinkLeaves
  <2>6. Leaves(g, DelGap(g, i, s), s, {}) /\ Len(DelGap(g, i, s)) = Len(g)
    BY <2>3, <2>5
  <2> QED
    BY <1>0, <2>6 DEF Leaves
<1>7. CASE c.size # 1 /\ s # c.seq_no /\ s # c.seq_no + c.size - 1
  <2>1. InMiddle(c, s) /\ c.seq_no < s /\ s < c.seq_no + c.size - 1
    BY <1>2, <1>3, <1>7 DEF InMiddle
  <2>2. ASSUME NEW t \in Nat
        PROVE  /\ Below(c, s) \in Gap /\ Above(c, s, t) \in Gap
               /\ Leaves(g, split(t), s, {}) /\ Len(split(t)) = Len(g) + 1
               /\ i > 1 => split(t)[1] = g[1]
    <3>1. /\ Below(c, s) \in Gap /\ Above(c, s, t) \in Gap
          /\ Below(c, s).size > 0 /\ Above(c, s, t).size > 0
      BY <1>1, <1>2, <2>1, HalvesCover
    <3>2. \A x \in Int : c.seq_no <= x /\ x < c.seq_no + c.size =>
            \/ x = s
            \/ Below(c, s).seq_no <= x /\ x < Below(c, s).seq_no + Below(c, s).size
            \/ Above(c, s, t).seq_no <= x /\ x < Above(c, s, t).seq_no + Above(c, s, t).size
      <4> SUFFICES ASSUME NEW x \in Int, c.seq_no <= x, x < c.seq_no + c.size, x # s
                   PROVE  \/ Below(c, s).seq_no <= x /\ x < Below(c, s).seq_no + Below(c, s).size
                          \/ /\ Above(c, s, t).seq_no <= x
                             /\ x < Above(c, s, t).seq_no + Above(c, s, t).size
        OBVIOUS
      <4>1. x < s \/ s < x
        BY <1>3
      <4> QED
        BY <1>1, <1>2, <4>1, HalvesCover
    <3> HIDE DEF c
    <3>3. Leaves(g, split(t), s, {})
      BY <1>1, <3>1, <3>2, SplitLeaves DEF c
    <3> DEFINE lo == Below(c, s)
               hi == Above(c, s, t)
    <3> HIDE DEF lo, hi
    <3>4. /\ Len(SplitRecord(g, i, lo, hi)) = Len(g) + 1
          /\ i > 1 => SplitRecord(g, i, lo, hi)[1] = g[1]
      <4>1. lo \in Gap /\ hi \in Gap
        BY <3>1 DEF lo, hi
      <4>2. Len(SplitRecord(g, i, lo, hi)) = Len(g) + 1
        BY <1>1, <4>1, SplitRecordElements
      <4>3. i > 1 => SplitRecord(g, i, lo, hi)[1] = g[1]
        BY <1>0, <1>1 DEF SplitRecord
      <4> QED
        BY <4>2, <4>3
    <3>5. Len(split(t)) = Len(g) + 1 /\ (i > 1 => split(t)[1] = g[1])
      BY <3>4 DEF lo, hi
    <3> QED
      BY <3>1, <3>3, <3>5
  <2>3. CASE ~ListFull(g)
    <3>1. DelGap(g, i, s) = split(c.timestamp)
      BY <1>7, <2>3 DEF DelGap
    <3>2. Len(g) + 1 <= GapMax
      BY <1>0, <2>3 DEF ListFull
    <3> HIDE DEF c, split
    <3> QED
      BY <1>0, <1>2, <2>2, <3>1, <3>2 DEF Leaves
  <2>4. CASE ListFull(g) /\ i = 1
    <3>1. DelGap(g, i, s) = [g EXCEPT ![i] = Above(c, s, c.timestamp)]
      BY <1>7, <2>4 DEF DelGap
    <3>2. DelDrops(g, i, s) = c.seq_no .. (s - 1)
      BY <2>1, <2>4 DEF DelDrops
    <3>3. \A x \in Int : c.seq_no <= x /\ x < c.seq_no + c.size =>
            \/ x = s \/ x \in c.seq_no .. (s - 1)
            \/ /\ Above(c, s, c.timestamp).seq_no <= x
               /\ x < Above(c, s, c.timestamp).seq_no + Above(c, s, c.timestamp).size
      BY <1>1, <1>2, <1>3, HalvesCover
    <3>4. Above(c, s, c.timestamp) \in Gap /\ Above(c, s, c.timestamp).size > 0
      BY <1>1, <1>2, <2>1, HalvesCover
    <3> DEFINE d == Above(c, s, c.timestamp)
               D == c.seq_no .. (s - 1)
    <3>5. /\ d \in Gap /\ d.size > 0
          /\ \A x \in Int : g[i].seq_no <= x /\ x < g[i].seq_no + g[i].size =>
               x = s \/ x \in D \/ (d.seq_no <= x /\ x < d.seq_no + d.size)
      BY <3>3, <3>4
    <3>6. DelGap(g, i, s) = [g EXCEPT ![i] = d] /\ DelDrops(g, i, s) = D
      BY <3>1, <3>2
    <3> HIDE DEF c, d, D
    <3>7. Leaves(g, [g EXCEPT ![i] = d], s, D) /\ Len([g EXCEPT ![i] = d]) = Len(g)
      BY <1>1, <3>5, ShrinkLeaves
    <3> QED
      BY <1>0, <3>6, <3>7
  <2>5. CASE ListFull(g) /\ i # 1
    <3> DEFINE t == g[1].timestamp
               h == DropPrefix(split(t), 1)
    <3>1. DelGap(g, i, s) = h
      BY <1>7, <2>5 DEF DelGap
    <3>2. DelDrops(g, i, s) = Span(g[1])
      BY <2>1, <2>5 DEF DelDrops
    <3>3. t \in Nat /\ i > 1
      BY <1>1, <2>5, RecordFields
    <3>4. Leaves(g, split(t), s, {}) /\ Len(split(t)) = Len(g) + 1 /\ split(t)[1] = g[1]
      BY <2>2, <3>3
    <3> HIDE DEF c, split, t
    <3>5. /\ split(t) \in Seq(Gap) /\ 1 \in 0..Len(split(t))
          /\ UNION {Span(split(t)[j]) : j \in 1..1} = Span(g[1])
      BY <1>0, <3>4 DEF Leaves
    <3> DEFINE f == split(t)
               D == UNION {Span(f[j]) : j \in 1..1}
    <3>a. f \in Seq(Gap) /\ 1 \in 0..Len(f) /\ Len(f) = Len(g) + 1 /\ D = Span(g[1])
      BY <3>4, <3>5
    <3> HIDE DEF f
    <3>b. Leaves(f, DropPrefix(f, 1), s, D) /\ Len(DropPrefix(f, 1)) = Len(f) - 1
      BY <3>a, DropPrefixLeaves, DropPrefixElements
    <3> HIDE DEF D
    <3>6. Leaves(split(t), h, s, Span(g[1])) /\ Len(h) = Len(g)
      BY <1>0, <3>a, <3>b DEF f
    <3> HIDE DEF h
    <3>7. Leaves(g, h, s, Span(g[1]))
      BY <3>4, <3>6 DEF Leaves
    <3> QED
      BY <1>0, <3>1, <3>2, <3>6, <3>7
  <2> QED
    BY <2>3, <2>4, <2>5
<1> QED
  BY <1>4, <1>5, <1>6, <1>7

-----------------------------------------------------------------------------
(* In a list in order what is dropped is in no other record.                *)

\* Below the first record of a list nothing is missing.
LEMMA MissingAbove ==
  ASSUME NEW h \in Seq(Gap), NEW n \in Int, \A k \in 1..Len(h) : n <= h[k].seq_no,
         NEW x \in Missing(h)
  PROVE  n <= x
<1>1. x \in Int /\ \E i \in 1..Len(h) : h[i].seq_no <= x /\ x < h[i].seq_no + h[i].size
  BY MissingMember
<1>2. PICK i \in 1..Len(h) : h[i].seq_no <= x
  BY <1>1
<1>3. h[i].seq_no \in Nat /\ n <= h[i].seq_no
  BY RecordFields
<1> QED
  BY <1>1, <1>2, <1>3

\* The records that are dropped and those that stay.
LEMMA DropPrefixParts ==
  ASSUME NEW g \in Seq(Gap), NEW k \in 0..Len(g), Ordered(g),
         NEW x \in UNION {Span(g[j]) : j \in 1..k}
  PROVE  x \in Missing(g) /\ x \notin Missing(DropPrefix(g, k))
<1> DEFINE h == DropPrefix(g, k)
<1>1. PICK j \in 1..k : x \in Span(g[j])
  OBVIOUS
<1>2. j \in 1..Len(g) /\ j <= k
  OBVIOUS
<1>3. /\ h \in Seq(Gap) /\ Len(h) = Len(g) - k
      /\ \A m \in 1..(Len(g) - k) : h[m] = g[k + m]
  BY DropPrefixElements
<1>4. g[j].seq_no \in Nat /\ g[j].size \in Nat
  BY <1>2, RecordFields
<1>5. x \in Int /\ g[j].seq_no <= x /\ x < g[j].seq_no + g[j].size
  BY <1>1, <1>4 DEF Span
<1> HIDE DEF h
<1>6. \A m \in 1..Len(h) : g[j].seq_no + g[j].size <= h[m].seq_no
  <2> TAKE m \in 1..Len(h)
  <2>1. h[m] = g[k + m] /\ k + m \in 1..Len(g) /\ j < k + m
    BY <1>2, <1>3
  <2> QED
    BY <1>2, <2>1 DEF Ordered
<1>7. x \notin Missing(h)
  <2> DEFINE n0 == g[j].seq_no + g[j].size
  <2>1. n0 \in Int /\ x < n0 /\ \A m \in 1..Len(h) : n0 <= h[m].seq_no
    BY <1>4, <1>5, <1>6
  <2> HIDE DEF n0
  <2>2. x \in Missing(h) => n0 <= x
    BY <1>3, <2>1, MissingAbove
  <2> QED
    BY <1>5, <2>1, <2>2
<1> QED
  BY <1>2, <1>5, <1>7, MissingMember DEF h

\* The head that a push drops.
LEMMA PushGapParts ==
  ASSUME NEW g \in Seq(Gap), GapMax > 0, NEW s \in Nat, NEW n \in Nat, NEW t \in Nat,
         Ordered(g), AllBelow(g, s), ListFull(g), NEW x \in Span(g[1])
  PROVE  x \in Missing(g) /\ x \notin Missing(PushGap(g, s, n, t))
<1> DEFINE f == DropPrefix(g, 1)
           c == NewGap(s, n, t)
           h == Append(f, c)
<1>0. 1 \in 1..Len(g)
  BY GapAssumption DEF ListFull
<1>1. /\ f \in Seq(Gap) /\ Len(f) = Len(g) - 1
      /\ \A m \in 1..(Len(g) - 1) : f[m] = g[1 + m]
  BY <1>0, DropPrefixElements
<1>2. c \in Gap /\ c.seq_no = s
  BY DEF NewGap, Gap
<1> HIDE DEF f, c
<1>3. /\ h \in Seq(Gap) /\ Len(h) = Len(f) + 1 /\ h[Len(f) + 1] = c
      /\ \A j \in 1..Len(f) : h[j] = f[j]
  BY <1>1, <1>2
<1> HIDE DEF h
<1>4. g[1].seq_no \in Nat /\ g[1].size \in Nat
  BY <1>0, RecordFields
<1>5. x \in Int /\ g[1].seq_no <= x /\ x < g[1].seq_no + g[1].size
  BY <1>4 DEF Span
<1>6. \A m \in 1..Len(h) : g[1].seq_no + g[1].size <= h[m].seq_no
  <2> TAKE m \in 1..Len(h)
  <2>1. CASE m = Len(f) + 1
    BY <1>0, <1>2, <1>3, <2>1 DEF AllBelow
  <2>2. CASE m # Len(f) + 1
    <3>1. h[m] = g[1 + m] /\ 1 + m \in 1..Len(g) /\ 1 < 1 + m
      BY <1>1, <1>3, <2>2
    <3> QED
      BY <1>0, <3>1 DEF Ordered
  <2> QED
    BY <2>1, <2>2
<1>7. x \notin Missing(h)
  <2> DEFINE n0 == g[1].seq_no + g[1].size
  <2>1. n0 \in Int /\ x < n0 /\ \A m \in 1..Len(h) : n0 <= h[m].seq_no
    BY <1>4, <1>5, <1>6
  <2> HIDE DEF n0
  <2>2. x \in Missing(h) => n0 <= x
    BY <1>3, <2>1, MissingAbove
  <2> QED
    BY <1>5, <2>1, <2>2
<1>8. PushGap(g, s, n, t) = h
  BY DEF PushGap, h, f, c
<1> QED
  BY <1>0, <1>5, <1>7, <1>8, MissingMember

\* What del drops to make room.
LEMMA DelGapParts ==
  ASSUME NEW g \in Seq(Gap), Ordered(g), NEW s, NEW i, FindGap(g, s, i),
         NEW x \in DelDrops(g, i, s)
  PROVE  x # s /\ x \in Missing(g) /\ x \notin Missing(DelGap(g, i, s))
<1> DEFINE c == g[i]
           split(t) == SplitRecord(g, i, Below(c, s), Above(c, s, t))
           h == DelGap(g, i, s)
<1>1. i \in 1..Len(g) /\ s \in Span(c) /\ InMiddle(c, s) /\ ListFull(g)
  BY DEF FindGap, DelDrops
<1>2. c \in Gap /\ c.seq_no \in Nat /\ c.size \in Nat /\ c.timestamp \in Nat
  BY <1>1, RecordFields
<1>3. s \in Int /\ c.seq_no < s /\ s < c.seq_no + c.size - 1
  BY <1>1, <1>2 DEF Span, InMiddle
<1>4. h \in Seq(Gap)
  BY DelGapFills DEF Fills
<1>5. CASE i = 1
  <2>1. x \in c.seq_no .. (s - 1)
    BY <1>1, <1>5 DEF DelDrops
  <2>2. h = [g EXCEPT ![i] = Above(c, s, c.timestamp)]
    BY <1>1, <1>2, <1>3, <1>5 DEF DelGap
  <2>3. Above(c, s, c.timestamp).seq_no = s + 1
    BY DEF Above, NewGap
  <2>4. \A m \in 1..Len(h) : s <= h[m].seq_no
    <3> TAKE m \in 1..Len(h)
    <3>1. m \in 1..Len(g) /\ h[m] = IF m = i THEN Above(c, s, c.timestamp) ELSE g[m]
      BY <1>1, <2>2
    <3>2. m # i => c.seq_no + c.size <= g[m].seq_no /\ g[m].seq_no \in Nat
      BY <1>1, <1>5, <3>1, RecordFields DEF Ordered
    <3> HIDE DEF h, c
    <3> QED
      BY <1>2, <1>3, <2>3, <3>1, <3>2
  <2> HIDE DEF h
  <2>5. x \notin Missing(h)
    BY <1>3, <1>4, <2>1, <2>4, MissingAbove
  <2> QED
    BY <1>1, <1>2, <1>3, <2>1, <2>5, MissingMember DEF h
<1>6. CASE i # 1
  <2> DEFINE t == g[1].timestamp
             f == split(t)
  <2>1. x \in Span(g[1]) /\ 1 \in 1..Len(g) /\ i > 1
    BY <1>1, <1>6 DEF DelDrops
  <2>2. h = DropPrefix(f, 1)
    BY <1>1, <1>2, <1>3, <1>6 DEF DelGap
  <2>3. g[1].seq_no \in Nat /\ g[1].size \in Nat /\ t \in Nat
    BY <2>1, RecordFields
  <2>4. x \in Int /\ g[1].seq_no <= x /\ x < g[1].seq_no + g[1].size
    BY <2>1, <2>3 DEF Span
  <2>5. Fills(g, f, s)
    BY <1>1, <1>2, <2>3, Halves, SplitFills
  <2>6. Len(f) = Len(g) + 1 /\ f[1] = g[1]
    BY <1>1, <2>1 DEF SplitRecord
  <2> HIDE DEF f
  <2>7. f \in Seq(Gap) /\ Ordered(f) /\ 1 \in 0..Len(f)
    BY <2>1, <2>5, <2>6 DEF Fills
  <2>8. x \in UNION {Span(f[j]) : j \in 1..1}
    BY <2>1, <2>6
  <2>9. x \notin Missing(DropPrefix(f, 1))
    BY <2>7, <2>8, DropPrefixParts
  <2>10. x # s
    <3>1. c.seq_no >= g[1].seq_no + g[1].size
      BY <1>1, <2>1 DEF Ordered
    <3> HIDE DEF c
    <3> QED
      BY <1>2, <1>3, <2>3, <2>4, <3>1
  <2> QED
    BY <2>1, <2>2, <2>4, <2>9, <2>10, MissingMember
<1> QED
  BY <1>5, <1>6

-----------------------------------------------------------------------------
(* Losses: the sizes of records and the numbers they cover.                 *)

AddSize(n, c) == n + c.size

SF == INSTANCE LeftFold WITH Op <- AddSize

\* Sizes adds up the records one by one.
LEMMA SizesRun ==
  ASSUME NEW g \in Seq(Gap)
  PROVE  \E F : /\ F[0] = 0
                /\ \A k \in 1..Len(g) : F[k] = F[k - 1] + g[k].size
                /\ Sizes(g) = F[Len(g)]
<1>1. Sizes(g) = SF!Fold(0, g)
  BY DEF Sizes, SF!Fold, AddSize, FoldLeft, MapThenFoldSet,
         SF!FoldLeft, SF!MapThenFoldSet, SF!Max, Max
<1>2. DOMAIN g = 1..Len(g) /\ Len(g) \in Nat
  OBVIOUS
<1> HIDE DEF AddSize
<1>3. \E F : /\ F[0] = 0
             /\ \A k \in 1..Len(g) : F[k] = AddSize(F[k - 1], g[k])
             /\ SF!Fold(0, g) = F[Len(g)]
  BY <1>2, SF!FoldRuns
<1> QED
  BY <1>1, <1>3 DEF AddSize

\* The first records cover at most as many numbers as their sizes add up to,
\* and in an ordered list exactly as many.
LEMMA SizesCount ==
  ASSUME NEW g \in Seq(Gap)
  PROVE  /\ Sizes(g) \in Nat
         /\ IsFiniteSet(Missing(g))
         /\ Cardinality(Missing(g)) <= Sizes(g)
         /\ Ordered(g) => Cardinality(Missing(g)) = Sizes(g)
<1>1. PICK F : /\ F[0] = 0
               /\ \A k \in 1..Len(g) : F[k] = F[k - 1] + g[k].size
               /\ Sizes(g) = F[Len(g)]
  BY SizesRun
<1> DEFINE C(k) == UNION {Span(g[j]) : j \in 1..k}
           Good(k) == /\ F[k] \in Nat /\ IsFiniteSet(C(k)) /\ Cardinality(C(k)) <= F[k]
                      /\ Ordered(g) => Cardinality(C(k)) = F[k]
           S == {k \in Nat : k <= Len(g) => Good(k)}
<1>2. 0 \in S
  <2>1. C(0) = {}
    OBVIOUS
  <2>2. Good(0)
    <3> HIDE DEF C
    <3>1. IsFiniteSet(C(0)) /\ Cardinality(C(0)) = 0 /\ F[0] = 0
      BY <1>1, <2>1, FS_EmptySet
    <3> QED
      BY <3>1
  <2> HIDE DEF C, Good
  <2> QED
    BY <2>2
<1>3. ASSUME NEW k \in Nat, k \in S PROVE k + 1 \in S
  <2> SUFFICES ASSUME k + 1 <= Len(g) PROVE Good(k + 1)
    OBVIOUS
  <2> DEFINE c == g[k + 1]
  <2>1. k + 1 \in 1..Len(g) /\ k \in 0..Len(g) /\ Good(k)
    BY <1>3
  <2>2. c.seq_no \in Nat /\ c.size \in Nat
    BY <2>1, RecordFields
  <2>3. F[k + 1] = F[k] + c.size
    BY <1>1, <2>1
  <2>4. C(k + 1) = C(k) \cup Span(c)
    <3>1. 1..(k + 1) = (1..k) \cup {k + 1}
      OBVIOUS
    <3> HIDE DEF c
    <3> QED
      BY <3>1, Zenon DEF c
  <2>5. Ordered(g) => C(k) \cap Span(c) = {}
    <3> SUFFICES ASSUME Ordered(g), NEW x \in C(k), x \in Span(c) PROVE FALSE
      OBVIOUS
    <3>1. PICK j \in 1..k : x \in Span(g[j])
      OBVIOUS
    <3>2. j \in 1..Len(g) /\ j < k + 1
      BY <2>1
    <3>3. g[j].seq_no + g[j].size <= c.seq_no
      BY <2>1, <3>2 DEF Ordered
    <3>4. g[j].seq_no \in Nat /\ g[j].size \in Nat
      BY <3>2, RecordFields
    <3> HIDE DEF c
    <3> QED
      BY <2>2, <3>1, <3>3, <3>4 DEF Span
  <2>6. IsFiniteSet(Span(c)) /\ Cardinality(Span(c)) = c.size
    <3> DEFINE a == c.seq_no
               b == c.seq_no + c.size - 1
    <3>1. a \in Int /\ b \in Int /\ (IF a > b THEN 0 ELSE b - a + 1) = c.size
      BY <2>2
    <3>2. Span(c) = a..b
      BY DEF Span
    <3> HIDE DEF a, b, c
    <3> QED
      BY <3>1, <3>2, FS_Interval
  <2>7. /\ IsFiniteSet(C(k + 1))
        /\ Cardinality(C(k + 1)) = Cardinality(C(k)) + c.size - Cardinality(C(k) \cap Span(c))
    <3>1. IsFiniteSet(C(k))
      BY <2>1
    <3> HIDE DEF C, c
    <3> QED
      BY <2>4, <2>6, <3>1, FS_Union
  <2>8. /\ Cardinality(C(k)) \in Nat /\ Cardinality(C(k) \cap Span(c)) \in Nat
        /\ C(k) \cap Span(c) = {} => Cardinality(C(k) \cap Span(c)) = 0
    <3>1. IsFiniteSet(C(k))
      BY <2>1
    <3> HIDE DEF C, c
    <3>2. IsFiniteSet(C(k) \cap Span(c))
      BY <3>1, FS_Intersection
    <3> QED
      BY <3>1, <3>2, FS_CardinalityType, FS_EmptySet
  <2>9. F[k] \in Nat /\ Cardinality(C(k)) <= F[k] /\ (Ordered(g) => Cardinality(C(k)) = F[k])
    BY <2>1
  <2> HIDE DEF C, c
  <2> QED
    BY <2>2, <2>3, <2>5, <2>7, <2>8, <2>9
<1> HIDE DEF S
<1>4. Nat \subseteq S
  BY <1>2, <1>3, SF!Induction
<1>5. Len(g) \in Nat /\ C(Len(g)) = Missing(g)
  BY DEF Missing
<1>6. Good(Len(g))
  <2> HIDE DEF C, Good
  <2> QED
    BY <1>4, <1>5 DEF S
<1> QED
  BY <1>1, <1>5, <1>6

\* What expires: the numbers of the first k records.
LEMMA ExpiredNumbers ==
  ASSUME NEW g \in Seq(Gap), NEW k \in 0..Len(g)
  PROVE  LET D == UNION {Span(g[j]) : j \in 1..k}
             n == Sizes(SubSeq(g, 1, k))
         IN  /\ n \in Nat /\ IsFiniteSet(D) /\ Cardinality(D) <= n
             /\ Ordered(g) => Cardinality(D) = n
<1> DEFINE f == SubSeq(g, 1, k)
<1>1. f \in Seq(Gap) /\ Len(f) = k /\ \A j \in 1..k : f[j] = g[j]
  OBVIOUS
<1> HIDE DEF f
<1>2. Missing(f) = UNION {Span(g[j]) : j \in 1..k}
  BY <1>1 DEF Missing
<1>3. Ordered(g) => Ordered(f)
  BY <1>1 DEF Ordered
<1> QED
  BY <1>1, <1>2, <1>3, SizesCount DEF f

\* What del drops to make room, as a number.
LEMMA DropsCount ==
  ASSUME NEW g \in Seq(Gap), NEW s, NEW i, FindGap(g, s, i)
  PROVE  /\ IsFiniteSet(DelDrops(g, i, s))
         /\ Cardinality(DelDrops(g, i, s)) = DelDropped(g, i, s)
         /\ DelDropped(g, i, s) \in Nat /\ DelLost(g, i, s) \in Nat
<1>1. i \in 1..Len(g) /\ s \in Span(g[i]) /\ 1 \in 1..Len(g)
  BY DEF FindGap
<1>2. g[i].seq_no \in Nat /\ g[i].size \in Nat /\ g[1].seq_no \in Nat /\ g[1].size \in Nat
  BY <1>1, RecordFields
<1>3. s \in Nat /\ g[i].seq_no <= s
  BY <1>1, <1>2 DEF Span
<1>4. CASE ~InMiddle(g[i], s) \/ ~ListFull(g)
  <2>1. DelDrops(g, i, s) = {} /\ DelDropped(g, i, s) = 0 /\ DelLost(g, i, s) = 0
    BY <1>4 DEF DelDrops, DelDropped, DelLost
  <2> QED
    BY <2>1, FS_EmptySet
<1>5. CASE ~(~InMiddle(g[i], s) \/ ~ListFull(g)) /\ i = 1
  <2> DEFINE a == g[i].seq_no
             b == s - 1
             n == s - g[i].seq_no
  <2>1. DelDrops(g, i, s) = a..b /\ DelDropped(g, i, s) = n /\ DelLost(g, i, s) = n
    BY <1>5 DEF DelDrops, DelDropped, DelLost
  <2>2. a \in Int /\ b \in Int /\ (IF a > b THEN 0 ELSE b - a + 1) = n /\ n \in Nat
    BY <1>2, <1>3
  <2> HIDE DEF a, b, n
  <2> QED
    BY <2>1, <2>2, FS_Interval
<1>6. CASE ~(~InMiddle(g[i], s) \/ ~ListFull(g)) /\ i # 1
  <2> DEFINE a == g[1].seq_no
             b == g[1].seq_no + g[1].size - 1
             n == g[1].size
  <2>1. DelDrops(g, i, s) = a..b /\ DelDropped(g, i, s) = n /\ DelLost(g, i, s) = g[i].size
    BY <1>6 DEF DelDrops, DelDropped, DelLost, Span
  <2>2. a \in Int /\ b \in Int /\ (IF a > b THEN 0 ELSE b - a + 1) = n /\ n \in Nat
    BY <1>2
  <2> HIDE DEF a, b, n
  <2> QED
    BY <1>2, <2>1, <2>2, FS_Interval
<1> QED
  BY <1>4, <1>5, <1>6

===============================================================================
