---------------------------- MODULE GapFillProofs ----------------------------
(***************************************************************************)
(* For a pool of any number of nodes greater than one, and any numbers,    *)
(* sizes and times: the linked gap list keeps its links, its count and its *)
(* pool in agreement, its records in order, reports what it loses, and     *)
(* does to its records what the abstract gap tracker does.  The BATS lines *)
(* that use it keep this up although they hold on to a node of it from one *)
(* packet to the next.                                                     *)
(***************************************************************************)
EXTENDS GapFill, BatsLine, GapListProofs

-----------------------------------------------------------------------------
(* Sequences of chunks.                                                     *)

Distinct(c) == \A i, j \in 1..Len(c) : c[i] = c[j] => i = j

\* c with h after its i-th element, and c without its i-th.
Insert(c, i, h) ==
  [k \in 1..(Len(c) + 1) |-> IF k <= i THEN c[k] ELSE IF k = i + 1 THEN h ELSE c[k - 1]]

\* A function on 1..n is a sequence of length n.
LEMMA FunctionIsSeq ==
  ASSUME NEW S, NEW n \in Nat, NEW f \in [1..n -> S]
  PROVE  f \in Seq(S) /\ Len(f) = n
  OBVIOUS

\* Insertion keeps the elements distinct.
LEMMA InsertElements ==
  ASSUME NEW S, NEW c \in Seq(S), NEW i \in 0..Len(c), NEW h \in S
  PROVE  /\ Insert(c, i, h) \in Seq(S)
         /\ Len(Insert(c, i, h)) = Len(c) + 1
         /\ ToSet(Insert(c, i, h)) = ToSet(c) \cup {h}
         /\ Distinct(c) /\ h \notin ToSet(c) => Distinct(Insert(c, i, h))
<1> DEFINE f == Insert(c, i, h)
           n == Len(c) + 1
<1>0. Len(c) \in Nat /\ n \in Nat /\ DOMAIN c = 1..Len(c) /\ \A k \in 1..Len(c) : c[k] \in S
  OBVIOUS
<1>1. f \in [1..n -> S]
  BY <1>0 DEF Insert
<1>2. f \in Seq(S) /\ Len(f) = n /\ DOMAIN f = 1..n
  BY <1>0, <1>1, FunctionIsSeq
<1>3. /\ \A k \in 1..n : f[k] = IF k <= i THEN c[k] ELSE IF k = i + 1 THEN h ELSE c[k - 1]
  BY DEF Insert
<1> HIDE DEF f
<1>4. \A x : x \in ToSet(f) <=> x \in ToSet(c) \cup {h}
  <2> TAKE x
  <2>1. ASSUME NEW k \in 1..n, x = f[k] PROVE x \in ToSet(c) \cup {h}
    BY <1>0, <1>3, <2>1 DEF ToSet
  <2>2. ASSUME NEW k \in 1..Len(c), x = c[k] PROVE x \in ToSet(f)
    <3>1. CASE k <= i
      BY <1>0, <1>2, <1>3, <2>2, <3>1 DEF ToSet
    <3>2. CASE k > i
      <4>1. k + 1 \in 1..n /\ f[k + 1] = c[k]
        BY <1>0, <1>3, <3>2
      <4> QED
        BY <1>2, <2>2, <4>1 DEF ToSet
    <3> QED
      BY <1>0, <3>1, <3>2
  <2>3. h \in ToSet(f)
    <3>1. i + 1 \in 1..n /\ f[i + 1] = h
      BY <1>0, <1>3
    <3> QED
      BY <1>2, <3>1 DEF ToSet
  <2> QED
    BY <1>0, <1>2, <2>1, <2>2, <2>3 DEF ToSet
<1>5. \A k \in 1..n : /\ k <= i => f[k] = c[k] /\ k \in 1..Len(c)
                      /\ k = i + 1 => f[k] = h
                      /\ k > i + 1 => f[k] = c[k - 1] /\ k - 1 \in 1..Len(c)
  BY <1>0, <1>3
<1>6. ASSUME Distinct(c), h \notin ToSet(c) PROVE Distinct(f)
  <2>1. \A k \in 1..Len(c) : c[k] # h
    BY <1>0, <1>6 DEF ToSet
  <2>2. \A j, k \in 1..Len(c) : c[j] = c[k] => j = k
    BY <1>6 DEF Distinct
  <2>3. ASSUME NEW j \in 1..n, NEW k \in 1..n, f[j] = f[k] PROVE j = k
    <3>1. /\ j <= i => f[j] = c[j] /\ j \in 1..Len(c)
          /\ j = i + 1 => f[j] = h
          /\ j > i + 1 => f[j] = c[j - 1] /\ j - 1 \in 1..Len(c)
      BY <1>5
    <3>2. /\ k <= i => f[k] = c[k] /\ k \in 1..Len(c)
          /\ k = i + 1 => f[k] = h
          /\ k > i + 1 => f[k] = c[k - 1] /\ k - 1 \in 1..Len(c)
      BY <1>5
    <3>7. i \in Int /\ j \in Int /\ k \in Int
      BY <1>0
    <3>8. CASE j <= i
      <4>1. k # i + 1
        BY <2>1, <2>3, <3>1, <3>2, <3>7, <3>8
      <4>2. CASE k <= i
        BY <2>2, <2>3, <3>1, <3>2, <3>8, <4>2
      <4>3. CASE k > i + 1
        <5>1. j = k - 1
          BY <2>2, <2>3, <3>1, <3>2, <3>7, <3>8, <4>3
        <5> QED
          BY <3>7, <3>8, <4>3, <5>1
      <4> QED
        BY <3>7, <4>1, <4>2, <4>3
    <3>9. CASE j = i + 1
      <4>1. ~(k <= i)
        BY <2>1, <2>3, <3>1, <3>2, <3>7, <3>9
      <4>2. ~(k > i + 1)
        BY <2>1, <2>3, <3>1, <3>2, <3>7, <3>9
      <4> QED
        BY <3>7, <3>9, <4>1, <4>2
    <3>10. CASE j > i + 1
      <4>1. k # i + 1
        BY <2>1, <2>3, <3>1, <3>2, <3>7, <3>10
      <4>2. CASE k <= i
        <5>1. j - 1 = k
          BY <2>2, <2>3, <3>1, <3>2, <3>7, <3>10, <4>2
        <5> QED
          BY <3>7, <3>10, <4>2, <5>1
      <4>3. CASE k > i + 1
        <5>1. j - 1 = k - 1
          BY <2>2, <2>3, <3>1, <3>2, <3>7, <3>10, <4>3
        <5> QED
          BY <3>7, <5>1
      <4> QED
        BY <3>7, <4>1, <4>2, <4>3
    <3> QED
      BY <3>7, <3>8, <3>9, <3>10
  <2> QED
    BY <1>2, <2>3 DEF Distinct
<1> QED
  BY <1>2, <1>4, <1>6 DEF f

\* Dropping the first elements keeps the others distinct.
LEMMA DropElements ==
  ASSUME NEW S, NEW c \in Seq(S), NEW k \in 0..Len(c)
  PROVE  /\ DropPrefix(c, k) \in Seq(S)
         /\ Len(DropPrefix(c, k)) = Len(c) - k
         /\ \A j \in 1..(Len(c) - k) : DropPrefix(c, k)[j] = c[k + j]
         /\ Distinct(c) => Distinct(DropPrefix(c, k))
         /\ Distinct(c) => \A j \in 1..k : c[j] \notin ToSet(DropPrefix(c, k))
         /\ ToSet(c) = ToSet(DropPrefix(c, k)) \cup {c[j] : j \in 1..k}
<1> DEFINE f == DropPrefix(c, k)
           n == Len(c) - k
<1>0. Len(c) \in Nat /\ n \in Nat /\ DOMAIN c = 1..Len(c) /\ \A j \in 1..Len(c) : c[j] \in S
  OBVIOUS
<1>1. f \in [1..n -> S]
  BY <1>0 DEF DropPrefix
<1>2. f \in Seq(S) /\ Len(f) = n /\ DOMAIN f = 1..n
  BY <1>0, <1>1, FunctionIsSeq
<1>3. \A j \in 1..n : f[j] = c[k + j]
  BY DEF DropPrefix
<1> HIDE DEF f
<1>4. Distinct(c) => Distinct(f)
  BY <1>0, <1>2, <1>3 DEF Distinct
<1>5. ASSUME Distinct(c), NEW j \in 1..k, c[j] \in ToSet(f) PROVE FALSE
  <2>1. PICK m \in 1..n : c[j] = f[m]
    BY <1>2, <1>5 DEF ToSet
  <2>2. k + m \in 1..Len(c) /\ j \in 1..Len(c) /\ c[k + m] = c[j] /\ k + m # j
    <3>1. f[m] = c[k + m]
      BY <1>3
    <3> QED
      BY <1>0, <2>1, <3>1
  <2> QED
    BY <1>5, <2>2 DEF Distinct
<1>6. ToSet(c) = ToSet(f) \cup {c[j] : j \in 1..k}
  <2>1. ASSUME NEW m \in 1..Len(c) PROVE c[m] \in ToSet(f) \cup {c[j] : j \in 1..k}
    <3>1. CASE m <= k
      BY <1>0, <3>1
    <3>2. CASE m > k
      <4>1. m - k \in 1..n /\ f[m - k] = c[m]
        BY <1>0, <1>3, <3>2
      <4> QED
        BY <1>2, <4>1 DEF ToSet
    <3> QED
      BY <1>0, <3>1, <3>2
  <2>2. ASSUME NEW m \in 1..n PROVE f[m] \in ToSet(c)
    BY <1>0, <1>3 DEF ToSet
  <2>3. ASSUME NEW m \in 1..k PROVE c[m] \in ToSet(c)
    BY <1>0 DEF ToSet
  <2> QED
    BY <1>0, <1>2, <2>1, <2>2, <2>3 DEF ToSet
<1> QED
  BY <1>2, <1>3, <1>4, <1>5, <1>6 DEF f

\* Removing an element keeps the others distinct.
LEMMA RemoveElements ==
  ASSUME NEW S, NEW c \in Seq(S), NEW i \in 1..Len(c), Distinct(c)
  PROVE  /\ RemoveRecord(c, i) \in Seq(S)
         /\ Len(RemoveRecord(c, i)) = Len(c) - 1
         /\ Distinct(RemoveRecord(c, i))
         /\ ToSet(RemoveRecord(c, i)) = ToSet(c) \ {c[i]}
<1> DEFINE f == RemoveRecord(c, i)
           n == Len(c) - 1
<1>0. Len(c) \in Nat /\ n \in Nat /\ DOMAIN c = 1..Len(c) /\ \A j \in 1..Len(c) : c[j] \in S
  OBVIOUS
<1>1. f \in [1..n -> S]
  BY <1>0 DEF RemoveRecord
<1>2. f \in Seq(S) /\ Len(f) = n /\ DOMAIN f = 1..n
  BY <1>0, <1>1, FunctionIsSeq
<1> DEFINE at(k) == IF k < i THEN k ELSE k + 1
<1>3. \A k \in 1..n : f[k] = c[at(k)] /\ at(k) \in 1..Len(c) /\ at(k) # i
  BY <1>0 DEF RemoveRecord
<1>4. \A j, k \in 1..n : at(j) = at(k) => j = k
  BY <1>0
<1>5. \A m \in 1..Len(c) : m # i => \E k \in 1..n : at(k) = m
  <2> TAKE m \in 1..Len(c)
  <2>1. CASE m < i
    <3>1. m \in 1..n /\ at(m) = m
      BY <1>0, <2>1
    <3> QED
      BY <3>1
  <2>2. CASE m > i
    <3>1. m - 1 \in 1..n /\ at(m - 1) = m
      BY <1>0, <2>2
    <3> QED
      BY <3>1
  <2> QED
    BY <1>0, <2>1, <2>2
<1>6. \A j, k \in 1..Len(c) : c[j] = c[k] => j = k
  BY DEF Distinct
<1> HIDE DEF f, at, n
<1>7. Distinct(f)
  <2>1. ASSUME NEW j \in 1..n, NEW k \in 1..n, f[j] = f[k] PROVE j = k
    <3>1. at(j) = at(k)
      BY <1>3, <1>6, <2>1
    <3> QED
      BY <1>4, <3>1
  <2> QED
    BY <1>2, <2>1 DEF Distinct
<1>8. \A x : x \in ToSet(f) <=> x \in ToSet(c) \ {c[i]}
  <2>1. ASSUME NEW k \in 1..n PROVE f[k] \in ToSet(c) \ {c[i]}
    BY <1>0, <1>3, <1>6 DEF ToSet
  <2>2. ASSUME NEW m \in 1..Len(c), c[m] # c[i] PROVE c[m] \in ToSet(f)
    <3>1. PICK k \in 1..n : at(k) = m
      BY <1>5, <2>2
    <3> QED
      BY <1>2, <1>3, <3>1 DEF ToSet
  <2> QED
    BY <1>0, <1>2, <2>1, <2>2 DEF ToSet
<1> QED
  BY <1>2, <1>7, <1>8 DEF f, n

\* Two sequences without a common element, one after the other.
Joins(h, e, f) == h = e \o f

\* Two chains without a common chunk, one behind the other, are a chain.
LEMMA ConcatElements ==
  ASSUME NEW S, NEW e \in Seq(S), NEW f \in Seq(S), NEW h, Joins(h, e, f),
         Distinct(e), Distinct(f), ToSet(e) \cap ToSet(f) = {}
  PROVE  /\ h \in Seq(S)
         /\ Len(h) = Len(e) + Len(f)
         /\ ToSet(h) = ToSet(e) \cup ToSet(f)
         /\ Distinct(h)
<1> DEFINE n == Len(e) + Len(f)
<1>1. /\ h \in Seq(S) /\ Len(h) = n /\ DOMAIN h = 1..n /\ n \in Nat
      /\ Len(e) \in Nat /\ Len(f) \in Nat
      /\ DOMAIN e = 1..Len(e) /\ DOMAIN f = 1..Len(f)
      /\ \A k \in 1..n : h[k] = IF k <= Len(e) THEN e[k] ELSE f[k - Len(e)]
  BY DEF Joins
<1>2. \A k \in 1..n : /\ k <= Len(e) => h[k] = e[k] /\ k \in 1..Len(e)
                      /\ k > Len(e) => h[k] = f[k - Len(e)] /\ k - Len(e) \in 1..Len(f)
  BY <1>1
<1>3. \A x : x \in ToSet(h) <=> x \in ToSet(e) \cup ToSet(f)
  <2>1. ASSUME NEW k \in 1..n PROVE h[k] \in ToSet(e) \cup ToSet(f)
    <3>1. CASE k <= Len(e)
      BY <1>1, <1>2, <3>1 DEF ToSet
    <3>2. CASE k > Len(e)
      <4>1. h[k] = f[k - Len(e)] /\ k - Len(e) \in 1..Len(f)
        BY <1>2, <3>2
      <4> QED
        BY <1>1, <4>1 DEF ToSet
    <3> QED
      BY <1>1, <3>1, <3>2
  <2>2. ASSUME NEW k \in 1..Len(e) PROVE e[k] \in ToSet(h)
    BY <1>1 DEF ToSet
  <2>3. ASSUME NEW k \in 1..Len(f) PROVE f[k] \in ToSet(h)
    <3>1. k + Len(e) \in 1..n /\ h[k + Len(e)] = f[k]
      BY <1>1
    <3> QED
      BY <1>1, <3>1 DEF ToSet
  <2> QED
    BY <1>1, <2>1, <2>2, <2>3 DEF ToSet
<1>4. Distinct(h)
  <2>1. \A j \in 1..Len(e), k \in 1..Len(f) : e[j] # f[k]
    BY <1>1 DEF ToSet
  <2>2. ASSUME NEW j \in 1..n, NEW k \in 1..n, h[j] = h[k] PROVE j = k
    <3>1. CASE j <= Len(e) /\ k <= Len(e)
      BY <1>2, <2>2, <3>1 DEF Distinct
    <3>2. CASE j > Len(e) /\ k > Len(e)
      <4>1. j - Len(e) = k - Len(e)
        BY <1>2, <2>2, <3>2 DEF Distinct
      <4> QED
        BY <1>1, <4>1
    <3> QED
      BY <1>1, <1>2, <2>1, <2>2, <3>1, <3>2
  <2> QED
    BY <1>1, <2>2 DEF Distinct
<1> QED
  BY <1>1, <1>3, <1>4

\* The first k elements, last first.
LEMMA ReverseElements ==
  ASSUME NEW S, NEW c \in Seq(S), NEW k \in 0..Len(c), Distinct(c)
  PROVE  /\ Reverse(SubSeq(c, 1, k)) \in Seq(S)
         /\ Len(Reverse(SubSeq(c, 1, k))) = k
         /\ Distinct(Reverse(SubSeq(c, 1, k)))
         /\ ToSet(Reverse(SubSeq(c, 1, k))) = {c[j] : j \in 1..k}
<1> DEFINE e == SubSeq(c, 1, k)
           f == Reverse(e)
<1>0. Len(c) \in Nat /\ k \in Nat /\ \A j \in 1..k : c[j] \in S /\ j \in 1..Len(c)
  OBVIOUS
<1>1. Len(e) = k /\ \A j \in 1..k : e[j] = c[j]
  OBVIOUS
<1> HIDE DEF e
<1>2. f = [i \in 1..k |-> c[(k - i) + 1]]
  BY <1>1 DEF Reverse
<1> HIDE DEF f
<1>3. \A i \in 1..k : f[i] = c[(k - i) + 1] /\ (k - i) + 1 \in 1..k
  BY <1>0, <1>2
<1>4. f \in Seq(S) /\ Len(f) = k /\ DOMAIN f = 1..k
  BY <1>0, <1>2, <1>3, FunctionIsSeq
<1>5. Distinct(f)
  <2>1. ASSUME NEW i \in 1..k, NEW j \in 1..k, f[i] = f[j] PROVE i = j
    <3>1. (k - i) + 1 = (k - j) + 1
      BY <1>0, <1>3, <2>1 DEF Distinct
    <3> QED
      BY <1>0, <3>1
  <2> QED
    BY <1>4, <2>1 DEF Distinct
<1>6. \A x : x \in ToSet(f) <=> x \in {c[j] : j \in 1..k}
  <2>1. ASSUME NEW i \in 1..k PROVE f[i] \in {c[j] : j \in 1..k}
    BY <1>3
  <2>2. ASSUME NEW j \in 1..k PROVE c[j] \in ToSet(f)
    <3>1. (k - j) + 1 \in 1..k /\ f[(k - j) + 1] = c[j]
      BY <1>0, <1>3
    <3> QED
      BY <1>4, <3>1 DEF ToSet
  <2> QED
    BY <1>4, <2>1, <2>2 DEF ToSet
<1> QED
  BY <1>4, <1>5, <1>6 DEF f, e

-----------------------------------------------------------------------------
(* A linked list: the chunks c from hd to tl, by next, and back by prev.    *)

Node == [seq_no : Nat, size : Nat, timestamp : Nat, next : Ptr, prev : Ptr]

Linked(N, hd, tl, c) ==
  /\ N \in [Chunk -> Node]
  /\ c \in Seq(Chunk) /\ Distinct(c)
  /\ hd = IF Len(c) = 0 THEN NULL ELSE c[1]
  /\ tl = IF Len(c) = 0 THEN NULL ELSE c[Len(c)]
  /\ \A i \in 1..Len(c) : N[c[i]].next = IF i = Len(c) THEN NULL ELSE c[i + 1]
  /\ \A i \in 2..Len(c) : N[c[i]].prev = c[i - 1]

\* What the walk of Visited must satisfy.
IsWalk(at, L) ==
  at = [k \in 1..(GapMax + 1) |->
          IF k = 1 THEN L.head
          ELSE IF at[k - 1] = NULL THEN NULL ELSE L.node[at[k - 1]].next]

\* Visited is the function that follows next, by its definition.
LEMMA VisitedIsWalk ==
  ASSUME NEW L
  PROVE  Visited(L) = CHOOSE at : IsWalk(at, L)
  BY Zenon DEF Visited, IsWalk

\* The walk from the head of a linked list goes through its chunks and then stays at NULL.
LEMMA WalkIsChain ==
  ASSUME NEW L, NEW c, Linked(L.node, L.head, L.tail, c), Len(c) <= GapMax
  PROVE  /\ Visited(L) = [k \in 1..(GapMax + 1) |-> IF k <= Len(c) THEN c[k] ELSE NULL]
         /\ Chain(L) = c
         /\ ~Endless(L)
<1> DEFINE w == [k \in 1..(GapMax + 1) |-> IF k <= Len(c) THEN c[k] ELSE NULL]
<1>0. /\ GapMax \in Nat /\ Len(c) \in Nat /\ NULL = 0 /\ DOMAIN c = 1..Len(c)
      /\ c = [k \in 1..Len(c) |-> c[k]]
  BY GapAssumption DEF Linked, NULL
<1>1. \A k \in 1..Len(c) : c[k] \in Chunk /\ c[k] # NULL
  BY <1>0 DEF Linked, Chunk
<1>2. IsWalk(w, L)
  <2>1. ASSUME NEW k \in 1..(GapMax + 1)
        PROVE  w[k] = IF k = 1 THEN L.head
                      ELSE IF w[k - 1] = NULL THEN NULL ELSE L.node[w[k - 1]].next
    <3>1. CASE k = 1
      BY <1>0, <3>1 DEF Linked
    <3>2. CASE k > 1 /\ k - 1 > Len(c)
      BY <1>0, <3>2
    <3>3. CASE k > 1 /\ k - 1 <= Len(c)
      <4>1. k - 1 \in 1..Len(c) /\ w[k - 1] = c[k - 1] /\ c[k - 1] # NULL
        BY <1>0, <1>1, <3>3
      <4>2. L.node[c[k - 1]].next = IF k - 1 = Len(c) THEN NULL ELSE c[(k - 1) + 1]
        BY <4>1 DEF Linked
      <4>3. w[k] = IF k <= Len(c) THEN c[k] ELSE NULL
        OBVIOUS
      <4> HIDE DEF w
      <4> QED
        BY <1>0, <3>3, <4>1, <4>2, <4>3
    <3> QED
      BY <3>1, <3>2, <3>3
  <2>2. w = [k \in 1..(GapMax + 1) |-> w[k]]
    OBVIOUS
  <2> HIDE DEF w
  <2> QED
    BY <2>1, <2>2 DEF IsWalk
<1>3. ASSUME NEW v, IsWalk(v, L) PROVE v = w
  <2> DEFINE S == {k \in Nat : k + 1 <= GapMax + 1 => v[k + 1] = w[k + 1]}
  <2>1. /\ v = [k \in 1..(GapMax + 1) |-> v[k]]
        /\ \A k \in 1..(GapMax + 1) :
             v[k] = IF k = 1 THEN L.head
                    ELSE IF v[k - 1] = NULL THEN NULL ELSE L.node[v[k - 1]].next
    BY <1>3 DEF IsWalk
  <2>2. /\ w = [k \in 1..(GapMax + 1) |-> w[k]]
        /\ \A k \in 1..(GapMax + 1) :
             w[k] = IF k = 1 THEN L.head
                    ELSE IF w[k - 1] = NULL THEN NULL ELSE L.node[w[k - 1]].next
    <3> HIDE DEF w
    <3> QED
      BY <1>2 DEF IsWalk
  <2> HIDE DEF w
  <2>3. 0 \in S
    <3>1. 1 \in 1..(GapMax + 1) /\ 0 + 1 = 1
      BY <1>0
    <3>2. v[1] = L.head /\ w[1] = L.head
      BY <2>1, <2>2, <3>1
    <3> QED
      BY <3>1, <3>2
  <2>4. ASSUME NEW k \in Nat, k \in S PROVE k + 1 \in S
    <3> SUFFICES ASSUME (k + 1) + 1 <= GapMax + 1 PROVE v[(k + 1) + 1] = w[(k + 1) + 1]
      OBVIOUS
    <3>1. v[k + 1] = w[k + 1]
      BY <1>0, <2>4
    <3> DEFINE m == (k + 1) + 1
    <3>2. m \in 1..(GapMax + 1) /\ m # 1 /\ m - 1 = k + 1
      BY <1>0
    <3> HIDE DEF m
    <3>3. v[m] = IF v[m - 1] = NULL THEN NULL ELSE L.node[v[m - 1]].next
      BY <2>1, <3>2
    <3>4. w[m] = IF w[m - 1] = NULL THEN NULL ELSE L.node[w[m - 1]].next
      BY <2>2, <3>2
    <3>5. v[m] = w[m]
      BY <3>1, <3>2, <3>3, <3>4
    <3> QED
      BY <3>5 DEF m
  <2> HIDE DEF S
  <2>5. Nat \subseteq S
    BY <2>3, <2>4, SF!Induction
  <2>6. ASSUME NEW k \in 1..(GapMax + 1) PROVE v[k] = w[k]
    <3>1. k - 1 \in Nat /\ (k - 1) + 1 = k /\ k <= GapMax + 1
      BY <1>0
    <3>2. k - 1 \in S
      BY <2>5, <3>1
    <3> QED
      BY <3>1, <3>2 DEF S
  <2> QED
    BY <2>1, <2>2, <2>6
<1> DEFINE Walk(v) == IsWalk(v, L)
<1>4. Visited(L) = w
  <2>1. Visited(L) = CHOOSE v : Walk(v)
    BY VisitedIsWalk
  <2>2. Walk(w)
    BY <1>2
  <2>3. ASSUME NEW v, Walk(v) PROVE v = w
    BY <1>3, <2>3
  <2> HIDE DEF w, Walk
  <2>4. Walk(CHOOSE v : Walk(v))
    BY <2>2, Zenon
  <2> QED
    BY <2>1, <2>3, <2>4
<1>5. {j \in 1..GapMax : w[j] # NULL} = 1..Len(c)
  BY <1>0, <1>1
<1>6. [k \in 1..Len(c) |-> w[k]] = c
  BY <1>0
<1>7. w[GapMax + 1] = NULL
  BY <1>0
<1> HIDE DEF w
<1>8. Chain(L) = c
  BY <1>4, <1>5, <1>6 DEF Chain
<1>9. ~Endless(L)
  BY <1>4, <1>7 DEF Endless
<1> QED
  BY <1>4, <1>8, <1>9 DEF w

\* The nodes M are the nodes N with h linked in after the i-th chunk of c.
LinkedIn(M, N, c, i, h) ==
  /\ M \in [Chunk -> Node]
  /\ M[h].next = IF i = Len(c) THEN NULL ELSE c[i + 1]
  /\ i > 0 => M[h].prev = c[i] /\ M[c[i]].next = h
  /\ i < Len(c) => M[c[i + 1]].prev = h
  /\ \A x \in Chunk : x # h /\ (i > 0 => x # c[i]) => M[x].next = N[x].next
  /\ \A x \in Chunk : x # h /\ (i < Len(c) => x # c[i + 1]) => M[x].prev = N[x].prev

\* The nodes M are the nodes N with the i-th chunk of c linked out.
LinkedOut(M, N, c, i) ==
  /\ M \in [Chunk -> Node]
  /\ i > 1 => M[c[i - 1]].next = IF i = Len(c) THEN NULL ELSE c[i + 1]
  /\ 1 < i /\ i < Len(c) => M[c[i + 1]].prev = c[i - 1]
  /\ \A x \in Chunk : x # c[i] /\ (i > 1 => x # c[i - 1]) => M[x].next = N[x].next
  /\ \A x \in Chunk : x # c[i] /\ (i < Len(c) => x # c[i + 1]) => M[x].prev = N[x].prev

\* A chunk of no list is linked in after the i-th.
LEMMA InsertLinked ==
  ASSUME NEW N, NEW hd, NEW tl, NEW c, Linked(N, hd, tl, c),
         NEW i \in 0..Len(c), i = 0 => Len(c) = 0,
         NEW h \in Chunk, h \notin ToSet(c),
         NEW M, LinkedIn(M, N, c, i, h)
  PROVE  Linked(M, IF i = 0 THEN h ELSE hd, IF i = Len(c) THEN h ELSE tl, Insert(c, i, h))
<1> DEFINE f == Insert(c, i, h)
           n == Len(c) + 1
<1>0. /\ c \in Seq(Chunk) /\ Distinct(c) /\ Len(c) \in Nat /\ DOMAIN c = 1..Len(c)
      /\ \A k \in 1..Len(c) : c[k] \in Chunk /\ c[k] # h
  BY DEF Linked, ToSet
<1>1. /\ \A k \in 1..Len(c) : N[c[k]].next = IF k = Len(c) THEN NULL ELSE c[k + 1]
      /\ \A k \in 2..Len(c) : N[c[k]].prev = c[k - 1]
  BY DEF Linked
<1>a. /\ hd = IF Len(c) = 0 THEN NULL ELSE c[1]
      /\ tl = IF Len(c) = 0 THEN NULL ELSE c[Len(c)]
  BY DEF Linked
<1>b. \A j, k \in 1..Len(c) : j # k => c[j] # c[k]
  BY DEF Linked, Distinct
<1>c. n \in Nat /\ Len(c) \in Nat /\ i \in Nat /\ i <= Len(c)
  BY <1>0
<1>2. f \in Seq(Chunk) /\ Len(f) = n /\ Distinct(f)
  BY <1>0, InsertElements
<1>3. \A k \in 1..n : /\ k <= i => f[k] = c[k] /\ k \in 1..Len(c)
                      /\ k = i + 1 => f[k] = h
                      /\ k > i + 1 => f[k] = c[k - 1] /\ k - 1 \in 1..Len(c)
  BY <1>0 DEF Insert
<1> HIDE DEF f
<1>4. ASSUME NEW k \in 1..n PROVE M[f[k]].next = IF k = n THEN NULL ELSE f[k + 1]
  <2>0. k \in Int /\ i \in Int
    BY <1>0
  <2>1. CASE k < i
    <3>0. /\ k + 1 \in 1..n /\ k + 1 <= i /\ k <= i /\ k # n /\ k # Len(c) /\ k # i
          /\ i \in 1..Len(c)
      BY <1>c, <2>0, <2>1
    <3>1. f[k] = c[k] /\ k \in 1..Len(c) /\ f[k + 1] = c[k + 1] /\ k # n /\ k # Len(c)
      BY <1>3, <3>0
    <3>2. c[k] # c[i] /\ c[k] # h /\ c[k] \in Chunk
      BY <1>0, <1>b, <3>0, <3>1
    <3>3. M[c[k]].next = N[c[k]].next
      BY <3>2 DEF LinkedIn
    <3> QED
      BY <1>1, <3>1, <3>3
  <2>2. CASE k = i
    <3>1. f[k] = c[i] /\ f[k + 1] = h /\ k # n /\ i > 0
      BY <1>0, <1>3, <2>2
    <3> QED
      BY <3>1 DEF LinkedIn
  <2>3. CASE k = i + 1
    <3>0. k = n <=> i = Len(c)
      BY <1>c, <2>0, <2>3
    <3>1. f[k] = h /\ (k = n <=> i = Len(c))
      BY <1>3, <2>3, <3>0
    <3>2. k # n => f[k + 1] = c[i + 1]
      BY <1>0, <1>3, <2>3
    <3> QED
      BY <3>1, <3>2 DEF LinkedIn
  <2>4. CASE k > i + 1
    <3>1. f[k] = c[k - 1] /\ k - 1 \in 1..Len(c) /\ (k = n <=> k - 1 = Len(c))
      BY <1>0, <1>3, <2>4
    <3>2. k # n => f[k + 1] = c[k]
      <4>1. k # n => k + 1 \in 1..n /\ k + 1 > i + 1 /\ (k + 1) - 1 = k
        BY <1>0, <2>4
      <4> QED
        BY <1>3, <4>1
    <3>3. c[k - 1] # h /\ c[k - 1] \in Chunk /\ (i > 0 => c[k - 1] # c[i])
      <4>1. i > 0 => i \in 1..Len(c) /\ k - 1 # i
        BY <1>0, <2>4
      <4> QED
        BY <1>0, <1>b, <3>1, <4>1
    <3>4. M[c[k - 1]].next = N[c[k - 1]].next
      BY <3>3 DEF LinkedIn
    <3>5. N[c[k - 1]].next = IF k - 1 = Len(c) THEN NULL ELSE c[(k - 1) + 1]
      BY <1>1, <3>1
    <3> QED
      BY <2>0, <3>1, <3>2, <3>4, <3>5
  <2> QED
    BY <2>0, <2>1, <2>2, <2>3, <2>4
<1>5. ASSUME NEW k \in 2..n PROVE M[f[k]].prev = f[k - 1]
  <2>0. k \in Int /\ i \in Int /\ k \in 1..n /\ k - 1 \in 1..n
    BY <1>0
  <2>1. CASE k <= i
    <3>1. f[k] = c[k] /\ k \in 1..Len(c) /\ f[k - 1] = c[k - 1] /\ k \in 2..Len(c)
      BY <1>0, <1>3, <2>0, <2>1
    <3>2. c[k] # h /\ c[k] \in Chunk /\ (i < Len(c) => c[k] # c[i + 1])
      <4>1. i < Len(c) => i + 1 \in 1..Len(c) /\ k # i + 1
        BY <1>0, <2>1
      <4> QED
        BY <1>0, <1>b, <3>1, <4>1
    <3>3. M[c[k]].prev = N[c[k]].prev
      BY <3>2 DEF LinkedIn
    <3> QED
      BY <1>1, <3>1, <3>3
  <2>2. CASE k = i + 1
    <3>1. f[k] = h /\ f[k - 1] = c[i] /\ i > 0
      BY <1>0, <1>3, <2>0, <2>2
    <3> QED
      BY <3>1 DEF LinkedIn
  <2>3. CASE k = i + 2
    <3>1. f[k] = c[i + 1] /\ f[k - 1] = h /\ i < Len(c)
      BY <1>0, <1>3, <2>0, <2>3
    <3> QED
      BY <3>1 DEF LinkedIn
  <2>4. CASE k > i + 2
    <3>1. f[k] = c[k - 1] /\ k - 1 \in 2..Len(c)
      BY <1>0, <1>3, <2>0, <2>4
    <3>2. f[k - 1] = c[(k - 1) - 1]
      BY <1>3, <2>0, <2>4
    <3>3. c[k - 1] # h /\ c[k - 1] \in Chunk /\ (i < Len(c) => c[k - 1] # c[i + 1])
      <4>1. i < Len(c) => i + 1 \in 1..Len(c) /\ k - 1 # i + 1
        BY <1>0, <2>4
      <4>2. k - 1 \in 1..Len(c)
        BY <1>0, <3>1
      <4> QED
        BY <1>0, <1>b, <4>1, <4>2
    <3>4. M[c[k - 1]].prev = N[c[k - 1]].prev
      BY <3>3 DEF LinkedIn
    <3>5. N[c[k - 1]].prev = c[(k - 1) - 1]
      BY <1>1, <3>1
    <3> QED
      BY <3>1, <3>2, <3>4, <3>5
  <2> QED
    BY <2>0, <2>1, <2>2, <2>3, <2>4
<1>6. (IF i = 0 THEN h ELSE hd) = f[1]
  <2>1. 1 \in 1..n /\ (i = 0 <=> 1 = i + 1) /\ (i # 0 => 1 <= i /\ Len(c) # 0)
    BY <1>0
  <2> QED
    BY <1>3, <1>a, <2>1
<1>7. (IF i = Len(c) THEN h ELSE tl) = f[n]
  <2>1. i = Len(c) => f[n] = h
    BY <1>0, <1>3
  <2>2. i # Len(c) => f[n] = c[Len(c)] /\ Len(c) # 0
    <3>1. i # Len(c) => n \in 1..n /\ n > i + 1 /\ n - 1 = Len(c) /\ Len(c) # 0
      BY <1>c
    <3> QED
      BY <1>3, <3>1
  <2> QED
    BY <1>a, <2>1, <2>2
<1>9. M \in [Chunk -> Node]
  BY DEF LinkedIn
<1>8. Len(f) # 0 /\ n \in Nat
  BY <1>0, <1>2
<1> HIDE DEF n
<1> QED
  BY <1>2, <1>4, <1>5, <1>6, <1>7, <1>8, <1>9 DEF Linked, f

\* A list loses its i-th chunk; its neighbours are linked to each other.
LEMMA RemoveLinked ==
  ASSUME NEW N, NEW hd, NEW tl, NEW c, Linked(N, hd, tl, c),
         NEW i \in 1..Len(c), NEW M, LinkedOut(M, N, c, i)
  PROVE  Linked(M,
                IF Len(c) = 1 THEN NULL ELSE IF i = 1 THEN c[2] ELSE hd,
                IF Len(c) = 1 THEN NULL ELSE IF i = Len(c) THEN c[Len(c) - 1] ELSE tl,
                RemoveRecord(c, i))
<1> DEFINE f == RemoveRecord(c, i)
           n == Len(c) - 1
<1>0. /\ c \in Seq(Chunk) /\ Distinct(c) /\ Len(c) \in Nat /\ DOMAIN c = 1..Len(c)
      /\ \A k \in 1..Len(c) : c[k] \in Chunk
  BY DEF Linked
<1>1. /\ \A k \in 1..Len(c) : N[c[k]].next = IF k = Len(c) THEN NULL ELSE c[k + 1]
      /\ \A k \in 2..Len(c) : N[c[k]].prev = c[k - 1]
  BY DEF Linked
<1>a. /\ hd = IF Len(c) = 0 THEN NULL ELSE c[1]
      /\ tl = IF Len(c) = 0 THEN NULL ELSE c[Len(c)]
  BY DEF Linked
<1>b. \A j, k \in 1..Len(c) : j # k => c[j] # c[k]
  BY DEF Linked, Distinct
<1>c. n \in Nat /\ Len(c) \in Nat /\ i \in Nat /\ 1 <= i /\ i <= Len(c)
  BY <1>0
<1>2. f \in Seq(Chunk) /\ Len(f) = n /\ Distinct(f)
  BY <1>0, RemoveElements
<1>3. \A k \in 1..n : /\ k < i => f[k] = c[k]
                      /\ k >= i => f[k] = c[k + 1]
                      /\ k \in 1..Len(c) /\ k + 1 \in 1..Len(c) /\ k \in Int
  BY <1>0 DEF RemoveRecord
<1> HIDE DEF f
<1>4. ASSUME NEW k \in 1..n PROVE M[f[k]].next = IF k = n THEN NULL ELSE f[k + 1]
  <2>0. k \in Int /\ i \in Int
    BY <1>0
  <2>1. CASE k < i - 1
    <3>1. f[k] = c[k] /\ k \in 1..Len(c) /\ f[k + 1] = c[k + 1] /\ k # n /\ k # Len(c)
      BY <1>0, <1>3, <2>1
    <3>2. c[k] # c[i] /\ (i > 1 => c[k] # c[i - 1]) /\ c[k] \in Chunk
      <4>1. k # i /\ (i > 1 => i - 1 \in 1..Len(c) /\ k # i - 1)
        BY <1>0, <2>1
      <4> QED
        BY <1>0, <1>b, <3>1, <4>1
    <3>3. M[c[k]].next = N[c[k]].next
      BY <3>2 DEF LinkedOut
    <3> QED
      BY <1>1, <3>1, <3>3
  <2>2. CASE k = i - 1
    <3>1. f[k] = c[i - 1] /\ i > 1 /\ (k = n <=> i = Len(c))
      BY <1>0, <1>3, <2>2
    <3>2. k # n => f[k + 1] = c[i + 1]
      <4>1. k # n => k + 1 \in 1..n /\ k + 1 >= i /\ (k + 1) + 1 = i + 1
        BY <1>c, <2>0, <2>2
      <4> QED
        BY <1>3, <4>1
    <3> QED
      BY <3>1, <3>2 DEF LinkedOut
  <2>3. CASE k >= i
    <3>1. f[k] = c[k + 1] /\ k + 1 \in 1..Len(c) /\ (k = n <=> k + 1 = Len(c))
      BY <1>0, <1>3, <2>3
    <3>2. k # n => f[k + 1] = c[(k + 1) + 1]
      <4>1. k # n => k + 1 \in 1..n /\ k + 1 >= i
        BY <1>c, <2>0, <2>3
      <4> QED
        BY <1>3, <4>1
    <3>3. c[k + 1] \in Chunk /\ c[k + 1] # c[i] /\ (i > 1 => c[k + 1] # c[i - 1])
      <4>1. k + 1 # i /\ (i > 1 => i - 1 \in 1..Len(c) /\ k + 1 # i - 1)
        BY <1>0, <2>3
      <4> QED
        BY <1>0, <1>b, <3>1, <4>1
    <3>4. M[c[k + 1]].next = N[c[k + 1]].next
      BY <3>3 DEF LinkedOut
    <3>5. N[c[k + 1]].next = IF k + 1 = Len(c) THEN NULL ELSE c[(k + 1) + 1]
      BY <1>1, <3>1
    <3> QED
      BY <3>1, <3>2, <3>4, <3>5
  <2> QED
    BY <2>0, <2>1, <2>2, <2>3
<1>5. ASSUME NEW k \in 2..n PROVE M[f[k]].prev = f[k - 1]
  <2>0. k \in Int /\ i \in Int /\ k \in 1..n /\ k - 1 \in 1..n
    BY <1>0
  <2>1. CASE k < i
    <3>1. f[k] = c[k] /\ k \in 2..Len(c) /\ f[k - 1] = c[k - 1]
      BY <1>0, <1>3, <2>0, <2>1
    <3>2. c[k] \in Chunk /\ c[k] # c[i] /\ (i < Len(c) => c[k] # c[i + 1])
      <4>1. k # i /\ k \in 1..Len(c) /\ (i < Len(c) => i + 1 \in 1..Len(c) /\ k # i + 1)
        BY <1>0, <2>1, <3>1
      <4> QED
        BY <1>0, <1>b, <4>1
    <3>3. M[c[k]].prev = N[c[k]].prev
      BY <3>2 DEF LinkedOut
    <3> QED
      BY <1>1, <3>1, <3>3
  <2>2. CASE k = i
    <3>1. f[k] = c[i + 1] /\ f[k - 1] = c[i - 1] /\ 1 < i /\ i < Len(c)
      BY <1>0, <1>3, <2>0, <2>2
    <3> QED
      BY <3>1 DEF LinkedOut
  <2>3. CASE k > i
    <3>1. f[k] = c[k + 1] /\ k + 1 \in 2..Len(c)
      BY <1>0, <1>3, <2>0, <2>3
    <3>2. f[k - 1] = c[(k - 1) + 1] /\ (k - 1) + 1 = (k + 1) - 1
      BY <1>3, <2>0, <2>3
    <3>3. c[k + 1] \in Chunk /\ c[k + 1] # c[i] /\ (i < Len(c) => c[k + 1] # c[i + 1])
      <4>1. /\ k + 1 # i /\ k + 1 \in 1..Len(c)
            /\ i < Len(c) => i + 1 \in 1..Len(c) /\ k + 1 # i + 1
        BY <1>0, <2>3, <3>1
      <4> QED
        BY <1>0, <1>b, <4>1
    <3>4. M[c[k + 1]].prev = N[c[k + 1]].prev
      BY <3>3 DEF LinkedOut
    <3>5. N[c[k + 1]].prev = c[(k + 1) - 1]
      BY <1>1, <3>1
    <3> QED
      BY <3>1, <3>2, <3>4, <3>5
  <2> QED
    BY <2>0, <2>1, <2>2, <2>3
<1>6. Len(c) # 1 => (IF i = 1 THEN c[2] ELSE hd) = f[1] /\ n # 0
  <2>1. Len(c) # 1 => 1 \in 1..n
    BY <1>0
  <2>2. Len(c) # 1 => /\ i = 1 => f[1] = c[1 + 1]
                      /\ i # 1 => f[1] = c[1]
    BY <1>0, <1>3, <2>1
  <2> QED
    <3>1. Len(c) # 1 => n # 0 /\ Len(c) # 0 /\ 1 + 1 = 2
      BY <1>0
    <3> QED
      BY <1>a, <2>2, <3>1
<1>7. Len(c) # 1 => (IF i = Len(c) THEN c[Len(c) - 1] ELSE tl) = f[n]
  <2>1. Len(c) # 1 => n \in 1..n
    BY <1>0
  <2>2. Len(c) # 1 => /\ i = Len(c) => f[n] = c[Len(c) - 1]
                      /\ i # Len(c) => f[n] = c[Len(c)]
    <3>1. Len(c) # 1 => /\ i = Len(c) => n < i
                        /\ i # Len(c) => n >= i
                        /\ n = Len(c) - 1 /\ n + 1 = Len(c)
      BY <1>c
    <3> QED
      BY <1>3, <2>1, <3>1
  <2>3. Len(c) # 0
    BY <1>0
  <2> QED
    BY <1>a, <2>2, <2>3
<1>8. n \in Nat /\ (Len(c) = 1 <=> n = 0)
  BY <1>0
<1> DEFINE hd2 == IF Len(c) = 1 THEN NULL ELSE IF i = 1 THEN c[2] ELSE hd
           tl2 == IF Len(c) = 1 THEN NULL ELSE IF i = Len(c) THEN c[Len(c) - 1] ELSE tl
<1>9. hd2 = IF n = 0 THEN NULL ELSE f[1]
  BY <1>6, <1>8
<1>10. tl2 = IF n = 0 THEN NULL ELSE f[n]
  BY <1>7, <1>8
<1> HIDE DEF n, hd2, tl2
<1>12. M \in [Chunk -> Node]
  BY DEF LinkedOut
<1>11. Linked(M, hd2, tl2, f)
  BY <1>12, <1>2, <1>4, <1>5, <1>8, <1>9, <1>10 DEF Linked
<1> QED
  BY <1>11 DEF f, hd2, tl2

-----------------------------------------------------------------------------
(* The records of a linked list.                                            *)

Rec(N, x) == NewGap(N[x].seq_no, N[x].size, N[x].timestamp)

Recs(N, c) == [i \in 1..Len(c) |-> Rec(N, c[i])]

\* The records of nodes M are those of N, but for the chunks x and y.
SameBut(M, N, x, y) == \A z \in Chunk : z # x /\ z # y => Rec(M, z) = Rec(N, z)

\* What the chunks hold is a gap record.
LEMMA RecFields ==
  ASSUME NEW N \in [Chunk -> Node], NEW x \in Chunk
  PROVE  /\ Rec(N, x) \in Gap
         /\ Rec(N, x).seq_no = N[x].seq_no
         /\ Rec(N, x).size = N[x].size
         /\ Rec(N, x).timestamp = N[x].timestamp
<1>1. N[x] \in Node
  OBVIOUS
<1>2. N[x].seq_no \in Nat /\ N[x].size \in Nat /\ N[x].timestamp \in Nat
  BY <1>1 DEF Node
<1> QED
  BY <1>2 DEF Rec, NewGap, Gap

\* The records of a chain are those of its chunks, in their order.
LEMMA RecsElements ==
  ASSUME NEW N \in [Chunk -> Node], NEW c \in Seq(Chunk)
  PROVE  /\ Recs(N, c) \in Seq(Gap)
         /\ Len(Recs(N, c)) = Len(c)
         /\ \A i \in 1..Len(c) : Recs(N, c)[i] = Rec(N, c[i])
<1>1. \A i \in 1..Len(c) : c[i] \in Chunk
  OBVIOUS
<1>2. \A i \in 1..Len(c) : Rec(N, c[i]) \in Gap
  BY <1>1, RecFields
<1>3. Recs(N, c) \in [1..Len(c) -> Gap] /\ Len(c) \in Nat
  BY <1>2 DEF Recs
<1> QED
  BY <1>3, FunctionIsList DEF Recs

\* The records of a linked list are its chunks' records.
LEMMA RecordsAre ==
  ASSUME NEW L, NEW c, Linked(L.node, L.head, L.tail, c), Len(c) <= GapMax
  PROVE  Records(L) = Recs(L.node, c)
<1>1. Chain(L) = c
  BY WalkIsChain
<1> QED
  BY <1>1 DEF Records, Record, Recs, Rec

\* Two sequences of records with the same elements are equal.
LEMMA SameRecords ==
  ASSUME NEW g \in Seq(Gap), NEW h \in Seq(Gap), Len(g) = Len(h),
         \A k \in 1..Len(g) : g[k] = h[k]
  PROVE  g = h
  OBVIOUS

\* Sequence e is g with its i-th record replaced by lo and hi.
Splits(e, g, i, lo, hi) ==
  /\ e \in Seq(Gap) /\ Len(e) = Len(g) + 1
  /\ \A k \in 1..(Len(g) + 1) :
       e[k] = IF k < i THEN g[k] ELSE IF k = i THEN lo
              ELSE IF k = i + 1 THEN hi ELSE g[k - 1]

\* SplitRecord does.
LEMMA SplitRecordSplits ==
  ASSUME NEW g \in Seq(Gap), NEW i \in 1..Len(g), NEW lo \in Gap, NEW hi \in Gap
  PROVE  Splits(SplitRecord(g, i, lo, hi), g, i, lo, hi)
<1>1. SplitRecord(g, i, lo, hi) \in [1..(Len(g) + 1) -> Gap]
  BY DEF SplitRecord
<1>2. SplitRecord(g, i, lo, hi) \in Seq(Gap) /\ Len(SplitRecord(g, i, lo, hi)) = Len(g) + 1
  BY <1>1, FunctionIsList
<1> QED
  BY <1>2 DEF SplitRecord, Splits

\* Records are untouched where the links change.
LEMMA InsertRecs ==
  ASSUME NEW N \in [Chunk -> Node], NEW M \in [Chunk -> Node],
         NEW c \in Seq(Chunk), Distinct(c), NEW i \in 1..Len(c),
         NEW h \in Chunk, h \notin ToSet(c),
         SameBut(M, N, c[i], h)
  PROVE  Recs(M, Insert(c, i, h)) = SplitRecord(Recs(N, c), i, Rec(M, c[i]), Rec(M, h))
<1> DEFINE f == Insert(c, i, h)
           n == Len(c) + 1
           g == Recs(N, c)
           lo == Rec(M, c[i])
           hi == Rec(M, h)
           e == SplitRecord(g, i, lo, hi)
           r == Recs(M, f)
<1>0. Len(c) \in Nat /\ i \in 0..Len(c) /\ c[i] \in Chunk /\ n \in Nat
  OBVIOUS
<1>1. f \in Seq(Chunk) /\ Len(f) = n
  BY <1>0, InsertElements
<1>2. g \in Seq(Gap) /\ Len(g) = Len(c) /\ \A k \in 1..Len(c) : g[k] = Rec(N, c[k])
  BY RecsElements
<1>3. lo \in Gap /\ hi \in Gap
  BY <1>0, RecFields
<1>4. \A k \in 1..n : f[k] = IF k <= i THEN c[k] ELSE IF k = i + 1 THEN h ELSE c[k - 1]
  BY DEF Insert
<1> HIDE DEF f
<1>5. r \in Seq(Gap) /\ Len(r) = n /\ \A k \in 1..n : r[k] = Rec(M, f[k])
  BY <1>1, RecsElements
<1> HIDE DEF g, lo, hi, r
<1>6. /\ e \in Seq(Gap) /\ Len(e) = n
      /\ \A k \in 1..n : e[k] = IF k < i THEN g[k] ELSE IF k = i THEN lo
                                ELSE IF k = i + 1 THEN hi ELSE g[k - 1]
  <2>1. i \in 1..Len(g)
    BY <1>2
  <2>2. /\ e \in Seq(Gap) /\ Len(e) = Len(g) + 1
        /\ \A k \in 1..(Len(g) + 1) :
             e[k] = IF k < i THEN g[k] ELSE IF k = i THEN lo
                    ELSE IF k = i + 1 THEN hi ELSE g[k - 1]
    <3>1. g \in Seq(Gap) /\ lo \in Gap /\ hi \in Gap
      BY <1>2, <1>3
    <3>2. Splits(e, g, i, lo, hi)
      BY ONLY <2>1, <3>1, SplitRecordSplits
    <3> QED
      BY ONLY <3>2 DEF Splits
  <2> QED
    BY <1>2, <2>2
<1> HIDE DEF e
<1>7. ASSUME NEW j \in 1..Len(c), j # i PROVE Rec(M, c[j]) = g[j]
  <2>1. c[j] \in Chunk /\ c[j] # c[i] /\ c[j] # h
    BY <1>7 DEF Distinct, ToSet
  <2>2. Rec(M, c[j]) = Rec(N, c[j])
    BY <2>1 DEF SameBut
  <2> QED
    BY <1>2, <2>2
<1>8. ASSUME NEW k \in 1..n PROVE r[k] = e[k]
  <2>0. r[k] = Rec(M, f[k]) /\ k \in Nat /\ i \in Nat
    BY <1>0, <1>5
  <2>1. CASE k < i
    <3>1. f[k] = c[k] /\ k \in 1..Len(c) /\ k # i /\ e[k] = g[k]
      BY <1>0, <1>4, <1>6, <2>0, <2>1
    <3> QED
      BY <1>7, <2>0, <3>1
  <2>2. CASE k = i
    <3>1. f[k] = c[i] /\ e[k] = lo
      BY <1>0, <1>4, <1>6, <2>0, <2>2
    <3> QED
      BY <2>0, <3>1 DEF lo
  <2>3. CASE k = i + 1
    <3>1. f[k] = h /\ e[k] = hi
      BY <1>0, <1>4, <1>6, <2>0, <2>3
    <3> QED
      BY <2>0, <3>1 DEF hi
  <2>4. CASE k > i + 1
    <3>0. ~(k <= i) /\ ~(k < i) /\ k # i /\ k # i + 1 /\ k - 1 \in 1..Len(c) /\ k - 1 # i
      BY <1>0, <2>0, <2>4
    <3>1. f[k] = c[k - 1] /\ k - 1 \in 1..Len(c) /\ k - 1 # i /\ e[k] = g[k - 1]
      BY <1>4, <1>6, <3>0
    <3> QED
      BY <1>7, <2>0, <3>1
  <2> QED
    BY <2>0, <2>1, <2>2, <2>3, <2>4
<1>9. r = e
  BY <1>5, <1>6, <1>8, SameRecords
<1> QED
  BY <1>9 DEF r, e, f, g, lo, hi

\* A chunk put at the end of the chain adds its record at the end.
LEMMA AppendRecs ==
  ASSUME NEW N \in [Chunk -> Node], NEW M \in [Chunk -> Node],
         NEW c \in Seq(Chunk), NEW h \in Chunk, h \notin ToSet(c),
         SameBut(M, N, h, h)
  PROVE  Recs(M, Insert(c, Len(c), h)) = Append(Recs(N, c), Rec(M, h))
<1> DEFINE f == Insert(c, Len(c), h)
           n == Len(c) + 1
           g == Recs(N, c)
           hi == Rec(M, h)
           e == Append(g, hi)
           r == Recs(M, f)
<1>0. Len(c) \in Nat /\ Len(c) \in 0..Len(c) /\ n \in Nat
  OBVIOUS
<1>1. f \in Seq(Chunk) /\ Len(f) = n
  <2> DEFINE i == Len(c)
  <2>1. i \in 0..Len(c)
    BY <1>0
  <2> HIDE DEF i
  <2>2. Insert(c, i, h) \in Seq(Chunk) /\ Len(Insert(c, i, h)) = Len(c) + 1
    BY <2>1, InsertElements
  <2> QED
    BY <2>2 DEF i
<1>2. g \in Seq(Gap) /\ Len(g) = Len(c) /\ \A k \in 1..Len(c) : g[k] = Rec(N, c[k])
  BY RecsElements
<1>3. hi \in Gap
  BY RecFields
<1>4. \A k \in 1..n : /\ k <= Len(c) => f[k] = c[k]
                      /\ k = Len(c) + 1 => f[k] = h
  BY <1>0 DEF Insert
<1> HIDE DEF f
<1>5. r \in Seq(Gap) /\ Len(r) = n /\ \A k \in 1..n : r[k] = Rec(M, f[k])
  BY <1>1, RecsElements
<1> HIDE DEF g, hi, r
<1>6. /\ e \in Seq(Gap) /\ Len(e) = n
      /\ \A k \in 1..Len(c) : e[k] = g[k]
      /\ e[n] = hi
  BY <1>2, <1>3
<1> HIDE DEF e
<1>7. ASSUME NEW j \in 1..Len(c) PROVE Rec(M, c[j]) = g[j]
  <2>1. c[j] \in Chunk /\ c[j] # h
    BY DEF ToSet
  <2>2. Rec(M, c[j]) = Rec(N, c[j])
    BY <2>1 DEF SameBut
  <2> QED
    BY <1>2, <2>2
<1>8. ASSUME NEW k \in 1..n PROVE r[k] = e[k]
  <2>0. r[k] = Rec(M, f[k]) /\ k \in Nat
    BY <1>0, <1>5
  <2>1. CASE k <= Len(c)
    <3>1. f[k] = c[k] /\ k \in 1..Len(c) /\ e[k] = g[k]
      BY <1>0, <1>4, <1>6, <2>0, <2>1
    <3> QED
      BY <1>7, <2>0, <3>1
  <2>2. CASE k = n
    BY <1>0, <1>4, <1>6, <2>0, <2>2 DEF hi
  <2> QED
    BY <1>0, <2>0, <2>1, <2>2
<1>9. r = e
  BY <1>5, <1>6, <1>8, SameRecords
<1> QED
  BY <1>9 DEF r, e, f, g, hi

\* A chunk taken out of the chain takes its record out.
LEMMA RemoveRecs ==
  ASSUME NEW N \in [Chunk -> Node], NEW M \in [Chunk -> Node],
         NEW c \in Seq(Chunk), Distinct(c), NEW i \in 1..Len(c), SameBut(M, N, c[i], c[i])
  PROVE  Recs(M, RemoveRecord(c, i)) = RemoveRecord(Recs(N, c), i)
<1> DEFINE f == RemoveRecord(c, i)
           n == Len(c) - 1
           g == Recs(N, c)
           e == RemoveRecord(g, i)
           r == Recs(M, f)
<1>0. Len(c) \in Nat /\ n \in Nat
  OBVIOUS
<1>1. f \in Seq(Chunk) /\ Len(f) = n
  BY RemoveElements
<1>2. g \in Seq(Gap) /\ Len(g) = Len(c) /\ \A k \in 1..Len(c) : g[k] = Rec(N, c[k])
  BY RecsElements
<1>4. \A k \in 1..n : f[k] = IF k < i THEN c[k] ELSE c[k + 1]
  BY DEF RemoveRecord
<1> HIDE DEF f
<1>5. r \in Seq(Gap) /\ Len(r) = n /\ \A k \in 1..n : r[k] = Rec(M, f[k])
  BY <1>1, RecsElements
<1> HIDE DEF g, r
<1>6. /\ e \in Seq(Gap) /\ Len(e) = n
      /\ \A k \in 1..n : e[k] = IF k < i THEN g[k] ELSE g[k + 1]
  BY <1>2, RemoveRecordElements
<1> HIDE DEF e
<1>7. ASSUME NEW j \in 1..Len(c), j # i PROVE Rec(M, c[j]) = g[j]
  <2>1. c[j] \in Chunk /\ c[j] # c[i]
    BY <1>7 DEF Distinct
  <2>2. Rec(M, c[j]) = Rec(N, c[j])
    BY <2>1 DEF SameBut
  <2> QED
    BY <1>2, <2>2
<1>8. ASSUME NEW k \in 1..n PROVE r[k] = e[k]
  <2>0. r[k] = Rec(M, f[k]) /\ k \in Nat /\ i \in Nat
    BY <1>0, <1>5
  <2>1. CASE k < i
    <3>1. f[k] = c[k] /\ k \in 1..Len(c) /\ k # i /\ e[k] = g[k]
      BY <1>0, <1>4, <1>6, <2>0, <2>1
    <3> QED
      BY <1>7, <2>0, <3>1
  <2>2. CASE k >= i
    <3>1. f[k] = c[k + 1] /\ k + 1 \in 1..Len(c) /\ k + 1 # i /\ e[k] = g[k + 1]
      BY <1>0, <1>4, <1>6, <2>0, <2>2
    <3> QED
      BY <1>7, <2>0, <3>1
  <2> QED
    BY <2>0, <2>1, <2>2
<1>9. r = e
  BY <1>5, <1>6, <1>8, SameRecords
<1> QED
  BY <1>9 DEF r, e, f, g

\* Chunks freed at the head take the records at the front with them.
LEMMA DropRecs ==
  ASSUME NEW N \in [Chunk -> Node], NEW M \in [Chunk -> Node],
         NEW c \in Seq(Chunk), NEW k \in 0..Len(c), SameBut(M, N, NULL, NULL)
  PROVE  Recs(M, DropPrefix(c, k)) = DropPrefix(Recs(N, c), k)
<1> DEFINE f == DropPrefix(c, k)
           n == Len(c) - k
           g == Recs(N, c)
           e == DropPrefix(g, k)
           r == Recs(M, f)
<1>0. Len(c) \in Nat /\ n \in Nat
  OBVIOUS
<1>1. f \in Seq(Chunk) /\ Len(f) = n /\ \A j \in 1..n : f[j] = c[k + j]
  BY DropElements
<1>2. g \in Seq(Gap) /\ Len(g) = Len(c) /\ \A j \in 1..Len(c) : g[j] = Rec(N, c[j])
  BY RecsElements
<1> HIDE DEF f
<1>5. r \in Seq(Gap) /\ Len(r) = n /\ \A j \in 1..n : r[j] = Rec(M, f[j])
  BY <1>1, RecsElements
<1> HIDE DEF g, r
<1>6. e \in Seq(Gap) /\ Len(e) = n /\ \A j \in 1..n : e[j] = g[k + j]
  BY <1>2, DropPrefixElements
<1> HIDE DEF e
<1>7. ASSUME NEW j \in 1..Len(c) PROVE Rec(M, c[j]) = g[j]
  <2>0. c[j] \in Chunk
    OBVIOUS
  <2>1. c[j] \in Chunk /\ c[j] # NULL
    BY <2>0, GapAssumption DEF Chunk, NULL
  <2> QED
    BY <1>2, <2>1 DEF SameBut
<1>8. ASSUME NEW j \in 1..n PROVE r[j] = e[j]
  <2>1. k + j \in 1..Len(c)
    BY <1>0
  <2> QED
    BY <1>1, <1>5, <1>6, <1>7, <2>1
<1>9. r = e
  BY <1>5, <1>6, <1>8, SameRecords
<1> QED
  BY <1>9 DEF r, e, f, g

Replace(g, i, d) == [g EXCEPT ![i] = d]

\* One record changes, the links do not.
LEMMA EditRecs ==
  ASSUME NEW N \in [Chunk -> Node], NEW M \in [Chunk -> Node],
         NEW c \in Seq(Chunk), Distinct(c), NEW i \in 1..Len(c), SameBut(M, N, c[i], c[i])
  PROVE  Recs(M, c) = Replace(Recs(N, c), i, Rec(M, c[i]))
<1> DEFINE g == Recs(N, c)
           d == Rec(M, c[i])
           r == Recs(M, c)
           e == [g EXCEPT ![i] = d]
<1>1. g \in Seq(Gap) /\ Len(g) = Len(c) /\ \A k \in 1..Len(c) : g[k] = Rec(N, c[k])
  BY RecsElements
<1>2. r \in Seq(Gap) /\ Len(r) = Len(c) /\ \A k \in 1..Len(c) : r[k] = Rec(M, c[k])
  BY RecsElements
<1>3. c[i] \in Chunk /\ d \in Gap
  BY RecFields
<1> HIDE DEF g, r
<1>4. ASSUME NEW k \in 1..Len(c), k # i PROVE r[k] = g[k]
  <2>1. c[k] \in Chunk /\ c[k] # c[i]
    BY <1>4 DEF Distinct
  <2>2. Rec(M, c[k]) = Rec(N, c[k])
    BY <2>1 DEF SameBut
  <2> QED
    BY <1>1, <1>2, <2>2
<1>5. r[i] = d
  BY <1>2
<1> HIDE DEF d
<1>6. /\ e \in Seq(Gap) /\ Len(e) = Len(c)
      /\ \A k \in 1..Len(c) : e[k] = IF k = i THEN d ELSE g[k]
  BY <1>1, <1>3
<1> HIDE DEF e
<1>7. r = e
  BY <1>2, <1>4, <1>5, <1>6, SameRecords
<1> QED
  BY <1>7 DEF Replace, r, e, g, d

-----------------------------------------------------------------------------
(* A list and its pool.                                                     *)

Heap == [node : [Chunk -> Node], free : Seq(Chunk), head : Ptr, tail : Ptr,
         count : Int, ok : BOOLEAN]

\* Every chunk is in the list or free, once.
Pool(f, c) ==
  /\ f \in Seq(Chunk) /\ Distinct(f)
  /\ ToSet(c) \cap ToSet(f) = {}
  /\ ToSet(c) \cup ToSet(f) = Chunk
  /\ Len(c) + Len(f) = GapMax

\* List L is linked, its chunks are c, and c and its pool share the chunks.
IsList(L, c) ==
  /\ L \in Heap /\ L.ok = TRUE
  /\ Linked(L.node, L.head, L.tail, c)
  /\ Pool(L.free, c)
  /\ L.count = Len(c)

\* K is L with its links changed so that its chunks are c.
Relinked(K, L, c) ==
  /\ K \in Heap
  /\ K.free = L.free /\ K.count = L.count /\ K.ok = L.ok
  /\ Linked(K.node, K.head, K.tail, c)

\* The ends of a linked list.
LEMMA LinkedEnds ==
  ASSUME NEW N, NEW hd, NEW tl, NEW c, Linked(N, hd, tl, c)
  PROVE  /\ c \in Seq(Chunk) /\ Distinct(c) /\ N \in [Chunk -> Node] /\ Len(c) \in Nat
         /\ \A i \in 1..Len(c) : c[i] \in Chunk /\ c[i] # NULL
         /\ tl = NULL <=> Len(c) = 0
         /\ hd = NULL <=> Len(c) = 0
         /\ Len(c) > 0 => hd = c[1] /\ tl = c[Len(c)] /\ hd \in Chunk /\ tl \in Chunk
<1>1. /\ c \in Seq(Chunk) /\ Distinct(c) /\ N \in [Chunk -> Node] /\ Len(c) \in Nat
      /\ hd = IF Len(c) = 0 THEN NULL ELSE c[1]
      /\ tl = IF Len(c) = 0 THEN NULL ELSE c[Len(c)]
  BY DEF Linked
<1>2. \A i \in 1..Len(c) : c[i] \in Chunk
  BY <1>1
<1>3. \A x \in Chunk : x # NULL
  BY GapAssumption DEF Chunk, NULL
<1> QED
  BY <1>1, <1>2, <1>3

\* Linking a chunk of no list after the tail.
LEMMA LinkLastLinks ==
  ASSUME NEW L \in Heap, NEW c, Linked(L.node, L.head, L.tail, c),
         NEW h \in Chunk, h \notin ToSet(c), NEW gap \in Gap
  PROVE  /\ Relinked(LinkLast(L, h, gap), L, Insert(c, Len(c), h))
         /\ Recs(LinkLast(L, h, gap).node, Insert(c, Len(c), h)) = Append(Recs(L.node, c), gap)
<1> DEFINE N == L.node
           tl == L.tail
           r == [seq_no |-> gap.seq_no, size |-> gap.size, timestamp |-> gap.timestamp,
                 next |-> NULL, prev |-> tl]
           F == [N EXCEPT ![h] = r]
           K == LinkLast(L, h, gap)
           M == IF tl = NULL THEN F ELSE [F EXCEPT ![tl].next = h]
           f == Insert(c, Len(c), h)
<1>0. /\ c \in Seq(Chunk) /\ Distinct(c) /\ N \in [Chunk -> Node] /\ Len(c) \in Nat
      /\ tl = NULL <=> Len(c) = 0
      /\ L.head = NULL <=> Len(c) = 0
      /\ Len(c) > 0 => tl = c[Len(c)] /\ tl \in Chunk /\ L.head = c[1]
  BY LinkedEnds
<1>1. tl \in Ptr /\ NULL \in Ptr /\ h \in Ptr
  BY DEF Heap, Ptr
<1>2. r \in Node /\ gap.seq_no \in Nat /\ gap.size \in Nat /\ gap.timestamp \in Nat
  BY <1>1 DEF Gap, Node
<1>3. tl # NULL => tl \in Chunk /\ tl # h
  BY <1>0 DEF ToSet
<1>4. F \in [Chunk -> Node] /\ F[h] = r /\ \A x \in Chunk : x # h => F[x] = N[x]
  BY <1>0, <1>2
<1> HIDE DEF F, N, r
<1>5. M \in [Chunk -> Node]
  <2>1. ASSUME NEW x \in Chunk PROVE [F[x] EXCEPT !.next = h] \in Node
    BY <1>1, <1>4 DEF Node
  <2> QED
    BY <1>3, <1>4, <2>1
<1>6. /\ M[h] = r
      /\ \A x \in Chunk : x # h /\ x # tl => M[x] = N[x]
      /\ tl # NULL => M[tl] = [N[tl] EXCEPT !.next = h]
  BY <1>3, <1>4
<1>7. /\ K \in Heap /\ K.node = M /\ K.tail = h
      /\ K.head = IF tl = NULL THEN h ELSE L.head
      /\ K.free = L.free /\ K.count = L.count /\ K.ok = L.ok
  <2>1. CASE tl = NULL
    <3>1. K = [[L EXCEPT !.node = F] EXCEPT !.head = h, !.tail = h]
      BY <2>1 DEF LinkLast, F, r, N
    <3> QED
      BY <1>1, <1>4, <2>1, <3>1 DEF Heap
  <2>2. CASE tl # NULL
    <3>1. K = [[[L EXCEPT !.node = F] EXCEPT !.node = M] EXCEPT !.tail = h]
      <4>1. K = [SetNext([L EXCEPT !.node = F], tl, h) EXCEPT !.tail = h]
        BY <2>2 DEF LinkLast, F, r, N
      <4>2. SetNext([L EXCEPT !.node = F], tl, h) = [[L EXCEPT !.node = F] EXCEPT !.node = M]
        BY <2>2 DEF SetNext, Heap
      <4> QED
        BY <4>1, <4>2
    <3> HIDE DEF M, K
    <3> QED
      BY <1>1, <1>5, <2>2, <3>1 DEF Heap
  <2> QED
    BY <2>1, <2>2
<1> HIDE DEF K, M, tl
<1>8. LinkedIn(M, N, c, Len(c), h)
  <2>1. M[h].next = NULL /\ M[h].prev = tl
    BY <1>6 DEF r
  <2>2. tl # NULL => M[tl].next = h /\ M[tl].prev = N[tl].prev
    <3>1. tl # NULL => N[tl] \in Node
      BY <1>0, <1>3
    <3> QED
      BY <1>6, <3>1 DEF Node
  <2> QED
    <3>1. Len(c) > 0 => M[h].prev = c[Len(c)] /\ M[c[Len(c)]].next = h
      BY <1>0, <2>1, <2>2
    <3>2. ASSUME NEW x \in Chunk, x # h PROVE M[x].prev = N[x].prev
      <4>1. x # NULL
        BY GapAssumption DEF Chunk, NULL
      <4> QED
        BY <1>6, <2>2, <3>2, <4>1
    <3>3. ASSUME NEW x \in Chunk, x # h, Len(c) > 0 => x # c[Len(c)]
          PROVE  M[x].next = N[x].next
      <4>1. x # NULL
        BY GapAssumption DEF Chunk, NULL
      <4>2. x # tl
        BY <1>0, <3>3, <4>1
      <4> QED
        BY <1>6, <3>3, <4>2
    <3>4. ~(Len(c) < Len(c))
      BY <1>0
    <3> QED
      BY <1>5, <2>1, <3>1, <3>2, <3>3, <3>4, Zenon DEF LinkedIn
<1>9. Linked(M, IF tl = NULL THEN h ELSE L.head, h, f)
  <2> DEFINE i == Len(c)
  <2>1. i \in 0..Len(c) /\ (i = 0 => Len(c) = 0) /\ LinkedIn(M, N, c, i, h)
    BY <1>0, <1>8
  <2>2. Linked(N, L.head, tl, c)
    BY DEF N, tl
  <2> HIDE DEF i
  <2>3. Linked(M, IF i = 0 THEN h ELSE L.head, IF i = Len(c) THEN h ELSE tl, Insert(c, i, h))
    BY <2>1, <2>2, InsertLinked
  <2> QED
    BY <1>0, <2>3 DEF i
<1>10. Relinked(K, L, f)
  BY <1>7, <1>9 DEF Relinked
<1>11. Rec(M, h) = gap
  <2>1. r.seq_no = gap.seq_no /\ r.size = gap.size /\ r.timestamp = gap.timestamp
    BY DEF r
  <2>2. gap = [seq_no |-> gap.seq_no, size |-> gap.size, timestamp |-> gap.timestamp]
    BY DEF Gap
  <2> QED
    BY <1>6, <2>1, <2>2 DEF Rec, NewGap
<1>12. SameBut(M, N, h, h)
  <2> SUFFICES ASSUME NEW x \in Chunk, x # h PROVE Rec(M, x) = Rec(N, x)
    BY DEF SameBut
  <2>1. CASE x = tl
    <3>1. x # NULL /\ N[x] \in Node
      BY <1>0, GapAssumption DEF Chunk, NULL
    <3>2. M[x] = [N[x] EXCEPT !.next = h]
      BY <1>6, <2>1, <3>1
    <3> QED
      BY <3>1, <3>2 DEF Rec, Node
  <2>2. CASE x # tl
    BY <1>6, <2>2 DEF Rec
  <2> QED
    BY <2>1, <2>2
<1>13. Recs(M, f) = Append(Recs(N, c), gap)
  BY <1>0, <1>5, <1>11, <1>12, AppendRecs
<1> QED
  BY <1>7, <1>10, <1>13 DEF K, N

\* Cutting the i-th record at s and linking its upper half, in a chunk of no
\* list, after it.
LEMMA SplitIntoLinks ==
  ASSUME NEW L \in Heap, NEW c, Linked(L.node, L.head, L.tail, c),
         NEW i \in 1..Len(c), NEW h \in Chunk, h \notin ToSet(c),
         NEW s \in Nat, NEW t \in Nat, InMiddle(Rec(L.node, c[i]), s)
  PROVE  /\ Relinked(SplitInto(L, c[i], h, s, t), L, Insert(c, i, h))
         /\ Recs(SplitInto(L, c[i], h, s, t).node, Insert(c, i, h)) =
              SplitRecord(Recs(L.node, c), i, Below(Rec(L.node, c[i]), s),
                          Above(Rec(L.node, c[i]), s, t))
<1> DEFINE N == L.node
           x == c[i]
           q == Rec(N, x)
           a == N[x]
           up == Above(a, s, t)
           r == [seq_no |-> up.seq_no, size |-> up.size, timestamp |-> t,
                 next |-> a.next, prev |-> x]
           b == [a EXCEPT !.size = @ - (up.size + 1), !.next = h]
           F == [N EXCEPT ![h] = r, ![x] = b]
           y == a.next
           M == IF x = L.tail THEN F ELSE [F EXCEPT ![y].prev = h]
           K == SplitInto(L, x, h, s, t)
           f == Insert(c, i, h)
<1>0. /\ c \in Seq(Chunk) /\ Distinct(c) /\ N \in [Chunk -> Node] /\ Len(c) \in Nat
      /\ \A k \in 1..Len(c) : c[k] \in Chunk /\ c[k] # NULL /\ c[k] # h
      /\ L.tail = c[Len(c)] /\ L.head = c[1]
  <2>1. \A k \in 1..Len(c) : c[k] # h
    BY LinkedEnds DEF ToSet
  <2>2. Len(c) > 0
    BY LinkedEnds
  <2> QED
    BY <2>1, <2>2, LinkedEnds
<1>1. /\ x \in Chunk /\ x # h /\ x \in Ptr /\ h \in Ptr /\ a \in Node
      /\ a.seq_no \in Nat /\ a.size \in Nat /\ a.timestamp \in Nat
      /\ a.next \in Ptr /\ a.prev \in Ptr
      /\ a = [seq_no |-> a.seq_no, size |-> a.size, timestamp |-> a.timestamp,
              next |-> a.next, prev |-> a.prev]
  <2>1. x \in Chunk /\ x # h
    BY <1>0
  <2>2. a \in Node /\ x \in Ptr /\ h \in Ptr
    BY <1>0, <2>1 DEF Ptr
  <2> QED
    BY <2>1, <2>2 DEF Node
<1>2. q \in Gap /\ q.seq_no = a.seq_no /\ q.size = a.size /\ q.timestamp = a.timestamp
  BY <1>0, <1>1, RecFields
<1>3. a.seq_no < s /\ s < a.seq_no + a.size - 1
  BY <1>2 DEF InMiddle
<1>4. /\ up = Above(q, s, t)
      /\ up.seq_no = s + 1 /\ up.size = a.size - (s - a.seq_no) - 1
      /\ up.seq_no \in Nat /\ up.size \in Nat /\ a.size - (up.size + 1) = s - a.seq_no
      /\ s - a.seq_no \in Nat
      /\ up = [seq_no |-> up.seq_no, size |-> up.size, timestamp |-> t]
  <2> DEFINE m == a.size - (s - a.seq_no) - 1
  <2> HIDE DEF a, q
  <2>1. Above(a, s, t) = [seq_no |-> s + 1, size |-> m, timestamp |-> t]
    BY DEF Above, NewGap
  <2>2. Above(q, s, t) = [seq_no |-> s + 1, size |-> m, timestamp |-> t]
    BY <1>2 DEF Above, NewGap
  <2>3. m \in Nat /\ a.size - (m + 1) = s - a.seq_no /\ s - a.seq_no \in Nat /\ s + 1 \in Nat
    <3> DEFINE u == a.seq_no
               v == a.size
    <3>1. u \in Nat /\ v \in Nat /\ u < s /\ s < u + v - 1
      BY <1>1, <1>3
    <3> HIDE DEF u, v
    <3>2. /\ v - (s - u) - 1 \in Nat /\ v - ((v - (s - u) - 1) + 1) = s - u
          /\ s - u \in Nat /\ s + 1 \in Nat
      BY <3>1
    <3> QED
      BY <3>2 DEF u, v
  <2>4. up = [seq_no |-> s + 1, size |-> m, timestamp |-> t]
    BY <2>1
  <2> HIDE DEF up, m
  <2>5. up.seq_no = s + 1 /\ up.size = m
    BY <2>4
  <2> QED
    BY <2>2, <2>3, <2>4, <2>5 DEF m
<1> HIDE DEF N, x, a, up
<1>5. /\ r \in Node /\ b \in Node
      /\ b.seq_no = a.seq_no /\ b.size = s - a.seq_no /\ b.timestamp = a.timestamp
      /\ b.next = h /\ b.prev = a.prev
  BY <1>1, <1>4 DEF Node
<1>6. /\ F \in [Chunk -> Node] /\ F[h] = r /\ F[x] = b
      /\ \A z \in Chunk : z # h /\ z # x => F[z] = N[z]
  <2> HIDE DEF r, b
  <2> QED
    BY <1>0, <1>1, <1>5
<1>7. y = IF i = Len(c) THEN NULL ELSE c[i + 1]
  BY DEF Linked, N, x, a
<1>8. /\ x = L.tail <=> i = Len(c)
      /\ i # Len(c) => y = c[i + 1] /\ i + 1 \in 1..Len(c) /\ y \in Chunk /\ y # h /\ y # x /\ y # NULL
      /\ i = Len(c) => y = NULL
  <2>1. i # Len(c) => i + 1 \in 1..Len(c)
    BY <1>0
  <2>2. i # Len(c) => c[i + 1] # c[i] /\ c[i] # c[Len(c)]
    BY <1>0, <2>1 DEF Distinct
  <2> QED
    BY <1>0, <1>7, <2>1, <2>2 DEF x
<1> HIDE DEF F, r, b, y
<1>9. /\ M \in [Chunk -> Node]
      /\ M[h] = r /\ M[x] = b
      /\ \A z \in Chunk : z # h /\ z # x /\ z # y => M[z] = N[z]
      /\ i # Len(c) => M[y] = [N[y] EXCEPT !.prev = h] /\ N[y] \in Node
  <2>1. ASSUME NEW z \in Chunk PROVE [F[z] EXCEPT !.prev = h] \in Node
    BY <1>1, <1>6 DEF Node
  <2> QED
    BY <1>0, <1>1, <1>6, <1>8, <2>1
<1>10. /\ K \in Heap /\ K.node = M /\ K.head = L.head
       /\ K.tail = IF i = Len(c) THEN h ELSE L.tail
       /\ K.free = L.free /\ K.count = L.count /\ K.ok = L.ok
  <2> DEFINE body == [L EXCEPT !.node[h] = r, !.node[x] = b]
  <2>0. body = [L EXCEPT !.node = F]
    BY DEF F, N, Heap
  <2>1. K = IF x = L.tail THEN [body EXCEPT !.tail = h] ELSE SetPrev(body, y, h)
    BY DEF SplitInto, r, b, up, a, x, N, y
  <2> HIDE DEF body
  <2>2. CASE i = Len(c)
    <3>1. K = [[L EXCEPT !.node = F] EXCEPT !.tail = h] /\ M = F
      BY <1>8, <2>0, <2>1, <2>2
    <3> HIDE DEF M, K
    <3> QED
      BY <1>1, <1>9, <2>2, <3>1 DEF Heap
  <2>3. CASE i # Len(c)
    <3>1. SetPrev(body, y, h) = [body EXCEPT !.node[y].prev = h]
      BY <1>8, <2>3 DEF SetPrev
    <3>2. [body EXCEPT !.node[y].prev = h] = [[L EXCEPT !.node = F] EXCEPT !.node = M]
      BY <1>8, <2>0, <2>3 DEF Heap
    <3>3. K = [[L EXCEPT !.node = F] EXCEPT !.node = M]
      BY <1>8, <2>1, <2>3, <3>1, <3>2
    <3> HIDE DEF M, K
    <3> QED
      BY <1>1, <1>9, <2>3, <3>3 DEF Heap
  <2> QED
    BY <2>2, <2>3
<1> HIDE DEF K, M
<1>11. LinkedIn(M, N, c, i, h)
  <2>1. M[h].next = IF i = Len(c) THEN NULL ELSE c[i + 1]
    <3>1. r.next = y
      BY DEF r, y
    <3> QED
      BY <1>7, <1>9, <3>1
  <2>2. i > 0 => M[h].prev = c[i] /\ M[c[i]].next = h
    <3>1. r.prev = x
      BY DEF r
    <3> QED
      BY <1>5, <1>9, <3>1 DEF x
  <2>3. i < Len(c) => M[c[i + 1]].prev = h
    <3>1. i < Len(c) => i # Len(c)
      BY <1>0
    <3>2. i # Len(c) => M[y].prev = h
      BY <1>9 DEF Node
    <3> QED
      BY <1>8, <3>1, <3>2
  <2>4. ASSUME NEW z \in Chunk, z # h, i > 0 => z # c[i] PROVE M[z].next = N[z].next
    <3>1. z # x
      BY <1>0, <2>4 DEF x
    <3>2. CASE z = y
      <4>1. i # Len(c)
        BY <1>8, <3>2, GapAssumption DEF Chunk, NULL
      <4> QED
        BY <1>9, <3>2, <4>1 DEF Node
    <3> QED
      BY <1>9, <2>4, <3>1, <3>2
  <2>5. ASSUME NEW z \in Chunk, z # h, i < Len(c) => z # c[i + 1] PROVE M[z].prev = N[z].prev
    <3>1. z # y
      <4>1. i # Len(c) => i < Len(c)
        BY <1>0
      <4> QED
        BY <1>8, <2>5, <4>1, GapAssumption DEF Chunk, NULL
    <3>2. CASE z = x
      BY <1>5, <1>9, <3>2 DEF a
    <3> QED
      BY <1>9, <2>5, <3>1, <3>2
  <2> QED
    BY <1>9, <2>1, <2>2, <2>3, <2>4, <2>5, Zenon DEF LinkedIn
<1>12. Relinked(K, L, f)
  <2>1. Linked(N, L.head, L.tail, c) /\ i \in 0..Len(c) /\ i # 0
    BY <1>0 DEF N
  <2>2. Linked(M, IF i = 0 THEN h ELSE L.head, IF i = Len(c) THEN h ELSE L.tail, f)
    BY <1>11, <2>1, InsertLinked
  <2>3. Linked(M, L.head, IF i = Len(c) THEN h ELSE L.tail, f)
    BY <2>1, <2>2
  <2> HIDE DEF f
  <2> QED
    BY <1>10, <2>3 DEF Relinked
<1>13. Rec(M, x) = Below(q, s) /\ Rec(M, h) = Above(q, s, t)
  <2>1. Below(q, s) = [seq_no |-> a.seq_no, size |-> s - a.seq_no, timestamp |-> a.timestamp]
    <3> HIDE DEF q
    <3>1. q = [seq_no |-> q.seq_no, size |-> q.size, timestamp |-> q.timestamp]
      BY <1>2 DEF Gap
    <3>2. Below(q, s) = [q EXCEPT !.size = s - q.seq_no]
      BY DEF Below
    <3>3. Below(q, s) = [seq_no |-> q.seq_no, size |-> s - q.seq_no, timestamp |-> q.timestamp]
      BY <3>1, <3>2
    <3> QED
      BY <1>2, <3>3
  <2>2. Rec(M, x) = NewGap(a.seq_no, s - a.seq_no, a.timestamp)
    BY <1>5, <1>9 DEF Rec
  <2>3. Rec(M, h) = NewGap(up.seq_no, up.size, t)
    BY <1>9 DEF Rec, r
  <2> QED
    BY <1>4, <2>1, <2>2, <2>3 DEF NewGap
<1>14. SameBut(M, N, c[i], h)
  <2> SUFFICES ASSUME NEW z \in Chunk, z # x, z # h PROVE Rec(M, z) = Rec(N, z)
    BY DEF SameBut, x
  <2>1. CASE z = y
    <3>1. i # Len(c)
      BY <1>8, <2>1, GapAssumption DEF Chunk, NULL
    <3> QED
      BY <1>9, <2>1, <3>1 DEF Rec, Node
  <2>2. CASE z # y
    BY <1>9, <2>2 DEF Rec
  <2> QED
    BY <2>1, <2>2
<1>15. Recs(M, f) = SplitRecord(Recs(N, c), i, Rec(M, c[i]), Rec(M, h))
  BY <1>0, <1>9, <1>14, InsertRecs
<1> QED
  BY <1>10, <1>12, <1>13, <1>15 DEF K, N, x

\* The nodes M are the nodes N; only the prev of one of the first k + 1 chunks
\* of c may differ.
HeadsFreed(M, N, c, k) ==
  /\ M \in [Chunk -> Node]
  /\ \A z \in Chunk : M[z].next = N[z].next
  /\ \A j \in (k + 2)..Len(c) : M[c[j]].prev = N[c[j]].prev

\* A list loses its first k chunks.
LEMMA DropLinked ==
  ASSUME NEW N, NEW hd, NEW tl, NEW c, Linked(N, hd, tl, c),
         NEW k \in 0..Len(c), NEW M, HeadsFreed(M, N, c, k)
  PROVE  Linked(M, IF k = Len(c) THEN NULL ELSE c[k + 1],
                IF k = Len(c) THEN NULL ELSE tl, DropPrefix(c, k))
<1> DEFINE f == DropPrefix(c, k)
           n == Len(c) - k
<1>0. /\ c \in Seq(Chunk) /\ Distinct(c) /\ Len(c) \in Nat
      /\ \A j \in 1..Len(c) : c[j] \in Chunk
  BY LinkedEnds
<1>1. f \in Seq(Chunk) /\ Len(f) = n /\ Distinct(f) /\ \A j \in 1..n : f[j] = c[k + j]
  BY <1>0, DropElements
<1>2. n \in Nat /\ Len(c) \in Nat /\ k \in Nat /\ k <= Len(c) /\ (n = 0 <=> k = Len(c))
  BY <1>0
<1> HIDE DEF f
<1>3. ASSUME NEW j \in 1..n PROVE M[f[j]].next = IF j = n THEN NULL ELSE f[j + 1]
  <2>1. k + j \in 1..Len(c) /\ (j = n <=> k + j = Len(c)) /\ (k + j) + 1 = k + (j + 1)
    BY <1>2
  <2>2. j # n => j + 1 \in 1..n
    BY <1>2
  <2>3. M[c[k + j]].next = N[c[k + j]].next
    BY <1>0, <2>1 DEF HeadsFreed
  <2>4. N[c[k + j]].next = IF k + j = Len(c) THEN NULL ELSE c[(k + j) + 1]
    BY <2>1 DEF Linked
  <2> QED
    BY <1>1, <2>1, <2>2, <2>3, <2>4
<1>4. ASSUME NEW j \in 2..n PROVE M[f[j]].prev = f[j - 1]
  <2>1. /\ j \in 1..n /\ j - 1 \in 1..n /\ k + j \in (k + 2)..Len(c) /\ k + j \in 2..Len(c)
        /\ (k + j) - 1 = k + (j - 1)
    BY <1>2
  <2>2. M[c[k + j]].prev = N[c[k + j]].prev
    BY <2>1 DEF HeadsFreed
  <2>3. N[c[k + j]].prev = c[(k + j) - 1]
    BY <2>1 DEF Linked
  <2> QED
    BY <1>1, <2>1, <2>2, <2>3
<1> DEFINE hd2 == IF k = Len(c) THEN NULL ELSE c[k + 1]
           tl2 == IF k = Len(c) THEN NULL ELSE tl
<1>5. hd2 = IF n = 0 THEN NULL ELSE f[1]
  <2>1. n # 0 => 1 \in 1..n
    BY <1>2
  <2> QED
    BY <1>1, <1>2, <2>1
<1>6. tl2 = IF n = 0 THEN NULL ELSE f[n]
  <2>1. n # 0 => n \in 1..n /\ k + n = Len(c) /\ Len(c) # 0
    BY <1>2
  <2>2. tl = IF Len(c) = 0 THEN NULL ELSE c[Len(c)]
    BY DEF Linked
  <2> QED
    BY <1>1, <1>2, <2>1, <2>2
<1>7. M \in [Chunk -> Node]
  BY DEF HeadsFreed
<1> HIDE DEF n, hd2, tl2
<1>8. Linked(M, hd2, tl2, f)
  BY <1>1, <1>2, <1>3, <1>4, <1>5, <1>6, <1>7 DEF Linked
<1> QED
  BY <1>8 DEF f, hd2, tl2

\* x->next = p, or x->prev = p, changes nothing else.
SetNextOf(M, N, x, p) == M = [N EXCEPT ![x].next = p]

OnlyNext(M, N, x, p) ==
  /\ M \in [Chunk -> Node]
  /\ M[x].next = p
  /\ \A z \in Chunk : z # x => M[z].next = N[z].next
  /\ \A z \in Chunk : M[z].prev = N[z].prev
  /\ \A z \in Chunk : Rec(M, z) = Rec(N, z)

\* A store to one next pointer changes nothing else.
LEMMA NextOnly ==
  ASSUME NEW N \in [Chunk -> Node], NEW x \in Chunk, NEW p \in Ptr,
         NEW M, SetNextOf(M, N, x, p)
  PROVE  OnlyNext(M, N, x, p)
<1> DEFINE r == [N[x] EXCEPT !.next = p]
<1>0. N[x] \in Node
  OBVIOUS
<1>1. /\ r \in Node /\ r.next = p /\ r.prev = N[x].prev
      /\ r.seq_no = N[x].seq_no /\ r.size = N[x].size /\ r.timestamp = N[x].timestamp
  BY <1>0 DEF Node
<1> HIDE DEF r
<1>2. M = [N EXCEPT ![x] = r]
  BY DEF r, SetNextOf
<1>3. M \in [Chunk -> Node] /\ M[x] = r /\ \A z \in Chunk : z # x => M[z] = N[z]
  BY <1>1, <1>2
<1>4. \A z \in Chunk : M[z].prev = N[z].prev
  BY <1>1, <1>3
<1>5. \A z \in Chunk : Rec(M, z) = Rec(N, z)
  BY <1>1, <1>3 DEF Rec
<1>6. M[x].next = p /\ \A z \in Chunk : z # x => M[z].next = N[z].next
  BY <1>1, <1>3
<1> QED
  BY <1>3, <1>4, <1>5, <1>6 DEF OnlyNext

SetPrevOf(M, N, x, p) == M = [N EXCEPT ![x].prev = p]

OnlyPrev(M, N, x, p) ==
  /\ M \in [Chunk -> Node]
  /\ M[x].prev = p
  /\ \A z \in Chunk : z # x => M[z].prev = N[z].prev
  /\ \A z \in Chunk : M[z].next = N[z].next
  /\ \A z \in Chunk : Rec(M, z) = Rec(N, z)

\* A store to one prev pointer changes nothing else.
LEMMA PrevOnly ==
  ASSUME NEW N \in [Chunk -> Node], NEW x \in Chunk, NEW p \in Ptr,
         NEW M, SetPrevOf(M, N, x, p)
  PROVE  OnlyPrev(M, N, x, p)
<1> DEFINE r == [N[x] EXCEPT !.prev = p]
<1>0. N[x] \in Node
  OBVIOUS
<1>1. /\ r \in Node /\ r.prev = p /\ r.next = N[x].next
      /\ r.seq_no = N[x].seq_no /\ r.size = N[x].size /\ r.timestamp = N[x].timestamp
  BY <1>0 DEF Node
<1> HIDE DEF r
<1>2. M = [N EXCEPT ![x] = r]
  BY DEF r, SetPrevOf
<1>3. M \in [Chunk -> Node] /\ M[x] = r /\ \A z \in Chunk : z # x => M[z] = N[z]
  BY <1>1, <1>2
<1>4. \A z \in Chunk : M[z].next = N[z].next
  BY <1>1, <1>3
<1>5. \A z \in Chunk : Rec(M, z) = Rec(N, z)
  BY <1>1, <1>3 DEF Rec
<1>6. M[x].prev = p /\ \A z \in Chunk : z # x => M[z].prev = N[z].prev
  BY <1>1, <1>3
<1> QED
  BY <1>3, <1>4, <1>5, <1>6 DEF OnlyPrev

\* Popping the head of a list of two or more, for push and for a split on a
\* full list; the new head's prev is p.
LEMMA PopLinks ==
  ASSUME NEW L \in Heap, NEW c, Linked(L.node, L.head, L.tail, c), Len(c) >= 2,
         NEW K \in Heap, NEW M, K.node = M, K.head = c[2], K.tail = L.tail,
         K.free = L.free, K.count = L.count, K.ok = L.ok,
         \/ M = L.node
         \/ SetPrevOf(M, L.node, c[2], NULL)
  PROVE  /\ Relinked(K, L, DropPrefix(c, 1))
         /\ Recs(K.node, DropPrefix(c, 1)) = DropPrefix(Recs(L.node, c), 1)
         /\ \A z \in Chunk : Rec(K.node, z) = Rec(L.node, z)
<1> DEFINE N == L.node
<1>0. /\ c \in Seq(Chunk) /\ Distinct(c) /\ N \in [Chunk -> Node] /\ Len(c) \in Nat
      /\ \A k \in 1..Len(c) : c[k] \in Chunk /\ c[k] # NULL
  BY LinkedEnds
<1>1. c[2] \in Chunk /\ NULL \in Ptr /\ \A j \in 3..Len(c) : c[j] \in Chunk /\ c[j] # c[2]
  <2>1. 2 \in 1..Len(c) /\ \A j \in 3..Len(c) : j \in 1..Len(c) /\ j # 2
    BY <1>0
  <2> QED
    BY <1>0, <2>1 DEF Distinct, Ptr
<1>2. /\ M \in [Chunk -> Node]
      /\ \A z \in Chunk : M[z].next = N[z].next
      /\ \A z \in Chunk : z # c[2] => M[z].prev = N[z].prev
      /\ \A z \in Chunk : Rec(M, z) = Rec(N, z)
  <2>1. CASE M = N
    BY <1>0, <2>1 DEF Rec
  <2>2. CASE SetPrevOf(M, N, c[2], NULL)
    <3> DEFINE x == c[2]
               p == NULL
    <3>1. N \in [Chunk -> Node] /\ x \in Chunk /\ p \in Ptr
      BY <1>0, <1>1
    <3> HIDE DEF N, x, p
    <3>2. SetPrevOf(M, N, x, p)
      BY <2>2 DEF N, x, p
    <3>3. OnlyPrev(M, N, x, p)
      BY <3>1, <3>2, PrevOnly
    <3> QED
      BY <3>3 DEF OnlyPrev, x
  <2> QED
    BY <2>1, <2>2
<1>3. HeadsFreed(M, N, c, 1)
  <2>1. \A j \in 3..Len(c) : M[c[j]].prev = N[c[j]].prev
    BY <1>1, <1>2
  <2>2. 1 + 2 = 3
    OBVIOUS
  <2> HIDE DEF N
  <2> QED
    BY <1>2, <2>1, <2>2, Zenon DEF HeadsFreed
<1>4. Linked(M, c[2], L.tail, DropPrefix(c, 1))
  <2>1. 1 \in 0..Len(c) /\ 1 # Len(c) /\ 1 + 1 = 2
    BY <1>0
  <2>2. Linked(N, L.head, L.tail, c)
    OBVIOUS
  <2>3. Linked(M, IF 1 = Len(c) THEN NULL ELSE c[1 + 1],
               IF 1 = Len(c) THEN NULL ELSE L.tail, DropPrefix(c, 1))
    BY <1>3, <2>1, <2>2, DropLinked
  <2> QED
    BY <2>1, <2>3
<1>5. SameBut(M, N, NULL, NULL)
  BY <1>2 DEF SameBut
<1>6. Recs(M, DropPrefix(c, 1)) = DropPrefix(Recs(N, c), 1)
  <2>1. 1 \in 0..Len(c)
    BY <1>0
  <2> QED
    BY <1>0, <1>2, <1>5, <2>1, DropRecs
<1>7. Relinked(K, L, DropPrefix(c, 1))
  BY <1>4 DEF Relinked
<1> QED
  BY <1>2, <1>6, <1>7

\* The i-th record leaves the list; its chunk goes to the pool.
LEMMA UnlinkLinks ==
  ASSUME NEW L \in Heap, NEW c, Linked(L.node, L.head, L.tail, c), NEW i \in 1..Len(c)
  PROVE  LET K == Unlink(L, c[i]) IN
         /\ K \in Heap /\ K.ok = L.ok /\ K.count = L.count - 1 /\ K.free = <<c[i]>> \o L.free
         /\ Linked(K.node, K.head, K.tail, RemoveRecord(c, i))
         /\ Recs(K.node, RemoveRecord(c, i)) = RemoveRecord(Recs(L.node, c), i)
<1> DEFINE N == L.node
           x == c[i]
           nx == N[x].next
           pv == N[x].prev
           f == RemoveRecord(c, i)
           K == Unlink(L, x)
           out ==
             IF L.head = L.tail THEN [L EXCEPT !.head = NULL, !.tail = NULL]
             ELSE IF x = L.head THEN SetPrev([L EXCEPT !.head = nx], nx, NULL)
             ELSE IF x = L.tail THEN SetNext([L EXCEPT !.tail = pv], pv, NULL)
             ELSE SetPrev(SetNext(L, pv, nx), nx, pv)
<1>0. /\ c \in Seq(Chunk) /\ Distinct(c) /\ N \in [Chunk -> Node] /\ Len(c) \in Nat
      /\ \A k \in 1..Len(c) : c[k] \in Chunk /\ c[k] # NULL /\ c[k] \in Ptr
      /\ L.tail = c[Len(c)] /\ L.head = c[1] /\ NULL \in Ptr
  <2>1. Len(c) > 0
    BY LinkedEnds
  <2> QED
    BY <2>1, LinkedEnds DEF Ptr
<1>1. /\ i < Len(c) => nx = c[i + 1] /\ i + 1 \in 1..Len(c)
      /\ i > 1 => pv = c[i - 1] /\ i - 1 \in 1..Len(c)
      /\ i = Len(c) => nx = NULL
  <2>1. i < Len(c) => i + 1 \in 1..Len(c) /\ i # Len(c)
    BY <1>0
  <2>2. i > 1 => i - 1 \in 1..Len(c) /\ i \in 2..Len(c)
    BY <1>0
  <2> QED
    BY <2>1, <2>2 DEF Linked
<1>2. /\ L.head = L.tail <=> Len(c) = 1
      /\ x = L.head <=> i = 1
      /\ x = L.tail <=> i = Len(c)
  <2>1. 1 \in 1..Len(c) /\ Len(c) \in 1..Len(c)
    BY <1>0
  <2> QED
    BY <1>0, <2>1 DEF Distinct
<1>3. x \in Chunk /\ x \in Ptr
  BY <1>0
<1>4. K = PoolPut([out EXCEPT !.count = @ - 1], x)
  BY DEF Unlink
<1> DEFINE Good(M, hd, tl) ==
             /\ LinkedOut(M, N, c, i)
             /\ \A z \in Chunk : Rec(M, z) = Rec(N, z)
             /\ out \in Heap /\ out.node = M /\ out.head = hd /\ out.tail = tl
             /\ out.free = L.free /\ out.count = L.count /\ out.ok = L.ok
           hd2 == IF Len(c) = 1 THEN NULL ELSE IF i = 1 THEN c[2] ELSE L.head
           tl2 == IF Len(c) = 1 THEN NULL ELSE IF i = Len(c) THEN c[Len(c) - 1] ELSE L.tail
<1>5. \E M : Good(M, hd2, tl2)
  <2>1. CASE Len(c) = 1
    <3>1. LinkedOut(N, N, c, i)
      BY <1>0, <2>1 DEF LinkedOut
    <3>2. out = [L EXCEPT !.head = NULL, !.tail = NULL]
      BY <1>2, <2>1
    <3> HIDE DEF out
    <3>3. Good(N, hd2, tl2)
      BY <1>0, <2>1, <3>1, <3>2 DEF Heap
    <3> HIDE DEF Good
    <3> QED
      BY <3>3
  <2>2. CASE Len(c) # 1 /\ i = 1
    <3>0. 1 < Len(c) /\ i < Len(c) /\ i + 1 = 2 /\ i # Len(c)
      <4> DEFINE m == Len(c)
      <4>1. m \in Nat /\ i \in 1..m /\ m # 1 /\ i = 1
        BY <1>0, <2>2
      <4> HIDE DEF m
      <4>2. 1 < m /\ i < m /\ i + 1 = 2 /\ i # m
        BY <4>1
      <4> QED
        BY <4>2 DEF m
    <3>1. nx = c[2] /\ c[2] \in Chunk /\ c[2] # NULL /\ c[2] \in Ptr
      BY <1>0, <1>1, <3>0
    <3> DEFINE M == [N EXCEPT ![nx].prev = NULL]
    <3>2. out = SetPrev([L EXCEPT !.head = nx], nx, NULL)
      BY <1>2, <2>2
    <3>3. SetPrev([L EXCEPT !.head = nx], nx, NULL) = [[L EXCEPT !.head = nx] EXCEPT !.node = M]
      BY <3>1 DEF SetPrev, Heap
    <3> HIDE DEF N, nx, out
    <3>4. /\ M \in [Chunk -> Node]
          /\ \A z \in Chunk : z # nx => M[z].prev = N[z].prev
          /\ \A z \in Chunk : M[z].next = N[z].next
          /\ \A z \in Chunk : Rec(M, z) = Rec(N, z)
      <4> DEFINE p == NULL
      <4>1. p \in Ptr
        BY <1>0
      <4>2. nx \in Chunk /\ SetPrevOf(M, N, nx, p) /\ N \in [Chunk -> Node]
        BY <1>0, <3>1 DEF SetPrevOf
      <4> HIDE DEF p, M
      <4>3. OnlyPrev(M, N, nx, p)
        BY <4>1, <4>2, PrevOnly
      <4> QED
        BY <4>3 DEF OnlyPrev
    <3> HIDE DEF M
    <3>5. LinkedOut(M, N, c, i)
      <4>1. ~(i > 1) /\ ~(1 < i) /\ c[i + 1] = nx
        BY <2>2, <3>0, <3>1
      <4> QED
        BY <3>0, <3>4, <4>1 DEF LinkedOut
    <3>6. hd2 = nx /\ tl2 = L.tail
      BY <2>2, <3>0, <3>1
    <3>7. out = [[L EXCEPT !.head = nx] EXCEPT !.node = M]
      BY <3>2, <3>3 DEF M, N
    <3>8. Good(M, nx, L.tail)
      BY <3>1, <3>4, <3>5, <3>7 DEF Heap
    <3> HIDE DEF Good, hd2, tl2
    <3> QED
      BY <3>6, <3>8
  <2>3. CASE Len(c) # 1 /\ i # 1 /\ i = Len(c)
    <3>0. i > 1 /\ i - 1 \in 1..Len(c) /\ ~(i < Len(c))
      BY <1>0, <2>3
    <3>1. pv = c[i - 1] /\ pv \in Chunk /\ pv # NULL /\ pv \in Ptr
      BY <1>0, <1>1, <3>0
    <3> DEFINE M == [N EXCEPT ![pv].next = NULL]
    <3>2. out = SetNext([L EXCEPT !.tail = pv], pv, NULL)
      BY <1>2, <2>3
    <3>3. SetNext([L EXCEPT !.tail = pv], pv, NULL) = [[L EXCEPT !.tail = pv] EXCEPT !.node = M]
      BY <3>1 DEF SetNext, Heap
    <3> HIDE DEF N, pv, out
    <3>4. /\ M \in [Chunk -> Node] /\ M[pv].next = NULL
          /\ \A z \in Chunk : z # pv => M[z].next = N[z].next
          /\ \A z \in Chunk : M[z].prev = N[z].prev
          /\ \A z \in Chunk : Rec(M, z) = Rec(N, z)
      <4> DEFINE p == NULL
      <4>1. p \in Ptr
        BY <1>0
      <4>2. pv \in Chunk /\ SetNextOf(M, N, pv, p) /\ N \in [Chunk -> Node]
        BY <1>0, <3>1 DEF SetNextOf
      <4> HIDE DEF p, M
      <4>3. OnlyNext(M, N, pv, p)
        BY <4>1, <4>2, NextOnly
      <4> QED
        BY <4>3 DEF OnlyNext, p
    <3> HIDE DEF M
    <3>5. LinkedOut(M, N, c, i)
      BY <2>3, <3>0, <3>1, <3>4 DEF LinkedOut
    <3>6. hd2 = L.head /\ tl2 = pv
      BY <2>3, <3>0, <3>1
    <3>7. out = [[L EXCEPT !.tail = pv] EXCEPT !.node = M]
      BY <3>2, <3>3 DEF M, N
    <3>8. Good(M, L.head, pv)
      BY <3>1, <3>4, <3>5, <3>7 DEF Heap
    <3> HIDE DEF Good, hd2, tl2
    <3> QED
      BY <3>6, <3>8
  <2>4. CASE Len(c) # 1 /\ i # 1 /\ i # Len(c)
    <3>0. i > 1 /\ i < Len(c) /\ i - 1 \in 1..Len(c) /\ i + 1 \in 1..Len(c) /\ i - 1 # i + 1
      BY <1>0, <2>4
    <3>1. /\ pv = c[i - 1] /\ pv \in Chunk /\ pv # NULL /\ pv \in Ptr
          /\ nx = c[i + 1] /\ nx \in Chunk /\ nx # NULL /\ nx \in Ptr
      BY <1>0, <1>1, <3>0
    <3> DEFINE V == [N EXCEPT ![pv].next = nx]
               M == [V EXCEPT ![nx].prev = pv]
    <3>2. out = SetPrev(SetNext(L, pv, nx), nx, pv)
      BY <1>2, <2>4
    <3>3. SetNext(L, pv, nx) = [L EXCEPT !.node = V]
      BY <3>1 DEF SetNext, Heap
    <3>a. SetPrev([L EXCEPT !.node = V], nx, pv) = [[L EXCEPT !.node = V] EXCEPT !.node = M]
      <4> HIDE DEF V, nx, pv
      <4> QED
        BY <3>1 DEF SetPrev, Heap
    <3> HIDE DEF N, pv, nx, out
    <3>4. /\ V \in [Chunk -> Node] /\ V[pv].next = nx
          /\ \A z \in Chunk : z # pv => V[z].next = N[z].next
          /\ \A z \in Chunk : V[z].prev = N[z].prev
          /\ \A z \in Chunk : Rec(V, z) = Rec(N, z)
      <4>1. pv \in Chunk /\ nx \in Ptr /\ SetNextOf(V, N, pv, nx) /\ N \in [Chunk -> Node]
        BY <1>0, <3>1 DEF SetNextOf
      <4> HIDE DEF V
      <4>2. OnlyNext(V, N, pv, nx)
        BY <4>1, NextOnly
      <4> QED
        BY <4>2 DEF OnlyNext
    <3> HIDE DEF V
    <3>b. /\ M \in [Chunk -> Node] /\ M[nx].prev = pv
          /\ \A z \in Chunk : z # nx => M[z].prev = V[z].prev
          /\ \A z \in Chunk : M[z].next = V[z].next
          /\ \A z \in Chunk : Rec(M, z) = Rec(V, z)
      <4>1. nx \in Chunk /\ pv \in Ptr /\ SetPrevOf(M, V, nx, pv) /\ V \in [Chunk -> Node]
        BY <3>1, <3>4 DEF SetPrevOf
      <4> HIDE DEF M
      <4>2. OnlyPrev(M, V, nx, pv)
        BY <4>1, PrevOnly
      <4> QED
        BY <4>2 DEF OnlyPrev
    <3> HIDE DEF M
    <3>5. LinkedOut(M, N, c, i)
      <4>1. M[pv].next = nx
        BY <3>1, <3>4, <3>b
      <4>2. \A z \in Chunk : z # pv => M[z].next = N[z].next
        BY <3>4, <3>b
      <4>3. \A z \in Chunk : z # nx => M[z].prev = N[z].prev
        BY <3>4, <3>b
      <4> QED
        BY <2>4, <3>0, <3>1, <3>b, <4>1, <4>2, <4>3 DEF LinkedOut
    <3>6. hd2 = L.head /\ tl2 = L.tail
      BY <2>4
    <3>7. out = [[L EXCEPT !.node = V] EXCEPT !.node = M]
      BY <3>2, <3>3, <3>a DEF M, V, N
    <3>8. \A z \in Chunk : Rec(M, z) = Rec(N, z)
      BY <3>4, <3>b
    <3>9. Good(M, L.head, L.tail)
      BY <3>5, <3>7, <3>8, <3>b DEF Heap
    <3> HIDE DEF Good, hd2, tl2
    <3> QED
      BY <3>6, <3>9
  <2> QED
    BY <2>1, <2>2, <2>3, <2>4
<1> HIDE DEF out, hd2, tl2
<1>6. PICK M : Good(M, hd2, tl2)
  BY <1>5
<1>7. Linked(M, hd2, tl2, f)
  <2>1. Linked(N, L.head, L.tail, c) /\ LinkedOut(M, N, c, i)
    BY <1>6
  <2> QED
    BY <2>1, RemoveLinked DEF hd2, tl2
<1>8. Recs(M, f) = RemoveRecord(Recs(N, c), i)
  <2>1. M \in [Chunk -> Node] /\ SameBut(M, N, c[i], c[i])
    BY <1>6 DEF LinkedOut, SameBut
  <2> QED
    BY <1>0, <2>1, RemoveRecs
<1>9. /\ K \in Heap /\ K.ok = L.ok /\ K.count = L.count - 1 /\ K.free = <<x>> \o L.free
      /\ K.node = M /\ K.head = hd2 /\ K.tail = tl2
  <2> HIDE DEF x
  <2>1. K = [[out EXCEPT !.count = @ - 1] EXCEPT !.free = <<x>> \o @]
    BY <1>4 DEF PoolPut
  <2>2. out \in Heap /\ out.free \in Seq(Chunk) /\ <<x>> \o out.free \in Seq(Chunk)
    BY <1>3, <1>6 DEF Heap
  <2>3. /\ out.node = M /\ out.head = hd2 /\ out.tail = tl2
        /\ out.free = L.free /\ out.count = L.count /\ out.ok = L.ok
    BY <1>6
  <2> DEFINE f0 == <<x>> \o out.free
  <2>4. K = [[out EXCEPT !.count = @ - 1] EXCEPT !.free = f0] /\ f0 \in Seq(Chunk)
    BY <2>1, <2>2 DEF Heap
  <2> HIDE DEF K, f0
  <2>5. /\ K \in Heap /\ K.ok = out.ok /\ K.count = out.count - 1 /\ K.free = f0
        /\ K.node = out.node /\ K.head = out.head /\ K.tail = out.tail
    <3> DEFINE k0 == [out EXCEPT !.count = @ - 1]
    <3>1. /\ k0 \in Heap /\ k0.ok = out.ok /\ k0.count = out.count - 1
          /\ k0.node = out.node /\ k0.head = out.head /\ k0.tail = out.tail
      BY <2>2 DEF Heap
    <3>2. K = [k0 EXCEPT !.free = f0]
      BY <2>4
    <3> HIDE DEF k0
    <3>3. /\ K \in Heap /\ K.ok = k0.ok /\ K.count = k0.count /\ K.free = f0
          /\ K.node = k0.node /\ K.head = k0.head /\ K.tail = k0.tail
      BY <2>4, <3>1, <3>2 DEF Heap
    <3> QED
      BY <3>1, <3>3
  <2> QED
    BY <2>3, <2>5 DEF f0
<1> HIDE DEF K
<1>10. Linked(K.node, K.head, K.tail, f) /\ Recs(K.node, f) = RemoveRecord(Recs(N, c), i)
  BY <1>7, <1>8, <1>9
<1> QED
  BY <1>9, <1>10 DEF K

-----------------------------------------------------------------------------
(* The pool.                                                                *)

\* A chunk of the pool moves into the list.
LEMMA PoolTakes ==
  ASSUME NEW f, NEW c \in Seq(Chunk), Pool(f, c), f # <<>>, NEW i \in 0..Len(c)
  PROVE  /\ Head(f) \in Chunk /\ Head(f) \notin ToSet(c)
         /\ Tail(f) \in Seq(Chunk)
         /\ Pool(Tail(f), Insert(c, i, Head(f)))
<1> DEFINE h == Head(f)
           e == Tail(f)
           k == Insert(c, i, h)
<1>0. /\ f \in Seq(Chunk) /\ Distinct(f) /\ ToSet(c) \cap ToSet(f) = {}
      /\ ToSet(c) \cup ToSet(f) = Chunk /\ Len(c) + Len(f) = GapMax
  BY DEF Pool
<1>1. /\ Len(f) \in Nat /\ Len(f) > 0 /\ h = f[1] /\ h \in Chunk
      /\ e \in Seq(Chunk) /\ Len(e) = Len(f) - 1 /\ \A j \in 1..Len(e) : e[j] = f[j + 1]
      /\ DOMAIN f = 1..Len(f) /\ DOMAIN e = 1..Len(e)
  BY <1>0
<1> HIDE DEF h, e
<1>2. Distinct(e) /\ h \notin ToSet(e)
  <2>1. \A j \in 1..Len(e) : j + 1 \in 1..Len(f) /\ j + 1 # 1
    BY <1>1
  <2>2. 1 \in 1..Len(f)
    BY <1>1
  <2>3. \A j \in 1..Len(e) : e[j] # h
    BY <1>0, <1>1, <2>1, <2>2 DEF Distinct
  <2>4. ASSUME NEW j \in 1..Len(e), NEW m \in 1..Len(e), e[j] = e[m] PROVE j = m
    <3>1. j + 1 = m + 1
      BY <1>0, <1>1, <2>1, <2>4 DEF Distinct
    <3> QED
      BY <1>1, <3>1
  <2> QED
    BY <1>1, <2>3, <2>4 DEF Distinct, ToSet
<1>3. ToSet(f) = ToSet(e) \cup {h}
  <2>1. ASSUME NEW j \in 1..Len(f) PROVE f[j] \in ToSet(e) \cup {h}
    <3>1. CASE j = 1
      BY <1>1, <3>1
    <3>2. CASE j # 1
      <4>1. j - 1 \in 1..Len(e) /\ e[j - 1] = f[j]
        <5>1. j - 1 \in 1..Len(e) /\ (j - 1) + 1 = j
          BY <1>1, <3>2
        <5> QED
          BY <1>1, <5>1
      <4> QED
        BY <1>1, <4>1 DEF ToSet
    <3> QED
      BY <3>1, <3>2
  <2>2. ASSUME NEW j \in 1..Len(e) PROVE e[j] \in ToSet(f)
    BY <1>1 DEF ToSet
  <2>3. h \in ToSet(f)
    BY <1>1 DEF ToSet
  <2> QED
    BY <1>1, <2>1, <2>2, <2>3 DEF ToSet
<1>4. h \notin ToSet(c)
  BY <1>0, <1>3
<1>5. k \in Seq(Chunk) /\ Len(k) = Len(c) + 1 /\ ToSet(k) = ToSet(c) \cup {h}
  BY <1>1, InsertElements
<1> HIDE DEF k
<1>6. ToSet(k) \cap ToSet(e) = {} /\ ToSet(k) \cup ToSet(e) = Chunk
  BY <1>0, <1>2, <1>3, <1>5
<1>7. Len(k) + Len(e) = GapMax
  <2>1. Len(c) \in Nat
    OBVIOUS
  <2> QED
    BY <1>0, <1>1, <1>5, <2>1
<1>8. Pool(e, k)
  BY <1>1, <1>2, <1>6, <1>7 DEF Pool
<1> QED
  BY <1>1, <1>4, <1>8 DEF h, e, k

\* The head chunk moves to another place of the list.
LEMMA PoolRotates ==
  ASSUME NEW f, NEW c \in Seq(Chunk), Distinct(c), Pool(f, c), Len(c) > 0,
         NEW i \in 0..(Len(c) - 1)
  PROVE  /\ c[1] \in Chunk /\ c[1] \notin ToSet(DropPrefix(c, 1))
         /\ DropPrefix(c, 1) \in Seq(Chunk) /\ Distinct(DropPrefix(c, 1))
         /\ Len(DropPrefix(c, 1)) = Len(c) - 1
         /\ Pool(f, Insert(DropPrefix(c, 1), i, c[1]))
         /\ Len(Insert(DropPrefix(c, 1), i, c[1])) = Len(c)
<1> DEFINE e == DropPrefix(c, 1)
           h == c[1]
           k == Insert(e, i, h)
<1>0. Len(c) \in Nat /\ 1 \in 0..Len(c) /\ h \in Chunk
  OBVIOUS
<1>1. /\ e \in Seq(Chunk) /\ Len(e) = Len(c) - 1 /\ Distinct(e)
      /\ \A j \in 1..1 : c[j] \notin ToSet(e)
      /\ ToSet(c) = ToSet(e) \cup {c[j] : j \in 1..1}
  BY <1>0, DropElements
<1>2. h \notin ToSet(e) /\ ToSet(c) = ToSet(e) \cup {h}
  BY <1>1
<1> HIDE DEF e, h
<1>3. k \in Seq(Chunk) /\ Len(k) = Len(e) + 1 /\ ToSet(k) = ToSet(e) \cup {h}
  <2>1. i \in 0..Len(e) /\ e \in Seq(Chunk) /\ h \in Chunk
    BY <1>0, <1>1
  <2> QED
    BY <2>1, InsertElements
<1> HIDE DEF k
<1>4. ToSet(k) = ToSet(c) /\ Len(k) = Len(c)
  BY <1>0, <1>1, <1>2, <1>3
<1>5. Pool(f, k)
  BY <1>4 DEF Pool
<1> QED
  BY <1>0, <1>1, <1>2, <1>4, <1>5 DEF e, h, k

\* The chunk of a removed record moves to the pool.
LEMMA PoolGives ==
  ASSUME NEW f, NEW c \in Seq(Chunk), Distinct(c), Pool(f, c), NEW i \in 1..Len(c)
  PROVE  Pool(<<c[i]>> \o f, RemoveRecord(c, i)) /\ Len(RemoveRecord(c, i)) = Len(c) - 1
<1> DEFINE e == <<c[i]>>
           k == RemoveRecord(c, i)
           q == e \o f
<1>0. /\ f \in Seq(Chunk) /\ Distinct(f) /\ ToSet(c) \cap ToSet(f) = {}
      /\ ToSet(c) \cup ToSet(f) = Chunk /\ Len(c) + Len(f) = GapMax
  BY DEF Pool
<1>1. c[i] \in Chunk /\ c[i] \in ToSet(c) /\ Len(c) \in Nat
  BY DEF ToSet
<1>2. e \in Seq(Chunk) /\ Len(e) = 1 /\ e[1] = c[i] /\ DOMAIN e = 1..1
  BY <1>1
<1>3. k \in Seq(Chunk) /\ Len(k) = Len(c) - 1 /\ ToSet(k) = ToSet(c) \ {c[i]}
  BY RemoveElements
<1> HIDE DEF e, k
<1>4. Distinct(e) /\ ToSet(e) = {c[i]}
  BY <1>2 DEF Distinct, ToSet
<1>5. ToSet(e) \cap ToSet(f) = {}
  BY <1>0, <1>1, <1>4
<1>6. q \in Seq(Chunk) /\ Len(q) = Len(e) + Len(f) /\ ToSet(q) = ToSet(e) \cup ToSet(f) /\ Distinct(q)
  <2>1. e \in Seq(Chunk) /\ f \in Seq(Chunk) /\ Distinct(e) /\ Distinct(f)
    BY <1>0, <1>2, <1>4, <1>5
  <2>2. Joins(q, e, f)
    BY DEF Joins
  <2> HIDE DEF q
  <2> QED
    BY <1>5, <2>1, <2>2, ConcatElements
<1> HIDE DEF q
<1>7. ToSet(k) \cap ToSet(q) = {} /\ ToSet(k) \cup ToSet(q) = Chunk
  BY <1>0, <1>1, <1>3, <1>4, <1>6
<1>8. Len(k) + Len(q) = GapMax
  <2>1. Len(f) \in Nat
    BY <1>0
  <2> QED
    BY <1>0, <1>1, <1>2, <1>3, <1>6, <2>1
<1> QED
  BY <1>3, <1>6, <1>7, <1>8 DEF Pool, e, k, q

\* The chunks of the first k records move to the pool.
LEMMA PoolGivesHeads ==
  ASSUME NEW f, NEW c \in Seq(Chunk), Distinct(c), Pool(f, c), NEW k \in 0..Len(c)
  PROVE  Pool(Reverse(SubSeq(c, 1, k)) \o f, DropPrefix(c, k))
<1> DEFINE e == Reverse(SubSeq(c, 1, k))
           d == DropPrefix(c, k)
           q == e \o f
<1>0. /\ f \in Seq(Chunk) /\ Distinct(f) /\ ToSet(c) \cap ToSet(f) = {}
      /\ ToSet(c) \cup ToSet(f) = Chunk /\ Len(c) + Len(f) = GapMax
  BY DEF Pool
<1>2. e \in Seq(Chunk) /\ Len(e) = k /\ Distinct(e) /\ ToSet(e) = {c[j] : j \in 1..k}
  BY ReverseElements
<1>3. /\ d \in Seq(Chunk) /\ Len(d) = Len(c) - k
      /\ \A j \in 1..k : c[j] \notin ToSet(d)
      /\ ToSet(c) = ToSet(d) \cup {c[j] : j \in 1..k}
  BY DropElements
<1> HIDE DEF e, d
<1>4. ToSet(d) \cap ToSet(e) = {} /\ ToSet(c) = ToSet(d) \cup ToSet(e)
  BY <1>2, <1>3
<1>5. ToSet(e) \cap ToSet(f) = {}
  BY <1>0, <1>4
<1>6. q \in Seq(Chunk) /\ Len(q) = Len(e) + Len(f) /\ ToSet(q) = ToSet(e) \cup ToSet(f) /\ Distinct(q)
  <2>1. e \in Seq(Chunk) /\ f \in Seq(Chunk) /\ Distinct(e) /\ Distinct(f)
    BY <1>0, <1>2, <1>5
  <2>2. Joins(q, e, f)
    BY DEF Joins
  <2> HIDE DEF q
  <2> QED
    BY <1>5, <2>1, <2>2, ConcatElements
<1> HIDE DEF q
<1>7. ToSet(d) \cap ToSet(q) = {} /\ ToSet(d) \cup ToSet(q) = Chunk
  BY <1>0, <1>4, <1>6
<1>8. Len(d) + Len(q) = GapMax
  <2>1. Len(f) \in Nat /\ Len(c) \in Nat
    BY <1>0
  <2> QED
    BY <1>0, <1>2, <1>3, <1>6, <2>1
<1> QED
  BY <1>6, <1>7, <1>8 DEF Pool, e, d, q

-----------------------------------------------------------------------------
(* push.                                                                    *)

\* What a call leaves: a list again, whose records are h.
Leads(K, h) == \E c : IsList(K, c) /\ Recs(K.node, c) = h

\* The facts of a list.
LEMMA ListFacts ==
  ASSUME NEW L, NEW c, IsList(L, c)
  PROVE  /\ L \in Heap /\ L.ok = TRUE /\ Linked(L.node, L.head, L.tail, c)
         /\ Pool(L.free, c) /\ L.count = Len(c)
         /\ c \in Seq(Chunk) /\ Distinct(c) /\ Len(c) \in Nat /\ Len(c) <= GapMax
         /\ L.node \in [Chunk -> Node] /\ L.free \in Seq(Chunk)
         /\ Len(c) < GapMax => L.free # <<>>
         /\ Records(L) = Recs(L.node, c) /\ Chain(L) = c
<1>1. /\ L \in Heap /\ L.ok = TRUE /\ Linked(L.node, L.head, L.tail, c)
      /\ Pool(L.free, c) /\ L.count = Len(c)
  BY DEF IsList
<1>2. c \in Seq(Chunk) /\ Distinct(c) /\ Len(c) \in Nat /\ L.node \in [Chunk -> Node]
  BY <1>1, LinkedEnds
<1>3. L.free \in Seq(Chunk) /\ Len(c) + Len(L.free) = GapMax
  BY <1>1 DEF Pool
<1>4. Len(L.free) \in Nat /\ GapMax \in Nat /\ (L.free = <<>> => Len(L.free) = 0)
  BY <1>3, GapAssumption
<1>5. Len(c) <= GapMax /\ (Len(c) < GapMax => L.free # <<>>)
  BY <1>2, <1>3, <1>4
<1>6. Records(L) = Recs(L.node, c) /\ Chain(L) = c
  BY <1>1, <1>5, RecordsAre, WalkIsChain
<1> QED
  BY <1>1, <1>2, <1>3, <1>5, <1>6

\* A node is taken from the pool.
LEMMA TakeNodeTakes ==
  ASSUME NEW L \in Heap, L.free # <<>>
  PROVE  /\ TakeNode(L) \in Heap
         /\ TakeNode(L).node = L.node /\ TakeNode(L).head = L.head /\ TakeNode(L).tail = L.tail
         /\ TakeNode(L).free = Tail(L.free) /\ TakeNode(L).count = L.count + 1
         /\ TakeNode(L).ok = L.ok
<1> DEFINE K == [L EXCEPT !.free = Tail(@)]
<1>0. L.free \in Seq(Chunk) /\ Tail(L.free) \in Seq(Chunk)
  BY DEF Heap
<1>1. /\ K \in Heap /\ K.node = L.node /\ K.head = L.head /\ K.tail = L.tail
      /\ K.free = Tail(L.free) /\ K.count = L.count /\ K.ok = L.ok
  BY <1>0 DEF Heap
<1>2. TakeNode(L) = [K EXCEPT !.count = @ + 1]
  BY DEF TakeNode, PoolGet
<1> HIDE DEF K
<1> DEFINE T == [K EXCEPT !.count = @ + 1]
<1>3. /\ T \in Heap /\ T.node = K.node /\ T.head = K.head /\ T.tail = K.tail
      /\ T.free = K.free /\ T.count = K.count + 1 /\ T.ok = K.ok
  BY <1>1 DEF Heap
<1> HIDE DEF T
<1> QED
  BY <1>1, <1>2, <1>3 DEF T

\* A push leaves a list whose records are those of PushGap.
LEMMA PushLeads ==
  ASSUME GapMax >= 2, NEW L, NEW c, IsList(L, c), NEW s \in Nat, NEW n \in Nat, NEW t \in Nat
  PROVE  /\ Leads(HeapPush(L, s, n, t).list, PushGap(Recs(L.node, c), s, n, t))
         /\ HeapPush(L, s, n, t).rc = PushLost(Recs(L.node, c))
<1> DEFINE g == Recs(L.node, c)
           gap == NewGap(s, n, t)
           R == HeapPush(L, s, n, t)
<1>0. /\ L \in Heap /\ L.ok = TRUE /\ Linked(L.node, L.head, L.tail, c)
      /\ Pool(L.free, c) /\ L.count = Len(c)
      /\ c \in Seq(Chunk) /\ Distinct(c) /\ Len(c) \in Nat /\ Len(c) <= GapMax
      /\ L.node \in [Chunk -> Node] /\ L.free \in Seq(Chunk)
      /\ Len(c) < GapMax => L.free # <<>>
  BY ListFacts
<1>1. gap \in Gap /\ GapMax \in Nat
  BY GapAssumption DEF gap, NewGap, Gap
<1>2. g \in Seq(Gap) /\ Len(g) = Len(c) /\ \A j \in 1..Len(c) : g[j] = Rec(L.node, c[j])
  BY <1>0, RecsElements
<1> HIDE DEF gap
<1>3. CASE Len(c) < GapMax
  <2> DEFINE h == Head(L.free)
             T == TakeNode(L)
             K == LinkLast(T, h, gap)
             d == Insert(c, Len(c), h)
  <2>1. R = [list |-> K, rc |-> 0]
    <3>1. ~(L.count + 1 > GapMax) /\ ~PoolEmpty(L)
      BY <1>0, <1>1, <1>3 DEF PoolEmpty
    <3> QED
      BY <3>1 DEF HeapPush, gap
  <2>2. /\ h \in Chunk /\ h \notin ToSet(c) /\ Pool(Tail(L.free), d) /\ Len(d) = Len(c) + 1
    <3> DEFINE i == Len(c)
               f == L.free
    <3>1. i \in 0..Len(c) /\ f # <<>> /\ Pool(f, c)
      BY <1>0, <1>3
    <3> HIDE DEF i, f
    <3>2. Head(f) \in Chunk /\ Head(f) \notin ToSet(c) /\ Pool(Tail(f), Insert(c, i, Head(f)))
      BY <1>0, <3>1, PoolTakes
    <3>3. Len(Insert(c, i, Head(f))) = Len(c) + 1
      BY <1>0, <3>1, <3>2, InsertElements
    <3> QED
      BY <3>2, <3>3 DEF i, f
  <2>3. /\ T \in Heap /\ T.node = L.node /\ T.head = L.head /\ T.tail = L.tail
        /\ T.free = Tail(L.free) /\ T.count = L.count + 1 /\ T.ok = L.ok
    BY <1>0, <1>3, TakeNodeTakes
  <2> HIDE DEF T, h
  <2>4. Relinked(K, T, d) /\ Recs(K.node, d) = Append(Recs(T.node, c), gap)
    BY <1>0, <1>1, <2>2, <2>3, LinkLastLinks
  <2> HIDE DEF K, d
  <2>5. IsList(K, d)
    BY <1>0, <2>2, <2>3, <2>4 DEF Relinked, IsList
  <2>6. PushGap(g, s, n, t) = Append(g, gap) /\ PushLost(g) = 0
    <3>1. ~ListFull(g)
      BY <1>0, <1>1, <1>2, <1>3 DEF ListFull
    <3> QED
      BY <3>1 DEF PushGap, PushLost, gap
  <2>7. Recs(K.node, d) = PushGap(g, s, n, t)
    BY <2>3, <2>4, <2>6
  <2> HIDE DEF R, g
  <2> QED
    BY <2>1, <2>5, <2>6, <2>7 DEF Leads, R, g
<1>4. CASE Len(c) = GapMax
  <2> DEFINE h == c[1]
             T == [L EXCEPT !.head = L.node[L.head].next]
             K == LinkLast(T, h, gap)
             e == DropPrefix(c, 1)
             d == Insert(e, Len(e), h)
  <2>1. 1 \in 1..Len(c) /\ Len(c) > 0 /\ Len(c) >= 2 /\ 1 # Len(c)
    BY <1>1, <1>4
  <2>2. L.head = h /\ h # NULL /\ h \in Chunk /\ L.node[h].next = c[2]
    <3>1. L.head = c[1] /\ c[1] # NULL /\ c[1] \in Chunk
      BY <1>0, <2>1, LinkedEnds
    <3>2. L.node[c[1]].next = c[1 + 1]
      BY <1>0, <2>1 DEF Linked
    <3> QED
      BY <3>1, <3>2
  <2>3. R = [list |-> K, rc |-> LostWith(L, h)]
    <3>1. L.count + 1 > GapMax
      BY <1>0, <1>1, <1>4
    <3>2. R = [list |-> LinkLast([L EXCEPT !.head = L.node[L.head].next], L.head,
                                   NewGap(s, n, t)),
                 rc   |-> LostWith(L, L.head)]
      BY <2>2, <3>1 DEF HeapPush
    <3> QED
      BY <2>2, <3>2 DEF gap
  <2>4. /\ T \in Heap /\ T.node = L.node /\ T.head = c[2] /\ T.tail = L.tail
        /\ T.free = L.free /\ T.count = L.count /\ T.ok = L.ok
    <3>1. c[2] \in Ptr
      <4>1. 2 \in 1..Len(c)
        BY <1>0, <2>1
      <4> QED
        BY <1>0, <4>1 DEF Ptr
    <3>2. T = [L EXCEPT !.head = c[2]]
      BY <2>2
    <3> HIDE DEF T
    <3> QED
      BY <1>0, <3>1, <3>2 DEF Heap
  <2> HIDE DEF T
  <2>5. Relinked(T, L, e) /\ Recs(T.node, e) = DropPrefix(g, 1)
    <3> DEFINE M == T.node
    <3>1. T.node = M /\ M = L.node
      BY <2>4
    <3> HIDE DEF M
    <3> QED
      BY <1>0, <2>1, <2>4, <3>1, PopLinks
  <2>6. /\ h \in Chunk /\ h \notin ToSet(e) /\ Pool(L.free, d) /\ Len(d) = Len(c)
    <3> DEFINE i == Len(e)
               f == L.free
    <3>1. e \in Seq(Chunk) /\ Len(e) = Len(c) - 1
      <4>1. 1 \in 0..Len(c)
        BY <1>0, <2>1
      <4> QED
        BY <1>0, <4>1, DropElements
    <3>2. i \in 0..(Len(c) - 1) /\ Pool(f, c)
      BY <1>0, <2>1, <3>1
    <3> HIDE DEF i, f
    <3>3. /\ c[1] \notin ToSet(DropPrefix(c, 1))
          /\ Pool(f, Insert(DropPrefix(c, 1), i, c[1]))
          /\ Len(Insert(DropPrefix(c, 1), i, c[1])) = Len(c)
      BY <1>0, <2>1, <3>2, PoolRotates
    <3> QED
      BY <2>2, <3>3 DEF i, f
  <2>7. Relinked(K, T, d) /\ Recs(K.node, d) = Append(Recs(T.node, e), gap)
    <3>1. Linked(T.node, T.head, T.tail, e)
      BY <2>5 DEF Relinked
    <3> HIDE DEF e, h
    <3> QED
      BY <1>1, <2>4, <2>6, <3>1, LinkLastLinks
  <2> HIDE DEF K, d, e
  <2>8. IsList(K, d)
    BY <1>0, <2>4, <2>6, <2>7 DEF Relinked, IsList
  <2>9. PushGap(g, s, n, t) = Append(DropPrefix(g, 1), gap) /\ PushLost(g) = g[1].size
    <3>1. ListFull(g)
      BY <1>0, <1>1, <1>2, <1>4 DEF ListFull
    <3> QED
      BY <3>1 DEF PushGap, PushLost, gap
  <2>10. LostWith(L, h) = g[1].size
    <3>1. g[1] = Rec(L.node, h) /\ Rec(L.node, h).size = L.node[h].size
      BY <1>0, <1>2, <2>1, <2>2, RecFields
    <3> QED
      BY <3>1 DEF LostWith
  <2>11. Recs(K.node, d) = PushGap(g, s, n, t)
    BY <2>5, <2>7, <2>9
  <2> HIDE DEF R, g, h
  <2> QED
    BY <2>3, <2>8, <2>9, <2>10, <2>11 DEF Leads, R, g
<1> QED
  BY <1>0, <1>1, <1>3, <1>4

-----------------------------------------------------------------------------
(* find and del.                                                            *)

\* What a record covers is what its node says.
LEMMA SpanOfNode ==
  ASSUME NEW N \in [Chunk -> Node], NEW x \in Chunk
  PROVE  Span(Rec(N, x)) = Span(N[x])
  BY RecFields DEF Span

\* find returns the first node that covers s.
LEMMA FindLeads ==
  ASSUME NEW L, NEW c, IsList(L, c), NEW s, HeapFind(L, s) # NULL
  PROVE  \E i : FindGap(Recs(L.node, c), s, i) /\ HeapFind(L, s) = c[i]
<1> DEFINE g == Recs(L.node, c)
           I == {i \in 1..Len(c) : s \in Span(L.node[c[i]])}
<1>0. c \in Seq(Chunk) /\ Len(c) \in Nat /\ L.node \in [Chunk -> Node] /\ Chain(L) = c
  BY ListFacts
<1>1. g \in Seq(Gap) /\ Len(g) = Len(c) /\ \A j \in 1..Len(c) : g[j] = Rec(L.node, c[j])
  BY <1>0, RecsElements
<1>2. \A j \in 1..Len(c) : Span(g[j]) = Span(L.node[c[j]])
  <2> TAKE j \in 1..Len(c)
  <2>1. c[j] \in Chunk
    BY <1>0
  <2> QED
    BY <1>0, <1>1, <2>1, SpanOfNode
<1>3. SelectInSeq(c, LAMBDA x : s \in Span(L.node[x])) = IF I # {} THEN Min(I) ELSE 0
  BY DEF SelectInSeq
<1>4. HeapFind(L, s) =
        IF (IF I # {} THEN Min(I) ELSE 0) = 0 THEN NULL ELSE c[IF I # {} THEN Min(I) ELSE 0]
  BY <1>0, <1>3 DEF HeapFind
<1> HIDE DEF I
<1>5. I # {} /\ I \in SUBSET Nat
  BY <1>4 DEF I
<1>6. PICK m \in I : \A j \in I : m <= j
  BY <1>5, SF!LeastNumber
<1>7. Min(I) \in I /\ \A j \in I : Min(I) <= j
  <2>1. \E x \in I : \A y \in I : x <= y
    BY <1>6
  <2> QED
    BY <2>1 DEF Min
<1> DEFINE i == Min(I)
<1>8. i \in 1..Len(c) /\ s \in Span(L.node[c[i]]) /\ i # 0
  BY <1>0, <1>7 DEF I
<1>9. ASSUME NEW j \in 1..(i - 1) PROVE s \notin Span(L.node[c[j]])
  <2>1. j \in 1..Len(c) /\ ~(i <= j)
    BY <1>0, <1>8
  <2>2. j \notin I
    BY <1>7, <2>1
  <2> QED
    BY <2>1, <2>2 DEF I
<1>10. HeapFind(L, s) = c[i]
  BY <1>4, <1>5, <1>8
<1> HIDE DEF i, g
<1>11. FindGap(g, s, i)
  <2>1. \A j \in 1..(i - 1) : j \in 1..Len(c)
    BY <1>0, <1>8
  <2> QED
    BY <1>1, <1>2, <1>8, <1>9, <2>1 DEF FindGap
<1> QED
  BY <1>10, <1>11 DEF g

\* K is L with other numbers in node x.
Edited(K, L, x) ==
  /\ K \in Heap
  /\ K.head = L.head /\ K.tail = L.tail /\ K.free = L.free /\ K.count = L.count /\ K.ok = L.ok
  /\ \A z \in Chunk : K.node[z].next = L.node[z].next /\ K.node[z].prev = L.node[z].prev
  /\ \A z \in Chunk : z # x => Rec(K.node, z) = Rec(L.node, z)

\* Other numbers in a node leave a list a list.
LEMMA EditLeads ==
  ASSUME NEW L, NEW c, IsList(L, c), NEW i \in 1..Len(c), NEW K, Edited(K, L, c[i])
  PROVE  /\ IsList(K, c)
         /\ Recs(K.node, c) = Replace(Recs(L.node, c), i, Rec(K.node, c[i]))
<1>0. /\ L \in Heap /\ L.ok = TRUE /\ Linked(L.node, L.head, L.tail, c)
      /\ Pool(L.free, c) /\ L.count = Len(c)
      /\ c \in Seq(Chunk) /\ Distinct(c) /\ L.node \in [Chunk -> Node]
  BY ListFacts
<1>1. K.node \in [Chunk -> Node]
  BY DEF Edited, Heap
<1> DEFINE M == K.node
           N == L.node
<1>2. /\ \A z \in Chunk : M[z].next = N[z].next /\ M[z].prev = N[z].prev
      /\ SameBut(M, N, c[i], c[i])
  BY DEF Edited, SameBut
<1>3. Linked(M, K.head, K.tail, c)
  <2>1. \A j \in 1..Len(c) : c[j] \in Chunk
    BY <1>0
  <2>2. \A j \in 1..Len(c) : M[c[j]].next = IF j = Len(c) THEN NULL ELSE c[j + 1]
    BY <1>0, <1>2, <2>1 DEF Linked
  <2>3. \A j \in 2..Len(c) : M[c[j]].prev = c[j - 1]
    <3>1. \A j \in 2..Len(c) : j \in 1..Len(c)
      BY <1>0
    <3> QED
      BY <1>0, <1>2, <2>1, <3>1 DEF Linked
  <2>4. K.head = L.head /\ K.tail = L.tail
    BY DEF Edited
  <2>5. /\ L.head = IF Len(c) = 0 THEN NULL ELSE c[1]
        /\ L.tail = IF Len(c) = 0 THEN NULL ELSE c[Len(c)]
    BY <1>0 DEF Linked
  <2> HIDE DEF M, N
  <2> QED
    BY <1>0, <1>1, <2>2, <2>3, <2>4, <2>5 DEF Linked, M
<1>4. IsList(K, c)
  <2>1. K \in Heap /\ K.free = L.free /\ K.count = L.count /\ K.ok = L.ok
    BY DEF Edited
  <2> QED
    BY <1>0, <1>3, <2>1 DEF IsList
<1>5. Recs(M, c) = Replace(Recs(N, c), i, Rec(M, c[i]))
  <2> HIDE DEF M, N
  <2>1. M \in [Chunk -> Node] /\ N \in [Chunk -> Node]
    BY <1>0, <1>1 DEF M, N
  <2> QED
    BY <1>0, <1>2, <2>1, EditRecs
<1> QED
  BY <1>4, <1>5

SetNumbers(K, L, x, u, v) == K = [L EXCEPT !.node[x].seq_no = u, !.node[x].size = v]

SetSize(K, L, x, v) == K = [L EXCEPT !.node[x].size = v]

\* The assignments of del to the numbers of node x.
LEMMA EditNode ==
  ASSUME NEW L \in Heap, NEW x \in Chunk, NEW u \in Nat, NEW v \in Nat,
         NEW K, SetNumbers(K, L, x, u, v)
  PROVE  /\ Edited(K, L, x)
         /\ Rec(K.node, x) = NewGap(u, v, L.node[x].timestamp)
         /\ K.node[x].size = v
<1> DEFINE N == L.node
           r == [N[x] EXCEPT !.seq_no = u, !.size = v]
           M == [N EXCEPT ![x] = r]
<1>0. N \in [Chunk -> Node] /\ N[x] \in Node
  BY DEF Heap
<1>1. /\ r \in Node /\ r.seq_no = u /\ r.size = v /\ r.timestamp = N[x].timestamp
      /\ r.next = N[x].next /\ r.prev = N[x].prev
  <2> HIDE DEF N
  <2> QED
    BY <1>0 DEF Node
<1> DEFINE A == [L EXCEPT !.node[x].seq_no = u]
           p == [N[x] EXCEPT !.seq_no = u]
<1>9. A = [L EXCEPT !.node = [N EXCEPT ![x] = p]]
  BY <1>0 DEF Heap, Node
<1>10. A.node = [N EXCEPT ![x] = p] /\ A \in Heap
  BY <1>0 DEF Heap, Node
<1>11. K = [A EXCEPT !.node[x].size = v]
  BY DEF SetNumbers
<1>2. K = [L EXCEPT !.node = M]
  BY DEF SetNumbers
<1> HIDE DEF r, N
<1>3. M \in [Chunk -> Node] /\ M[x] = r /\ \A z \in Chunk : z # x => M[z] = N[z]
  BY <1>0, <1>1
<1> HIDE DEF M
<1>4. /\ K \in Heap /\ K.node = M
      /\ K.head = L.head /\ K.tail = L.tail /\ K.free = L.free /\ K.count = L.count /\ K.ok = L.ok
  BY <1>2, <1>3 DEF Heap
<1>5. \A z \in Chunk : M[z].next = N[z].next /\ M[z].prev = N[z].prev
  BY <1>1, <1>3
<1>6. \A z \in Chunk : z # x => Rec(M, z) = Rec(N, z)
  BY <1>3 DEF Rec
<1>7. Rec(M, x) = NewGap(u, v, N[x].timestamp) /\ M[x].size = v
  BY <1>1, <1>3 DEF Rec
<1>8. Edited(K, L, x)
  BY <1>4, <1>5, <1>6 DEF Edited, N
<1> QED
  BY <1>4, <1>7, <1>8 DEF N

\* del's assignment to the size of node x alone.
LEMMA EditSize ==
  ASSUME NEW L \in Heap, NEW x \in Chunk, NEW v \in Nat,
         NEW K, SetSize(K, L, x, v)
  PROVE  /\ Edited(K, L, x)
         /\ Rec(K.node, x) = NewGap(L.node[x].seq_no, v, L.node[x].timestamp)
         /\ K.node[x].size = v
<1> DEFINE N == L.node
           r == [N[x] EXCEPT !.size = v]
           M == [N EXCEPT ![x] = r]
<1>0. N \in [Chunk -> Node] /\ N[x] \in Node
  BY DEF Heap
<1>1. /\ r \in Node /\ r.seq_no = N[x].seq_no /\ r.size = v /\ r.timestamp = N[x].timestamp
      /\ r.next = N[x].next /\ r.prev = N[x].prev
  <2> HIDE DEF N
  <2> QED
    BY <1>0 DEF Node
<1>2. K = [L EXCEPT !.node = M]
  BY DEF SetSize
<1> HIDE DEF r, N
<1>3. M \in [Chunk -> Node] /\ M[x] = r /\ \A z \in Chunk : z # x => M[z] = N[z]
  BY <1>0, <1>1
<1> HIDE DEF M
<1>4. /\ K \in Heap /\ K.node = M
      /\ K.head = L.head /\ K.tail = L.tail /\ K.free = L.free /\ K.count = L.count /\ K.ok = L.ok
  BY <1>2, <1>3 DEF Heap
<1>5. \A z \in Chunk : M[z].next = N[z].next /\ M[z].prev = N[z].prev
  BY <1>1, <1>3
<1>6. \A z \in Chunk : z # x => Rec(M, z) = Rec(N, z)
  BY <1>3 DEF Rec
<1>7. Rec(M, x) = NewGap(N[x].seq_no, v, N[x].timestamp) /\ M[x].size = v
  BY <1>1, <1>3 DEF Rec
<1>8. Edited(K, L, x)
  BY <1>4, <1>5, <1>6 DEF Edited, N
<1> QED
  BY <1>4, <1>7, <1>8 DEF N

\* A record that is replaced and removed is removed.
LEMMA RemoveReplaced ==
  ASSUME NEW g \in Seq(Gap), NEW i \in 1..Len(g), NEW d \in Gap
  PROVE  RemoveRecord(Replace(g, i, d), i) = RemoveRecord(g, i)
<1> DEFINE e == Replace(g, i, d)
           n == Len(g) - 1
<1>0. Len(g) \in Nat /\ n \in Nat
  OBVIOUS
<1>1. e \in Seq(Gap) /\ Len(e) = Len(g) /\ \A k \in 1..Len(g) : k # i => e[k] = g[k]
  BY DEF Replace
<1> HIDE DEF e
<1>2. /\ RemoveRecord(e, i) \in Seq(Gap) /\ Len(RemoveRecord(e, i)) = n
      /\ \A k \in 1..n : RemoveRecord(e, i)[k] = IF k < i THEN e[k] ELSE e[k + 1]
  <2>1. i \in 1..Len(e)
    BY <1>1
  <2> QED
    BY <1>1, <2>1, RemoveRecordElements
<1>3. /\ RemoveRecord(g, i) \in Seq(Gap) /\ Len(RemoveRecord(g, i)) = n
      /\ \A k \in 1..n : RemoveRecord(g, i)[k] = IF k < i THEN g[k] ELSE g[k + 1]
  BY RemoveRecordElements
<1>4. ASSUME NEW k \in 1..n PROVE RemoveRecord(e, i)[k] = RemoveRecord(g, i)[k]
  <2>1. k \in 1..Len(g) /\ k + 1 \in 1..Len(g) /\ (k < i => k # i) /\ (~(k < i) => k + 1 # i)
    BY <1>0
  <2> QED
    BY <1>1, <1>2, <1>3, <2>1
<1>5. RemoveRecord(e, i) = RemoveRecord(g, i)
  BY <1>2, <1>3, <1>4, SameRecords
<1> QED
  BY <1>5 DEF e

\* Splitting a record and then dropping the head, in either order.
LEMMA SplitThenDrop ==
  ASSUME NEW g \in Seq(Gap), NEW i \in 2..Len(g), NEW lo \in Gap, NEW hi \in Gap
  PROVE  SplitRecord(DropPrefix(g, 1), i - 1, lo, hi) = DropPrefix(SplitRecord(g, i, lo, hi), 1)
<1> DEFINE e == DropPrefix(g, 1)
           f == SplitRecord(g, i, lo, hi)
           j == i - 1
           n == Len(g)
           a == SplitRecord(e, j, lo, hi)
           b == DropPrefix(f, 1)
<1>0. n \in Nat /\ 1 \in 0..Len(g) /\ i \in 1..Len(g) /\ j \in 1..(n - 1) /\ n > 0
  OBVIOUS
<1>1. e \in Seq(Gap) /\ Len(e) = n - 1 /\ \A k \in 1..(n - 1) : e[k] = g[1 + k]
  BY <1>0, DropPrefixElements
<1>2. /\ f \in Seq(Gap) /\ Len(f) = n + 1
      /\ \A k \in 1..(n + 1) : f[k] = IF k < i THEN g[k] ELSE IF k = i THEN lo
                                      ELSE IF k = i + 1 THEN hi ELSE g[k - 1]
  <2>1. i \in 1..Len(g)
    BY <1>0
  <2>2. /\ f \in Seq(Gap) /\ Len(f) = Len(g) + 1
        /\ \A k \in 1..(Len(g) + 1) :
             f[k] = IF k < i THEN g[k] ELSE IF k = i THEN lo
                    ELSE IF k = i + 1 THEN hi ELSE g[k - 1]
    BY ONLY g \in Seq(Gap), lo \in Gap, hi \in Gap, <2>1, SplitRecordElements
  <2> QED
    BY <2>2
<1> HIDE DEF e, f
<1>3. /\ a \in Seq(Gap) /\ Len(a) = n
      /\ \A k \in 1..n : a[k] = IF k < j THEN e[k] ELSE IF k = j THEN lo
                                ELSE IF k = j + 1 THEN hi ELSE e[k - 1]
  <2> HIDE DEF j, n
  <2>1. j \in 1..Len(e)
    BY <1>0, <1>1
  <2>2. /\ a \in Seq(Gap) /\ Len(a) = Len(e) + 1
        /\ \A k \in 1..(Len(e) + 1) :
             a[k] = IF k < j THEN e[k] ELSE IF k = j THEN lo
                    ELSE IF k = j + 1 THEN hi ELSE e[k - 1]
    <3>1. e \in Seq(Gap)
      BY <1>1
    <3> QED
      BY ONLY lo \in Gap, hi \in Gap, <2>1, <3>1, SplitRecordElements
  <2>3. Len(e) + 1 = n
    BY <1>0, <1>1
  <2> QED
    BY <2>2, <2>3
<1>4. b \in Seq(Gap) /\ Len(b) = n /\ \A k \in 1..n : b[k] = f[1 + k]
  <2>1. 1 \in 0..Len(f)
    BY <1>0, <1>2
  <2>2. b \in Seq(Gap) /\ Len(b) = Len(f) - 1 /\ \A k \in 1..(Len(f) - 1) : b[k] = f[1 + k]
    BY <1>2, <2>1, DropPrefixElements
  <2>3. Len(f) - 1 = n
    BY <1>0, <1>2
  <2> QED
    BY <2>2, <2>3
<1> HIDE DEF a, b
<1>5. ASSUME NEW k \in 1..n PROVE a[k] = b[k]
  <2>0. b[k] = f[1 + k] /\ 1 + k \in 1..(n + 1)
    BY <1>0, <1>4
  <2>1. CASE k < j
    <3>1. 1 + k < i /\ k \in 1..(n - 1)
      BY <1>0, <2>1
    <3> QED
      BY <1>1, <1>2, <1>3, <2>0, <2>1, <3>1
  <2>2. CASE k = j
    <3>1. 1 + k = i /\ ~(1 + k < i) /\ ~(k < j)
      BY <1>0, <2>2
    <3> QED
      BY <1>2, <1>3, <2>0, <2>2, <3>1
  <2>3. CASE k = j + 1
    <3>1. 1 + k = i + 1 /\ ~(1 + k < i) /\ 1 + k # i /\ ~(k < j) /\ k # j
      BY <1>0, <2>3
    <3> QED
      BY <1>2, <1>3, <2>0, <2>3, <3>1
  <2>4. CASE k > j + 1
    <3>1. /\ 1 + k # i + 1 /\ ~(1 + k < i) /\ 1 + k # i /\ ~(k < j) /\ k # j /\ k # j + 1
          /\ (1 + k) - 1 = k /\ k - 1 \in 1..(n - 1) /\ 1 + (k - 1) = k
      BY <1>0, <2>4
    <3>2. a[k] = e[k - 1] /\ b[k] = g[k]
      BY <1>2, <1>3, <2>0, <3>1
    <3>3. e[k - 1] = g[1 + (k - 1)]
      BY <1>1, <3>1
    <3> QED
      BY <3>1, <3>2, <3>3
  <2> QED
    <3>1. k \in Int /\ j \in Int
      BY <1>0
    <3> QED
      BY <2>1, <2>2, <2>3, <2>4, <3>1
<1>6. a = b
  BY <1>3, <1>4, <1>5, SameRecords
<1> QED
  BY <1>6 DEF a, b, e, f, j

\* A record whose last number is gone leaves the list.
LEMMA UnlinkLeads ==
  ASSUME NEW L, NEW c, IsList(L, c), NEW i \in 1..Len(c), NEW K, Edited(K, L, c[i])
  PROVE  Leads(Unlink(K, c[i]), RemoveRecord(Recs(L.node, c), i))
<1> DEFINE g == Recs(L.node, c)
           d == Rec(K.node, c[i])
           U == Unlink(K, c[i])
           e == RemoveRecord(c, i)
<1>0. c \in Seq(Chunk) /\ Distinct(c) /\ Len(c) \in Nat /\ L.node \in [Chunk -> Node]
  BY ListFacts
<1>1. IsList(K, c) /\ Recs(K.node, c) = Replace(g, i, d)
  BY EditLeads
<1>2. /\ K \in Heap /\ K.ok = TRUE /\ Linked(K.node, K.head, K.tail, c)
      /\ Pool(K.free, c) /\ K.count = Len(c) /\ K.node \in [Chunk -> Node]
  BY <1>1, ListFacts
<1>3. g \in Seq(Gap) /\ Len(g) = Len(c) /\ d \in Gap
  <2>1. c[i] \in Chunk
    BY <1>0
  <2> QED
    BY <1>0, <1>2, <2>1, RecsElements, RecFields
<1>4. /\ U \in Heap /\ U.ok = K.ok /\ U.count = K.count - 1 /\ U.free = <<c[i]>> \o K.free
      /\ Linked(U.node, U.head, U.tail, e)
      /\ Recs(U.node, e) = RemoveRecord(Recs(K.node, c), i)
  BY <1>2, UnlinkLinks
<1>5. Pool(<<c[i]>> \o K.free, e) /\ Len(e) = Len(c) - 1
  <2> DEFINE f == K.free
  <2>1. Pool(f, c)
    BY <1>2
  <2> HIDE DEF f
  <2>2. Pool(<<c[i]>> \o f, RemoveRecord(c, i)) /\ Len(RemoveRecord(c, i)) = Len(c) - 1
    BY <1>0, <2>1, PoolGives
  <2> QED
    BY <2>2 DEF f
<1>6. RemoveRecord(Replace(g, i, d), i) = RemoveRecord(g, i)
  <2> HIDE DEF g, d
  <2> QED
    BY <1>3, RemoveReplaced
<1> HIDE DEF U, e, g, d
<1>7. IsList(U, e)
  BY <1>2, <1>4, <1>5 DEF IsList
<1>8. Recs(U.node, e) = RemoveRecord(g, i)
  BY <1>1, <1>4, <1>6
<1> QED
  BY <1>7, <1>8 DEF Leads, U, g

\* A record is split while the list has room: the upper half takes a free node.
LEMMA SplitLeads ==
  ASSUME NEW L, NEW c, IsList(L, c), Len(c) < GapMax, NEW i \in 1..Len(c),
         NEW s \in Nat, NEW t \in Nat, InMiddle(Rec(L.node, c[i]), s)
  PROVE  /\ Leads(SplitInto(TakeNode(L), c[i], Head(L.free), s, t),
                  SplitRecord(Recs(L.node, c), i, Below(Rec(L.node, c[i]), s),
                              Above(Rec(L.node, c[i]), s, t)))
         /\ SplitInto(TakeNode(L), c[i], Head(L.free), s, t).node[c[i]].size > 0
<1> DEFINE g == Recs(L.node, c)
           q == Rec(L.node, c[i])
           h == Head(L.free)
           T == TakeNode(L)
           d == Insert(c, i, h)
           K == SplitInto(T, c[i], h, s, t)
           e == SplitRecord(g, i, Below(q, s), Above(q, s, t))
<1>0. /\ L \in Heap /\ L.ok = TRUE /\ Linked(L.node, L.head, L.tail, c)
      /\ Pool(L.free, c) /\ L.count = Len(c)
      /\ c \in Seq(Chunk) /\ Distinct(c) /\ Len(c) \in Nat
      /\ L.node \in [Chunk -> Node] /\ L.free \in Seq(Chunk) /\ L.free # <<>>
  BY ListFacts
<1>1. /\ h \in Chunk /\ h \notin ToSet(c) /\ Pool(Tail(L.free), d) /\ Len(d) = Len(c) + 1
      /\ d[i] = c[i] /\ i \in 1..Len(d) /\ d \in Seq(Chunk)
  <2> DEFINE f == L.free
  <2>1. i \in 0..Len(c) /\ f # <<>> /\ Pool(f, c)
    BY <1>0
  <2> HIDE DEF f
  <2>2. Head(f) \in Chunk /\ Head(f) \notin ToSet(c) /\ Pool(Tail(f), Insert(c, i, Head(f)))
    BY <1>0, <2>1, PoolTakes
  <2>3. Len(Insert(c, i, Head(f))) = Len(c) + 1 /\ Insert(c, i, Head(f)) \in Seq(Chunk)
    BY <1>0, <2>1, <2>2, InsertElements
  <2>4. Insert(c, i, Head(f))[i] = c[i] /\ i \in 1..(Len(c) + 1)
    BY <1>0 DEF Insert
  <2> QED
    BY <2>2, <2>3, <2>4 DEF f
<1>2. /\ T \in Heap /\ T.node = L.node /\ T.head = L.head /\ T.tail = L.tail
      /\ T.free = Tail(L.free) /\ T.count = L.count + 1 /\ T.ok = L.ok
  BY <1>0, TakeNodeTakes
<1> HIDE DEF T, h
<1>3. Relinked(K, T, d) /\ Recs(K.node, d) = e
  <2>1. Linked(T.node, T.head, T.tail, c) /\ InMiddle(Rec(T.node, c[i]), s)
    BY <1>0, <1>2
  <2>2. /\ Relinked(K, T, d)
        /\ Recs(K.node, d) = SplitRecord(Recs(T.node, c), i, Below(Rec(T.node, c[i]), s),
                                         Above(Rec(T.node, c[i]), s, t))
    BY <1>1, <1>2, <2>1, SplitIntoLinks
  <2> QED
    BY <1>2, <2>2
<1> HIDE DEF K, d
<1>4. IsList(K, d)
  BY <1>0, <1>1, <1>2, <1>3 DEF Relinked, IsList
<1>5. K.node[c[i]].size > 0
  <2>0. K.node \in [Chunk -> Node]
    BY <1>4, ListFacts
  <2>1. K.node \in [Chunk -> Node] /\ c[i] \in Chunk
    BY <1>0, <2>0
  <2>2. Recs(K.node, d)[i] = Rec(K.node, c[i])
    BY <1>1, <2>1, RecsElements
  <2>3. e[i] = Below(q, s)
    <3>1. i \in 1..(Len(g) + 1)
      BY <1>0, RecsElements
    <3> QED
      BY <3>1 DEF SplitRecord
  <2>4. q \in Gap
    BY <1>0, <2>1, RecFields
  <2> HIDE DEF q, e
  <2>5. Below(q, s).size = s - q.seq_no /\ s - q.seq_no > 0
    BY <2>4 DEF Below, Gap, InMiddle, q
  <2>6. Rec(K.node, c[i]).size > 0
    BY <1>3, <2>2, <2>3, <2>5
  <2> QED
    BY <2>1, <2>6, RecFields
<1> QED
  BY <1>3, <1>4, <1>5 DEF Leads, K, T, h

\* A record off the head is split in a full list: the upper half takes the head's
\* node, which is lost.
LEMMA SplitFullLeads ==
  ASSUME NEW L, NEW c, IsList(L, c), NEW i \in 2..Len(c),
         NEW s \in Nat, NEW t \in Nat, InMiddle(Rec(L.node, c[i]), s),
         NEW P, P = SetPrev([L EXCEPT !.head = L.node[L.head].next], L.node[L.head].next, NULL)
  PROVE  /\ Leads(SplitInto(P, c[i], L.head, s, t),
                  DropPrefix(SplitRecord(Recs(L.node, c), i, Below(Rec(L.node, c[i]), s),
                                         Above(Rec(L.node, c[i]), s, t)), 1))
         /\ SplitInto(P, c[i], L.head, s, t).node[c[i]].size > 0
<1> DEFINE g == Recs(L.node, c)
           q == Rec(L.node, c[i])
           h == L.head
           e == DropPrefix(c, 1)
           j == i - 1
           d == Insert(e, j, h)
           K == SplitInto(P, c[i], h, s, t)
<1>0. /\ L \in Heap /\ L.ok = TRUE /\ Linked(L.node, L.head, L.tail, c)
      /\ Pool(L.free, c) /\ L.count = Len(c)
      /\ c \in Seq(Chunk) /\ Distinct(c) /\ Len(c) \in Nat
      /\ L.node \in [Chunk -> Node] /\ L.free \in Seq(Chunk)
  BY ListFacts
<1>1. /\ 1 \in 1..Len(c) /\ 2 \in 1..Len(c) /\ Len(c) >= 2 /\ Len(c) > 0 /\ 1 # Len(c)
      /\ i \in 1..Len(c) /\ 1 \in 0..Len(c) /\ j \in 0..(Len(c) - 1) /\ j \in 1..(Len(c) - 1)
      /\ 1 + j = i
  BY <1>0
<1>2. h = c[1] /\ h \in Chunk /\ L.node[h].next = c[2] /\ c[2] \in Chunk /\ c[2] # NULL
  <2>0. /\ \A k \in 1..Len(c) : c[k] \in Chunk /\ c[k] # NULL
        /\ Len(c) > 0 => L.head = c[1]
    BY <1>0, LinkedEnds
  <2>1. L.head = c[1] /\ c[1] \in Chunk /\ c[2] # NULL /\ c[2] \in Chunk
    BY <1>1, <2>0
  <2>2. L.node[c[1]].next = c[1 + 1]
    BY <1>0, <1>1 DEF Linked
  <2> QED
    BY <2>1, <2>2
<1>3. /\ P \in Heap /\ P.node = [L.node EXCEPT ![c[2]].prev = NULL] /\ P.head = c[2]
      /\ P.tail = L.tail /\ P.free = L.free /\ P.count = L.count /\ P.ok = L.ok
  <2> DEFINE A == [L EXCEPT !.head = c[2]]
             y == c[2]
  <2>1. y \in Ptr /\ NULL \in Ptr
    BY <1>2 DEF Ptr
  <2>2. A \in Heap /\ A.node = L.node /\ A.head = c[2] /\ A.tail = L.tail /\ A.free = L.free
        /\ A.count = L.count /\ A.ok = L.ok
    BY <1>0, <2>1 DEF Heap
  <2>3. P = [A EXCEPT !.node[y].prev = NULL]
    BY <1>2 DEF SetPrev
  <2> HIDE DEF A
  <2> DEFINE r == [A.node[y] EXCEPT !.prev = NULL]
             M == [A.node EXCEPT ![y] = r]
  <2>4. A.node[y] \in Node
    BY <1>0, <1>2, <2>2
  <2>5. r \in Node
    BY <2>1, <2>4 DEF Node
  <2>6. P = [A EXCEPT !.node = M]
    BY <2>3
  <2>7. M = [L.node EXCEPT ![y].prev = NULL]
    BY <2>2
  <2> HIDE DEF r
  <2>8. M \in [Chunk -> Node]
    BY <1>0, <1>2, <2>2, <2>5
  <2> HIDE DEF M
  <2>9. /\ P \in Heap /\ P.node = M /\ P.head = A.head
        /\ P.tail = A.tail /\ P.free = A.free /\ P.count = A.count /\ P.ok = A.ok
    BY <2>2, <2>6, <2>8 DEF Heap
  <2> QED
    BY <2>2, <2>7, <2>9
<1>4. /\ Relinked(P, L, e) /\ Recs(P.node, e) = DropPrefix(g, 1)
      /\ \A z \in Chunk : Rec(P.node, z) = Rec(L.node, z)
  <2> DEFINE M == P.node
  <2>1. P.node = M /\ SetPrevOf(M, L.node, c[2], NULL)
    BY <1>3 DEF SetPrevOf
  <2> HIDE DEF M
  <2> QED
    BY ONLY <1>0, <1>1, <1>3, <2>1, PopLinks
<1>5. /\ h \notin ToSet(e) /\ Pool(L.free, d) /\ Len(d) = Len(c) /\ Len(e) = Len(c) - 1
      /\ e \in Seq(Chunk)
  <2> DEFINE f == L.free
  <2>1. Pool(f, c)
    BY <1>0
  <2> HIDE DEF f, j
  <2>2. /\ c[1] \notin ToSet(DropPrefix(c, 1))
        /\ DropPrefix(c, 1) \in Seq(Chunk)
        /\ Len(DropPrefix(c, 1)) = Len(c) - 1
        /\ Pool(f, Insert(DropPrefix(c, 1), j, c[1]))
        /\ Len(Insert(DropPrefix(c, 1), j, c[1])) = Len(c)
    BY <1>0, <1>1, <2>1, PoolRotates
  <2> QED
    BY <1>2, <2>2 DEF f
<1>6. e[j] = c[i] /\ j \in 1..Len(e)
  BY <1>1, <1>5 DEF DropPrefix
<1>7. d[j] = c[i] /\ d \in Seq(Chunk) /\ j \in 1..Len(d)
  <2> HIDE DEF j, e, h
  <2>1. j \in 0..Len(e) /\ j \in 1..(Len(e) + 1) /\ j <= j
    BY <1>0, <1>1, <1>5
  <2>2. d \in Seq(Chunk) /\ Len(d) = Len(e) + 1
    BY <1>2, <1>5, <2>1, InsertElements
  <2>3. d[j] = e[j]
    BY <2>1 DEF Insert
  <2> QED
    BY <1>6, <2>1, <2>2, <2>3
<1> HIDE DEF e, j, h
<1>8. /\ Relinked(K, P, d)
      /\ Recs(K.node, d) = SplitRecord(DropPrefix(g, 1), j, Below(q, s), Above(q, s, t))
  <2>1. Linked(P.node, P.head, P.tail, e)
    BY <1>4 DEF Relinked
  <2>0. c[i] \in Chunk
    BY <1>0, <1>1
  <2>2. Rec(P.node, e[j]) = q
    BY <1>4, <1>6, <2>0
  <2>3. InMiddle(Rec(P.node, e[j]), s)
    BY <2>2
  <2>4. /\ Relinked(SplitInto(P, e[j], h, s, t), P, d)
        /\ Recs(SplitInto(P, e[j], h, s, t).node, d) =
             SplitRecord(Recs(P.node, e), j, Below(Rec(P.node, e[j]), s),
                         Above(Rec(P.node, e[j]), s, t))
    <3>1. h \in Chunk /\ h \notin ToSet(e) /\ P \in Heap /\ j \in 1..Len(e)
      BY <1>2, <1>3, <1>5, <1>6
    <3> QED
      BY <2>1, <2>3, <3>1, SplitIntoLinks
  <2> QED
    BY <1>4, <1>6, <2>2, <2>4
<1>9. q \in Gap /\ g \in Seq(Gap) /\ Len(g) = Len(c)
  BY <1>0, <1>1, RecFields, RecsElements
<1>14. InMiddle(q, s)
  OBVIOUS
<1> HIDE DEF K, d, q, g
<1>10. /\ Below(q, s) \in Gap /\ Above(q, s, t) \in Gap
       /\ Below(q, s).size = s - q.seq_no /\ s - q.seq_no > 0
  <2>1. q.seq_no \in Nat /\ q.size \in Nat /\ q.timestamp \in Nat
    BY <1>9 DEF Gap
  <2>2. s - q.seq_no \in Nat /\ s - q.seq_no > 0 /\ q.size - (s - q.seq_no) - 1 \in Nat
    <3> DEFINE u == q.seq_no
               v == q.size
    <3>1. u \in Nat /\ v \in Nat /\ u < s /\ s < u + v - 1
      BY <1>14, <2>1 DEF InMiddle
    <3> HIDE DEF u, v
    <3>2. s - u \in Nat /\ s - u > 0 /\ v - (s - u) - 1 \in Nat
      BY ONLY s \in Nat, <3>1
    <3> QED
      BY <3>2 DEF u, v
  <2>3. Below(q, s) \in Gap /\ Below(q, s).size = s - q.seq_no
    BY ONLY <1>9, <2>1, <2>2 DEF Below, Gap
  <2>4. Above(q, s, t) \in Gap
    BY ONLY s \in Nat, t \in Nat, <2>2 DEF Above, NewGap, Gap
  <2> QED
    BY <2>2, <2>3, <2>4
<1>11. IsList(K, d)
  BY <1>0, <1>3, <1>5, <1>8 DEF Relinked, IsList
<1>12. SplitRecord(DropPrefix(g, 1), j, Below(q, s), Above(q, s, t)) =
         DropPrefix(SplitRecord(g, i, Below(q, s), Above(q, s, t)), 1)
  <2> DEFINE lo == Below(q, s)
             hi == Above(q, s, t)
  <2>1. lo \in Gap /\ hi \in Gap /\ i \in 2..Len(g)
    BY <1>9, <1>10
  <2> HIDE DEF lo, hi
  <2>2. SplitRecord(DropPrefix(g, 1), i - 1, lo, hi) = DropPrefix(SplitRecord(g, i, lo, hi), 1)
    BY <1>9, <2>1, SplitThenDrop
  <2> QED
    BY <2>2 DEF lo, hi, j
<1>13. K.node[c[i]].size > 0
  <2>0. K.node \in [Chunk -> Node]
    BY <1>11, ListFacts
  <2>1. K.node \in [Chunk -> Node] /\ c[i] \in Chunk
    BY <1>0, <1>1, <2>0
  <2>2. Recs(K.node, d)[j] = Rec(K.node, c[i])
    BY <1>7, <2>1, RecsElements
  <2>3. SplitRecord(DropPrefix(g, 1), j, Below(q, s), Above(q, s, t))[j] = Below(q, s)
    <3>0. Len(DropPrefix(g, 1)) = Len(g) - 1
      BY <1>1, <1>9, DropPrefixElements
    <3>1. j \in 1..(Len(DropPrefix(g, 1)) + 1)
      BY <1>0, <1>1, <1>9, <3>0
    <3> QED
      BY <1>1, <3>1 DEF SplitRecord
  <2>6. Rec(K.node, c[i]).size > 0
    BY <1>8, <1>10, <2>2, <2>3
  <2> QED
    BY <2>1, <2>6, RecFields
<1> QED
  BY <1>8, <1>11, <1>12, <1>13 DEF Leads, K, h, q, g

\* The numbers of a record that covers s.
LEMMA CoveredBy ==
  ASSUME NEW q \in Gap, NEW s \in Nat, s \in Span(q)
  PROVE  /\ q.seq_no \in Nat /\ q.size \in Nat /\ q.timestamp \in Nat /\ q.size >= 1
         /\ q.seq_no <= s /\ s <= q.seq_no + q.size - 1
         /\ q.size = 1 => s = q.seq_no
         /\ InMiddle(q, s) <=> s # q.seq_no /\ s # q.seq_no + q.size - 1
         /\ s = q.seq_no => Above(q, s, q.timestamp) = NewGap(q.seq_no + 1, q.size - 1, q.timestamp)
         /\ s = q.seq_no + q.size - 1 /\ s # q.seq_no =>
              Below(q, s) = NewGap(q.seq_no, q.size - 1, q.timestamp) /\ q.size - 1 > 0
<1>1. q.seq_no \in Nat /\ q.size \in Nat /\ q.timestamp \in Nat
  BY DEF Gap
<1>2. q.seq_no <= s /\ s <= q.seq_no + q.size - 1
  BY <1>1 DEF Span
<1> DEFINE u == q.seq_no
           v == q.size
           w == q.timestamp
<1>3. q = NewGap(u, v, w)
  BY DEF NewGap, Gap
<1>4. InMiddle(q, s) <=> u < s /\ s < u + v - 1
  BY DEF InMiddle
<1>5. Above(q, s, w) = NewGap(s + 1, v - (s - u) - 1, w)
  BY DEF Above
<1>6. Below(q, s) = NewGap(u, s - u, w)
  BY <1>1 DEF Below, NewGap, Gap
<1>7. u \in Nat /\ v \in Nat /\ u <= s /\ s <= u + v - 1
  BY <1>1, <1>2
<1> HIDE DEF u, v, w
<1>8. /\ v >= 1 /\ (v = 1 => s = u)
      /\ u < s /\ s < u + v - 1 <=> s # u /\ s # u + v - 1
      /\ s = u => s + 1 = u + 1 /\ v - (s - u) - 1 = v - 1
      /\ s = u + v - 1 /\ s # u => s - u = v - 1 /\ v - 1 > 0
  BY <1>7
<1> QED
  BY <1>1, <1>2, <1>4, <1>5, <1>6, <1>8 DEF u, v, w

\* A record is trimmed to K's, or leaves when nothing is left of it.
LEMMA TrimLeads ==
  ASSUME NEW L, NEW c, IsList(L, c), NEW i \in 1..Len(c), NEW K, Edited(K, L, c[i])
  PROVE  Leads(K, Replace(Recs(L.node, c), i, Rec(K.node, c[i])))
<1>1. IsList(K, c) /\ Recs(K.node, c) = Replace(Recs(L.node, c), i, Rec(K.node, c[i]))
  BY EditLeads
<1> QED
  BY <1>1 DEF Leads

\* The two ends of a record: del trims it, or removes a record of one number.
LEMMA DelEndLeads ==
  ASSUME NEW L, NEW c, IsList(L, c), NEW i \in 1..Len(c), NEW s \in Nat,
         s \in Span(Rec(L.node, c[i])), ~InMiddle(Rec(L.node, c[i]), s)
  PROVE  /\ Leads(HeapDel(L, c[i], s).list, DelGap(Recs(L.node, c), i, s))
         /\ HeapDel(L, c[i], s).rc = 0
<1> DEFINE g == Recs(L.node, c)
           x == c[i]
           a == L.node[x]
           q == Rec(L.node, x)
           R == HeapDel(L, x, s)
           u == a.seq_no
           v == a.size
<1>0. L \in Heap /\ c \in Seq(Chunk) /\ L.node \in [Chunk -> Node] /\ x \in Chunk
  <2>1. L \in Heap /\ c \in Seq(Chunk) /\ L.node \in [Chunk -> Node]
    BY ListFacts
  <2> QED
    BY <2>1
<1>1. q \in Gap /\ q.seq_no = u /\ q.size = v /\ q.timestamp = a.timestamp
  BY <1>0, RecFields
<1>2. g[i] = q /\ g \in Seq(Gap) /\ Len(g) = Len(c)
  BY <1>0, RecsElements
<1> HIDE DEF q, g
<1>3. /\ u \in Nat /\ v \in Nat /\ a.timestamp \in Nat /\ v >= 1 /\ u <= s
      /\ v = 1 => s = u
      /\ s = u \/ s = u + v - 1
      /\ s = u => Above(q, s, q.timestamp) = NewGap(u + 1, v - 1, a.timestamp)
      /\ s = u + v - 1 /\ s # u => Below(q, s) = NewGap(u, v - 1, a.timestamp) /\ v - 1 > 0
  <2>1. s \in Span(q) /\ ~InMiddle(q, s)
    BY DEF q
  <2> QED
    BY <1>1, <2>1, CoveredBy
<1> DEFINE w == v - 1
<1>4. w \in Nat /\ (w = 0 <=> v = 1)
  BY <1>3
<1>5. CASE s = u
  <2> DEFINE K == [L EXCEPT !.node[x].seq_no = @ + 1, !.node[x].size = @ - 1]
             up == u + 1
  <2>1. SetNumbers(K, L, x, up, w)
    <3>1. L.node[x] \in Node
      BY <1>0
    <3> QED
      BY <1>0, <3>1 DEF Heap, Node, SetNumbers
  <2>2. R = IF K.node[x].size = 0 THEN [list |-> Unlink(K, x), rc |-> 0, node |-> NULL]
            ELSE [list |-> K, rc |-> 0, node |-> x]
    BY <1>5 DEF HeapDel
  <2>3. up \in Nat
    BY <1>3
  <2> HIDE DEF K, w, up
  <2>4. Edited(K, L, x) /\ Rec(K.node, x) = NewGap(up, w, a.timestamp) /\ K.node[x].size = w
    BY <1>0, <1>4, <2>1, <2>3, EditNode
  <2>5. CASE v = 1
    <3>1. R = [list |-> Unlink(K, x), rc |-> 0, node |-> NULL]
      BY <1>4, <2>2, <2>4, <2>5
    <3>2. Leads(Unlink(K, x), RemoveRecord(g, i))
      BY <2>4, UnlinkLeads DEF g
    <3>3. DelGap(g, i, s) = RemoveRecord(g, i)
      BY <1>1, <1>2, <2>5 DEF DelGap
    <3> HIDE DEF R
    <3> QED
      BY <3>1, <3>2, <3>3 DEF R, g
  <2>6. CASE v # 1
    <3>1. R = [list |-> K, rc |-> 0, node |-> x]
      BY <1>4, <2>2, <2>4, <2>6
    <3>2. Leads(K, Replace(g, i, Rec(K.node, x)))
      BY <2>4, TrimLeads DEF g
    <3>3. DelGap(g, i, s) = Replace(g, i, Above(q, s, q.timestamp))
      BY <1>1, <1>2, <1>5, <2>6 DEF DelGap, Replace
    <3>4. Above(q, s, q.timestamp) = Rec(K.node, x)
      BY <1>3, <1>5, <2>4 DEF up, w
    <3> HIDE DEF R
    <3> QED
      BY <3>1, <3>2, <3>3, <3>4 DEF R, g
  <2> QED
    BY <2>5, <2>6
<1>6. CASE s # u
  <2> DEFINE K == [L EXCEPT !.node[x].size = @ - 1]
  <2>0. s = u + v - 1 /\ Below(q, s) = NewGap(u, w, a.timestamp) /\ w > 0 /\ v # 1
    BY <1>3, <1>6
  <2>1. SetSize(K, L, x, w)
    <3>1. L.node[x] \in Node
      BY <1>0
    <3> QED
      BY <1>0, <3>1 DEF Heap, Node, SetSize
  <2>2. R = IF K.node[x].size = 0 THEN [list |-> Unlink(K, x), rc |-> 0, node |-> NULL]
            ELSE [list |-> K, rc |-> 0, node |-> x]
    BY <1>6, <2>0 DEF HeapDel
  <2> HIDE DEF K, w
  <2>4. Edited(K, L, x) /\ Rec(K.node, x) = NewGap(u, w, a.timestamp) /\ K.node[x].size = w
    <3>1. w \in Nat /\ L \in Heap /\ x \in Chunk
      BY <1>0, <1>4
    <3> HIDE DEF x
    <3>2. Edited(K, L, x) /\ Rec(K.node, x) = NewGap(L.node[x].seq_no, w, L.node[x].timestamp)
          /\ K.node[x].size = w
      BY <2>1, <3>1, EditSize
    <3> QED
      BY <3>2
  <2>5. R = [list |-> K, rc |-> 0, node |-> x]
    BY <1>4, <2>0, <2>2, <2>4
  <2>6. Leads(K, Replace(g, i, Rec(K.node, x)))
    BY <2>4, TrimLeads DEF g
  <2>7. DelGap(g, i, s) = Replace(g, i, Below(q, s))
    BY <1>1, <1>2, <1>6, <2>0 DEF DelGap, Replace
  <2> HIDE DEF R
  <2> QED
    BY <2>0, <2>4, <2>5, <2>6, <2>7 DEF R, g
<1> QED
  BY <1>5, <1>6

\* del leaves a list whose records are those of DelGap, and returns its code.
LEMMA DelLeads ==
  ASSUME NEW L, NEW c, IsList(L, c), NEW s \in Nat, NEW i, FindGap(Recs(L.node, c), s, i)
  PROVE  /\ Leads(HeapDel(L, c[i], s).list, DelGap(Recs(L.node, c), i, s))
         /\ HeapDel(L, c[i], s).rc = DelLost(Recs(L.node, c), i, s)
<1> DEFINE g == Recs(L.node, c)
           x == c[i]
           a == L.node[x]
           q == Rec(L.node, x)
           R == HeapDel(L, x, s)
           u == a.seq_no
           v == a.size
<1>0. /\ L \in Heap /\ L.ok = TRUE /\ Linked(L.node, L.head, L.tail, c)
      /\ c \in Seq(Chunk) /\ Distinct(c) /\ Len(c) \in Nat /\ Len(c) <= GapMax
      /\ L.node \in [Chunk -> Node] /\ L.count = Len(c)
      /\ Len(c) < GapMax => L.free # <<>>
  BY ListFacts
<1>1. g \in Seq(Gap) /\ Len(g) = Len(c) /\ \A j \in 1..Len(c) : g[j] = Rec(L.node, c[j])
  BY <1>0, RecsElements
<1>2. i \in 1..Len(c) /\ x \in Chunk /\ g[i] = q /\ s \in Span(q)
  BY <1>0, <1>1 DEF FindGap
<1>3. q \in Gap /\ q.seq_no = u /\ q.size = v /\ q.timestamp = a.timestamp
  BY <1>0, <1>2, RecFields
<1>4. GapMax \in Nat
  BY GapAssumption
<1>5. CASE ~InMiddle(q, s)
  <2>1. DelLost(g, i, s) = 0
    BY <1>2, <1>5 DEF DelLost
  <2>2. Leads(R.list, DelGap(g, i, s)) /\ R.rc = 0
    BY <1>2, <1>5, DelEndLeads
  <2> HIDE DEF R, g
  <2> QED
    BY <2>1, <2>2 DEF R, g
<1>6. CASE InMiddle(q, s)
  <2>1. /\ u \in Nat /\ v \in Nat /\ a.timestamp \in Nat /\ u <= s
        /\ s # u /\ s # u + v - 1 /\ v # 1
    <3>1. /\ q.seq_no \in Nat /\ q.size \in Nat /\ q.timestamp \in Nat
          /\ q.seq_no <= s /\ (q.size = 1 => s = q.seq_no)
          /\ s # q.seq_no /\ s # q.seq_no + q.size - 1
      <4> HIDE DEF q
      <4> QED
        BY <1>2, <1>3, <1>6, CoveredBy
    <3> HIDE DEF q
    <3> QED
      BY <1>3, <3>1
  <2>2. InMiddle(a, s)
    BY <1>3, <1>6 DEF InMiddle
  <2> DEFINE D == DelMiddle(L, x, s)
  <2>3. R = IF D.list.node[x].size = 0
              THEN [list |-> Unlink(D.list, x), rc |-> D.rc, node |-> NULL] ELSE D
    <3>1. ~(a.seq_no = s) /\ ~(a.seq_no + a.size - 1 = s)
      BY <2>1
    <3> QED
      BY <2>2, <3>1 DEF HeapDel
  <2>4. DelGap(g, i, s) =
          IF ~ListFull(g) THEN SplitRecord(g, i, Below(q, s), Above(q, s, q.timestamp))
          ELSE IF i = 1 THEN Replace(g, i, Above(q, s, q.timestamp))
          ELSE DropPrefix(SplitRecord(g, i, Below(q, s), Above(q, s, g[1].timestamp)), 1)
    <3>1. ~(q.size = 1) /\ ~(s = q.seq_no) /\ ~(s = q.seq_no + q.size - 1)
      BY <1>3, <2>1
    <3> HIDE DEF q, g
    <3> QED
      BY <1>2, <3>1 DEF DelGap, Replace
  <2>5. DelLost(g, i, s) = IF ~ListFull(g) THEN 0 ELSE IF i = 1 THEN s - u ELSE v
    <3> HIDE DEF q, g
    <3> QED
      BY <1>2, <1>3, <1>6 DEF DelLost
  <2> HIDE DEF R
  <2>6. CASE Len(c) < GapMax
    <3> DEFINE t == a.timestamp
               K == SplitInto(TakeNode(L), x, Head(L.free), s, t)
    <3>0. ~ListFull(g)
      BY <1>0, <1>1, <1>4, <2>6 DEF ListFull
    <3>1. D = [list |-> K, rc |-> 0, node |-> Head(L.free)]
      <4>1. ~(L.count >= GapMax) /\ ~PoolEmpty(L)
        BY <1>0, <1>4, <2>6 DEF PoolEmpty
      <4> QED
        BY <4>1 DEF DelMiddle
    <3>2. /\ Leads(K, SplitRecord(g, i, Below(q, s), Above(q, s, t)))
          /\ K.node[x].size > 0
      <4>1. t \in Nat
        BY <2>1
      <4> HIDE DEF t
      <4> QED
        BY <1>2, <1>6, <2>6, <4>1, SplitLeads
    <3> HIDE DEF K, D, g, q
    <3>3. R = D
      BY <2>3, <3>1, <3>2
    <3> QED
      BY <1>3, <2>4, <2>5, <3>0, <3>1, <3>2, <3>3 DEF R, g
  <2>7. CASE Len(c) = GapMax
    <3>0. ListFull(g) /\ L.count >= GapMax
      BY <1>0, <1>1, <1>4, <2>7 DEF ListFull
    <3>1. L.head = c[1] /\ 1 \in 1..Len(c) /\ c[1] \in Chunk
      <4>1. 1 \in 1..Len(c) /\ Len(c) > 0
        BY <1>0, <1>2
      <4>2. Len(c) > 0 => L.head = c[1]
        BY <1>0, LinkedEnds
      <4> QED
        BY <1>0, <4>1, <4>2
    <3>2. CASE i = 1
      <4> DEFINE K == CutHead(L, x, s)
                 up == s + 1
                 w == v - (s - u + 1)
      <4>1. D = [list |-> K, rc |-> s - u, node |-> x]
        BY <3>0, <3>1, <3>2 DEF DelMiddle
      <4>2. SetNumbers(K, L, x, up, w)
        <5>1. L.node[x] \in Node
          BY <1>0, <1>2
        <5> QED
          BY <1>0, <1>2, <5>1 DEF Heap, Node, SetNumbers, CutHead
      <4>3. /\ up \in Nat /\ w \in Nat /\ w # 0
            /\ Above(q, s, q.timestamp) = NewGap(up, w, a.timestamp)
        <5>1. u < s /\ s < u + v - 1
          BY <2>2 DEF InMiddle
        <5>2. Above(q, s, q.timestamp) = NewGap(s + 1, v - (s - u) - 1, a.timestamp)
          <6> HIDE DEF q
          <6> QED
            BY <1>3 DEF Above
        <5>3. u \in Nat /\ v \in Nat
          BY <2>1
        <5> HIDE DEF u, v
        <5>4. up \in Nat /\ w \in Nat /\ w # 0 /\ v - (s - u) - 1 = w
          BY <5>1, <5>3
        <5> QED
          BY <5>2, <5>4
      <4> HIDE DEF K, w, up
      <4>4. Edited(K, L, x) /\ Rec(K.node, x) = NewGap(up, w, a.timestamp) /\ K.node[x].size = w
        BY <1>0, <1>2, <4>2, <4>3, EditNode
      <4>5. Leads(K, Replace(g, i, Rec(K.node, x)))
        BY <1>2, <4>4, TrimLeads
      <4> HIDE DEF D, g, q
      <4>6. R = D
        BY <2>3, <4>1, <4>3, <4>4
      <4> QED
        BY <2>4, <2>5, <3>0, <3>2, <4>1, <4>3, <4>4, <4>5, <4>6 DEF R, g
    <3>3. CASE i # 1
      <4> DEFINE h == L.head
                 t == L.node[h].timestamp
                 up == L.node[h].next
                 P == SetPrev([L EXCEPT !.head = up], up, NULL)
                 K == SplitInto(P, x, h, s, t)
      <4>0. i \in 2..Len(c) /\ x # L.head
        BY <1>0, <1>2, <3>1, <3>3 DEF Distinct
      <4>1. D = [list |-> K, rc |-> v, node |-> h]
        BY <3>0, <4>0 DEF DelMiddle
      <4>2. t \in Nat /\ t = g[1].timestamp
        <5>1. L.node[h] \in Node /\ g[1] = Rec(L.node, h)
          BY <1>0, <1>1, <3>1
        <5>2. Rec(L.node, h).timestamp = t
          BY <1>0, <3>1, RecFields
        <5> QED
          BY <5>1, <5>2 DEF Node
      <4>3. /\ Leads(K, DropPrefix(SplitRecord(g, i, Below(q, s), Above(q, s, t)), 1))
            /\ K.node[x].size > 0
        <5>1. P = SetPrev([L EXCEPT !.head = L.node[L.head].next], L.node[L.head].next, NULL)
          OBVIOUS
        <5>2. t \in Nat
          BY <4>2
        <5> HIDE DEF P, t
        <5> QED
          BY <1>6, <4>0, <5>1, <5>2, SplitFullLeads
      <4> HIDE DEF K, D, g, q, t
      <4>4. R = D
        BY <2>3, <4>1, <4>3
      <4> QED
        BY <2>4, <2>5, <3>0, <3>3, <4>1, <4>2, <4>3, <4>4 DEF R, g
    <3> QED
      BY <3>2, <3>3
  <2> QED
    BY <1>0, <1>4, <2>6, <2>7
<1> QED
  BY <1>5, <1>6

-----------------------------------------------------------------------------
(* flush.                                                                   *)

\* There is always a last expired record before the first that is not.
LEMMA SomeExpired ==
  ASSUME NEW g \in Seq(Gap), NEW t
  PROVE  \E k \in 0..Len(g) : ExpiredPrefix(g, t, k)
<1> DEFINE S == {n \in 0..Len(g) : n = Len(g) \/ ~Expired(g[n + 1], t)}
<1>0. Len(g) \in Nat
  OBVIOUS
<1>1. S # {} /\ S \in SUBSET Nat
  BY <1>0
<1>2. PICK k \in S : \A j \in S : k <= j
  <2> HIDE DEF S
  <2> QED
    BY <1>1, SF!LeastNumber
<1>3. k \in 0..Len(g) /\ (k < Len(g) => ~Expired(g[k + 1], t))
  BY <1>0
<1>4. ASSUME NEW j \in 1..k PROVE Expired(g[j], t)
  <2>1. j - 1 \in 0..Len(g) /\ ~(k <= j - 1) /\ j - 1 # Len(g) /\ (j - 1) + 1 = j
    BY <1>0, <1>3
  <2>2. j - 1 \notin S
    <3> HIDE DEF S
    <3> QED
      BY <1>2, <2>1
  <2> QED
    BY <2>1, <2>2
<1>5. ExpiredPrefix(g, t, k)
  BY <1>3, <1>4 DEF ExpiredPrefix
<1> QED
  BY <1>3, <1>5

\* K is L with its first k chunks taken off.
TakenOff(K, L, c, k) ==
  /\ K \in Heap /\ K.ok = L.ok /\ K.count = L.count - k
  /\ K.free = Reverse(SubSeq(c, 1, k)) \o L.free
  /\ K.head = IF k = Len(c) THEN NULL ELSE c[k + 1]
  /\ K.tail = IF k = Len(c) THEN NULL ELSE L.tail
  /\ HeadsFreed(K.node, L.node, c, k)
  /\ SameBut(K.node, L.node, NULL, NULL)

\* Taking the first chunks off a list leaves a list.
LEMMA TakeOffLeads ==
  ASSUME NEW L, NEW c, IsList(L, c), NEW k \in 0..Len(c), NEW K, TakenOff(K, L, c, k)
  PROVE  Leads(K, DropPrefix(Recs(L.node, c), k))
<1> DEFINE d == DropPrefix(c, k)
<1>0. /\ L \in Heap /\ L.ok = TRUE /\ Linked(L.node, L.head, L.tail, c)
      /\ Pool(L.free, c) /\ L.count = Len(c)
      /\ c \in Seq(Chunk) /\ Distinct(c) /\ Len(c) \in Nat
      /\ L.node \in [Chunk -> Node]
  BY ListFacts
<1>1. /\ K \in Heap /\ K.ok = L.ok /\ K.count = L.count - k
      /\ K.free = Reverse(SubSeq(c, 1, k)) \o L.free
      /\ K.head = (IF k = Len(c) THEN NULL ELSE c[k + 1])
      /\ K.tail = (IF k = Len(c) THEN NULL ELSE L.tail)
      /\ HeadsFreed(K.node, L.node, c, k)
      /\ SameBut(K.node, L.node, NULL, NULL)
  BY DEF TakenOff
<1>2. Linked(K.node, K.head, K.tail, d)
  <2>1. Linked(K.node, IF k = Len(c) THEN NULL ELSE c[k + 1],
               IF k = Len(c) THEN NULL ELSE L.tail, d)
    BY <1>0, <1>1, DropLinked
  <2> QED
    BY <1>1, <2>1
<1>3. Pool(K.free, d) /\ Len(d) = Len(c) - k
  <2> DEFINE f == L.free
  <2>1. Pool(f, c)
    BY <1>0
  <2> HIDE DEF f
  <2>2. Pool(Reverse(SubSeq(c, 1, k)) \o f, d)
    BY <1>0, <2>1, PoolGivesHeads
  <2>3. Len(d) = Len(c) - k
    BY <1>0, DropElements
  <2> QED
    BY <1>1, <2>2, <2>3 DEF f
<1>4. Recs(K.node, d) = DropPrefix(Recs(L.node, c), k)
  <2>1. K.node \in [Chunk -> Node]
    BY <1>1 DEF HeadsFreed
  <2> DEFINE M == K.node
             N == L.node
  <2>2. M \in [Chunk -> Node] /\ N \in [Chunk -> Node] /\ SameBut(M, N, NULL, NULL)
    BY <1>0, <1>1, <2>1
  <2> HIDE DEF M, N
  <2>3. Recs(M, DropPrefix(c, k)) = DropPrefix(Recs(N, c), k)
    BY <1>0, <2>2, DropRecs
  <2> QED
    BY <2>3 DEF M, N
<1> HIDE DEF d
<1>5. IsList(K, d)
  BY <1>0, <1>1, <1>2, <1>3 DEF IsList
<1> QED
  BY <1>4, <1>5 DEF Leads

\* flush leaves a list without the expired records, and returns their sizes.
LEMMA FlushLeads ==
  ASSUME NEW L, NEW c, IsList(L, c), NEW t
  PROVE  \E k \in 0..Len(Recs(L.node, c)) :
           /\ ExpiredPrefix(Recs(L.node, c), t, k)
           /\ Leads(HeapFlush(L, t).list, DropPrefix(Recs(L.node, c), k))
           /\ HeapFlush(L, t).rc = Sizes(SubSeq(Recs(L.node, c), 1, k))
<1> DEFINE g == Recs(L.node, c)
           k == CHOOSE n \in 0..Len(c) : ExpiredPrefix(g, t, n)
           heads == {c[j] : j \in 2..(IF k < Len(c) THEN k + 1 ELSE k)}
           rest == IF k = Len(c) THEN NULL ELSE c[k + 1]
           N == L.node
           R == HeapFlush(L, t)
<1>0. /\ L \in Heap /\ L.ok = TRUE /\ Linked(L.node, L.head, L.tail, c)
      /\ Pool(L.free, c) /\ L.count = Len(c)
      /\ c \in Seq(Chunk) /\ Distinct(c) /\ Len(c) \in Nat /\ L.free \in Seq(Chunk)
      /\ N \in [Chunk -> Node] /\ Records(L) = g /\ Chain(L) = c
  BY ListFacts
<1>1. g \in Seq(Gap) /\ Len(g) = Len(c)
  BY <1>0, RecsElements
<1>2. k \in 0..Len(c) /\ ExpiredPrefix(g, t, k)
  <2> HIDE DEF g
  <2>1. \E n \in 0..Len(g) : ExpiredPrefix(g, t, n)
    BY <1>1, SomeExpired
  <2> QED
    BY <1>1, <2>1
<1> DEFINE tl == IF rest = NULL THEN NULL ELSE L.tail
           cnt == L.count - k
           f == Reverse(SubSeq(c, 1, k)) \o L.free
           M == [x \in Chunk |-> IF k > 0 /\ x \in heads
                                 THEN [N[x] EXCEPT !.prev = NULL] ELSE N[x]]
           K == [L EXCEPT !.head = rest, !.count = @ - k,
                          !.tail = IF rest = NULL THEN NULL ELSE @,
                          !.free = Reverse(SubSeq(c, 1, k)) \o @,
                          !.node = [x \in Chunk |-> IF k > 0 /\ x \in heads
                                                    THEN [@[x] EXCEPT !.prev = NULL]
                                                    ELSE @[x]]]
<1>3. R = [list |-> K, rc |-> Sizes(SubSeq(g, 1, k))]
  <2> HIDE DEF g
  <2> QED
    BY <1>0 DEF HeapFlush
<1> HIDE DEF k
<1>4. \A j \in 1..Len(c) : c[j] \in Chunk /\ c[j] # NULL
  BY <1>0, LinkedEnds
<1>5. rest \in Ptr /\ (rest = NULL <=> k = Len(c)) /\ tl \in Ptr
  <2>1. k # Len(c) => k + 1 \in 1..Len(c)
    BY <1>0, <1>2
  <2>2. L.tail \in Ptr
    BY <1>0 DEF Heap
  <2> QED
    BY <1>4, <2>1, <2>2 DEF Ptr
<1>6. /\ M \in [Chunk -> Node]
      /\ \A z \in Chunk : M[z].next = N[z].next /\ Rec(M, z) = Rec(N, z)
      /\ \A z \in Chunk : z \notin heads => M[z].prev = N[z].prev
  <2> HIDE DEF heads, N
  <2>1. \A z \in Chunk : LET r == [N[z] EXCEPT !.prev = NULL] IN
          /\ r \in Node /\ r.next = N[z].next
          /\ r.seq_no = N[z].seq_no /\ r.size = N[z].size /\ r.timestamp = N[z].timestamp
    <3> TAKE z \in Chunk
    <3>1. N[z] \in Node /\ NULL \in Ptr
      BY <1>0 DEF Ptr
    <3> QED
      BY <3>1 DEF Node
  <2>2. \A z \in Chunk : M[z] = N[z] \/ (M[z] = [N[z] EXCEPT !.prev = NULL] /\ z \in heads)
    OBVIOUS
  <2>3. \A z \in Chunk : M[z] \in Node
    BY <1>0, <2>1, <2>2
  <2>4. M \in [Chunk -> Node]
    BY <2>3
  <2> HIDE DEF M
  <2>5. \A z \in Chunk : M[z].next = N[z].next /\ Rec(M, z) = Rec(N, z)
    BY <2>1, <2>2 DEF Rec
  <2> QED
    BY <2>2, <2>4, <2>5
<1>7. f \in Seq(Chunk) /\ cnt \in Int
  <2>1. Reverse(SubSeq(c, 1, k)) \in Seq(Chunk)
    BY <1>0, <1>2, ReverseElements
  <2> QED
    BY <1>0, <1>2, <2>1
<1>8. K = [L EXCEPT !.head = rest, !.count = cnt, !.tail = tl, !.free = f, !.node = M]
  <2> HIDE DEF heads, rest
  <2> QED
    BY <1>0 DEF Heap
<1>9. HeadsFreed(M, N, c, k)
  <2>1. ASSUME NEW j \in (k + 2)..Len(c) PROVE M[c[j]].prev = N[c[j]].prev
    <3>1. j \in 1..Len(c) /\ \A m \in 2..(k + 1) : m # j
      BY <1>0, <1>2
    <3>2. \A m \in 2..(IF k < Len(c) THEN k + 1 ELSE k) : m \in 1..Len(c) /\ m # j
      BY <1>0, <1>2
    <3>3. c[j] \notin heads
      BY <1>0, <3>1, <3>2 DEF Distinct
    <3> QED
      BY <1>4, <1>6, <3>1, <3>3
  <2>2. M \in [Chunk -> Node] /\ \A z \in Chunk : M[z].next = N[z].next
    BY <1>6
  <2> HIDE DEF M, N
  <2> QED
    BY <2>1, <2>2, Zenon DEF HeadsFreed
<1>10. SameBut(M, N, NULL, NULL)
  BY <1>6 DEF SameBut
<1>11. M \in [Chunk -> Node]
  BY <1>6
<1> HIDE DEF K, M, f, cnt, rest, tl, R, heads
<1>12. /\ K \in Heap /\ K.node = M /\ K.free = f /\ K.count = cnt /\ K.head = rest
       /\ K.tail = tl /\ K.ok = L.ok
  BY <1>0, <1>5, <1>7, <1>8, <1>11 DEF Heap
<1>13. TakenOff(K, L, c, k)
  <2>1. /\ K.head = (IF k = Len(c) THEN NULL ELSE c[k + 1])
        /\ K.tail = (IF k = Len(c) THEN NULL ELSE L.tail)
    BY <1>5, <1>12 DEF rest, tl
  <2>2. K.free = Reverse(SubSeq(c, 1, k)) \o L.free /\ K.count = L.count - k
    BY <1>12 DEF f, cnt
  <2>3. HeadsFreed(K.node, L.node, c, k) /\ SameBut(K.node, L.node, NULL, NULL)
    BY <1>9, <1>10, <1>12
  <2> QED
    BY <1>12, <2>1, <2>2, <2>3 DEF TakenOff
<1>14. Leads(K, DropPrefix(g, k))
  BY <1>2, <1>13, TakeOffLeads
<1> HIDE DEF g
<1>15. k \in 0..Len(g) /\ Leads(R.list, DropPrefix(g, k)) /\ R.rc = Sizes(SubSeq(g, 1, k))
  BY <1>1, <1>2, <1>3, <1>14
<1> QED
  BY <1>2, <1>15 DEF R, g

-----------------------------------------------------------------------------
(* What the calls lose, as numbers.                                         *)

\* A push loses the numbers of the head it drops from a full list, and returns how many.
LEMMA PushLosses ==
  ASSUME NEW g \in Seq(Gap), GapMax > 0, Ordered(g), NEW s \in Nat, AllBelow(g, s),
         NEW n \in Nat, n > 0, NEW t \in Nat
  PROVE  Cardinality((Missing(g) \ {}) \ Missing(PushGap(g, s, n, t))) = PushLost(g)
<1> DEFINE h == PushGap(g, s, n, t)
           D == (Missing(g) \ {}) \ Missing(h)
<1>1. \A x \in Missing(g) : x \in Missing(h) \/ (ListFull(g) /\ x \in Span(g[1]))
  BY PushGapLeaves
<1>2. CASE ListFull(g)
  <2> DEFINE a == g[1].seq_no
             b == g[1].seq_no + g[1].size - 1
             m == g[1].size
  <2>0. 1 \in 1..Len(g)
    BY <1>2, GapAssumption DEF ListFull
  <2>1. \A x \in Span(g[1]) : x \in Missing(g) /\ x \notin Missing(h)
    BY <1>2, PushGapParts
  <2>2. D = Span(g[1])
    <3> HIDE DEF h
    <3> QED
      BY <1>1, <2>1
  <2>3. a \in Nat /\ m \in Nat
    BY <2>0, RecordFields
  <2>4. Span(g[1]) = a..b
    BY DEF Span
  <2>5. a \in Int /\ b \in Int /\ (IF a > b THEN 0 ELSE b - a + 1) = m
    <3> DEFINE mm == m
    <3>1. b = a + mm - 1 /\ mm \in Nat
      BY <2>3
    <3> HIDE DEF b, mm, a
    <3> QED
      BY <2>3, <3>1 DEF mm
  <2>6. PushLost(g) = m
    BY <1>2 DEF PushLost
  <2> HIDE DEF a, b, m, D
  <2>7. Cardinality(a..b) = m
    BY <2>5, FS_Interval
  <2> QED
    BY <2>2, <2>4, <2>6, <2>7 DEF D
<1>3. CASE ~ListFull(g)
  <2>1. D = {}
    <3> HIDE DEF h
    <3> QED
      BY <1>1, <1>3
  <2>2. PushLost(g) = 0
    BY <1>3 DEF PushLost
  <2> QED
    BY <2>1, <2>2, FS_EmptySet
<1> QED
  BY <1>2, <1>3

\* A flush loses the numbers of the expired records, and returns how many.
LEMMA FlushLosses ==
  ASSUME NEW g \in Seq(Gap), Ordered(g), NEW k \in 0..Len(g)
  PROVE  /\ Cardinality((Missing(g) \ {}) \ Missing(DropPrefix(g, k))) = Sizes(SubSeq(g, 1, k))
         /\ Sizes(SubSeq(g, 1, k)) \in Nat
<1> DEFINE h == DropPrefix(g, k)
           D == UNION {Span(g[j]) : j \in 1..k}
           z == -1
<1>1. \A x \in Missing(g) : x = z \/ x \in D \/ x \in Missing(h)
  BY DropPrefixLeaves DEF Leaves
<1>2. z \notin Missing(g)
  <2>1. ASSUME z \in Missing(g) PROVE FALSE
    <3>1. PICK i \in 1..Len(g) : g[i].seq_no <= z
      BY <2>1, MissingMember
    <3>2. g[i].seq_no \in Nat
      BY RecordFields
    <3> QED
      BY <3>1, <3>2
  <2> QED
    BY <2>1
<1>3. \A x \in D : x \in Missing(g) /\ x \notin Missing(h)
  BY DropPrefixParts
<1>4. Cardinality(D) = Sizes(SubSeq(g, 1, k)) /\ Sizes(SubSeq(g, 1, k)) \in Nat
  BY ExpiredNumbers
<1> HIDE DEF h, D, z
<1>5. (Missing(g) \ {}) \ Missing(h) = D
  BY <1>1, <1>2, <1>3
<1> QED
  BY <1>4, <1>5 DEF h

\* del loses something exactly when its return code is positive.
LEMMA DelLosses ==
  ASSUME NEW g \in Seq(Gap), Ordered(g), NonEmpty(g), NEW s, NEW i, FindGap(g, s, i)
  PROVE  LET lost == Cardinality((Missing(g) \ {s}) \ Missing(DelGap(g, i, s)))
         IN  /\ DelLost(g, i, s) \in Nat
             /\ DelLost(g, i, s) > 0 <=> lost > 0
<1> DEFINE h == DelGap(g, i, s)
           D == DelDrops(g, i, s)
<1>1. \A x \in Missing(g) : x = s \/ x \in D \/ x \in Missing(h)
  BY DelGapLeaves DEF Leaves
<1>2. \A x \in D : x # s /\ x \in Missing(g) /\ x \notin Missing(h)
  BY DelGapParts
<1>3. /\ Cardinality(D) = DelDropped(g, i, s) /\ DelDropped(g, i, s) \in Nat
      /\ DelLost(g, i, s) \in Nat
  BY DropsCount
<1>4. DelLost(g, i, s) > 0 <=> DelDropped(g, i, s) > 0
  <2>1. i \in 1..Len(g) /\ 1 \in 1..Len(g)
    BY DEF FindGap
  <2>2. g[i].size > 0 /\ g[1].size > 0
    BY <2>1 DEF NonEmpty
  <2> QED
    BY <2>2 DEF DelLost, DelDropped
<1> HIDE DEF h, D
<1>5. (Missing(g) \ {s}) \ Missing(h) = D
  BY <1>1, <1>2
<1> QED
  BY <1>3, <1>4, <1>5 DEF h

-----------------------------------------------------------------------------
(* A node that a caller holds on to: what the calls do to its contents.     *)

\* What flush makes of a list whose chain is c and whose first k records expire.
FlushedOff(L, c, k, n, free, lost, C) ==
  LET heads == {c[j] : j \in 2..(IF k < Len(c) THEN k + 1 ELSE k)}
      rest  == IF k = Len(c) THEN n ELSE c[k + 1]
  IN  [list |-> [L EXCEPT !.head = rest, !.count = @ - k,
                          !.tail = IF rest = n THEN n ELSE @,
                          !.free = free \o @,
                          !.node = [x \in C |-> IF k > 0 /\ x \in heads
                                                THEN [@[x] EXCEPT !.prev = n]
                                                ELSE @[x]]],
       rc   |-> lost]

\* Flush is that, for the prefix it finds.
LEMMA FlushIsOff ==
  ASSUME NEW L, NEW t
  PROVE  \E c, k, f, r : HeapFlush(L, t) = FlushedOff(L, c, k, NULL, f, r, Chunk)
<1> DEFINE c == Chain(L)
           g == Records(L)
           k == CHOOSE n \in 0..Len(c) : ExpiredPrefix(g, t, n)
<1>1. HeapFlush(L, t) =
        FlushedOff(L, c, k, NULL, Reverse(SubSeq(c, 1, k)), Sizes(SubSeq(g, 1, k)), Chunk)
  BY ONLY DEF HeapFlush, FlushedOff
<1> HIDE DEF c, g, k
<1> QED
  BY <1>1

\* Flush leaves the numbers and the time in every node, the freed ones too.
LEMMA FlushKeepsRec ==
  ASSUME NEW L \in Heap, NEW t, NEW z \in Chunk
  PROVE  Rec(HeapFlush(L, t).list.node, z) = Rec(L.node, z)
<1>1. PICK c, k, f, r : HeapFlush(L, t) = FlushedOff(L, c, k, NULL, f, r, Chunk)
  BY FlushIsOff
<1> DEFINE heads == {c[j] : j \in 2..(IF k < Len(c) THEN k + 1 ELSE k)}
           M == [x \in Chunk |-> IF k > 0 /\ x \in heads
                                 THEN [L.node[x] EXCEPT !.prev = NULL] ELSE L.node[x]]
<1>2. HeapFlush(L, t).list.node = M
  <2> DEFINE rest == IF k = Len(c) THEN NULL ELSE c[k + 1]
  <2>1. HeapFlush(L, t).list =
          [L EXCEPT !.head = rest, !.count = @ - k,
                    !.tail = IF rest = NULL THEN NULL ELSE @,
                    !.free = f \o @,
                    !.node = [x \in Chunk |-> IF k > 0 /\ x \in heads
                                              THEN [@[x] EXCEPT !.prev = NULL]
                                              ELSE @[x]]]
    BY <1>1 DEF FlushedOff
  <2> HIDE DEF rest, heads
  <2> QED
    BY <2>1 DEF Heap
<1>3. M[z] = L.node[z] \/ M[z] = [L.node[z] EXCEPT !.prev = NULL]
  <2> HIDE DEF heads
  <2> QED
    OBVIOUS
<1> HIDE DEF M
<1>4. L.node[z] \in Node
  BY DEF Heap
<1>5. M[z].seq_no = L.node[z].seq_no /\ M[z].size = L.node[z].size
      /\ M[z].timestamp = L.node[z].timestamp
  BY <1>3, <1>4 DEF Node
<1> QED
  BY <1>2, <1>5 DEF Rec

\* Linking a chunk leaves the numbers and the time in the other nodes.
LEMMA LinkLastKeepsRec ==
  ASSUME NEW L \in Heap, NEW h \in Chunk, NEW gap \in Gap, NEW z \in Chunk
  PROVE  Rec(LinkLast(L, h, gap).node, z) = Rec(L.node, z)
           \/ Rec(LinkLast(L, h, gap).node, z) = NewGap(gap.seq_no, gap.size, gap.timestamp)
<1> DEFINE N == L.node
           tl == L.tail
           r == [seq_no |-> gap.seq_no, size |-> gap.size, timestamp |-> gap.timestamp,
                 next |-> NULL, prev |-> tl]
           F == [N EXCEPT ![h] = r]
           K == LinkLast(L, h, gap)
<1>1. N \in [Chunk -> Node] /\ tl \in Ptr /\ NULL \in Ptr /\ h \in Ptr
  BY DEF Heap, Ptr
<1>2. r \in Node
  BY <1>1 DEF Gap, Node
<1>3. F \in [Chunk -> Node] /\ F[h] = r /\ \A x \in Chunk : x # h => F[x] = N[x]
  BY <1>1, <1>2
<1>4. Rec(F, z) = Rec(N, z) \/ Rec(F, z) = NewGap(gap.seq_no, gap.size, gap.timestamp)
  BY <1>3 DEF Rec
<1>5. CASE tl = NULL
  <2>1. K = [[L EXCEPT !.node = F] EXCEPT !.head = h, !.tail = h]
    BY <1>5 DEF LinkLast
  <2>2. K.node = F
    BY <2>1 DEF Heap
  <2> QED
    BY <1>4, <2>2
<1>6. CASE tl # NULL
  <2> DEFINE M == [F EXCEPT ![tl].next = h]
  <2>1. tl \in Chunk
    BY <1>1, <1>6 DEF Ptr
  <2>2. K.node = M
    <3>1. K = [SetNext([L EXCEPT !.node = F], tl, h) EXCEPT !.tail = h]
      BY <1>6 DEF LinkLast
    <3> HIDE DEF F
    <3>2. SetNext([L EXCEPT !.node = F], tl, h) = [[L EXCEPT !.node = F] EXCEPT !.node = M]
      BY <1>6 DEF SetNext, Heap
    <3> QED
      BY <3>1, <3>2 DEF Heap
  <2> HIDE DEF F
  <2>3. SetNextOf(M, F, tl, h)
    BY DEF SetNextOf
  <2>4. OnlyNext(M, F, tl, h)
    <3> HIDE DEF M
    <3> QED
      BY <1>1, <1>3, <2>1, <2>3, NextOnly
  <2> QED
    BY <1>4, <2>2, <2>4 DEF OnlyNext
<1> QED
  BY <1>5, <1>6

\* Push writes the new gap in one node and leaves the contents of the others.
LEMMA PushKeepsRec ==
  ASSUME NEW L, NEW c, IsList(L, c), NEW s \in Nat, NEW n \in Nat, NEW t \in Nat, NEW z \in Chunk,
         GapMax >= 2
  PROVE  LET K == HeapPush(L, s, n, t).list
         IN  Rec(K.node, z) = Rec(L.node, z) \/ Rec(K.node, z) = NewGap(s, n, t)
<1> DEFINE gap == NewGap(s, n, t)
<1>0. /\ L \in Heap /\ Linked(L.node, L.head, L.tail, c) /\ L.count = Len(c)
      /\ Len(c) \in Nat /\ Len(c) <= GapMax /\ L.free \in Seq(Chunk)
      /\ Len(c) < GapMax => L.free # <<>>
  BY ListFacts
<1>1. gap \in Gap /\ NewGap(gap.seq_no, gap.size, gap.timestamp) = gap
  BY DEF Gap, NewGap
<1> HIDE DEF gap
<1>2. CASE Len(c) < GapMax
  <2>1. TakeNode(L) \in Heap /\ TakeNode(L).node = L.node
    BY <1>0, <1>2, TakeNodeTakes
  <2>2. Head(L.free) \in Chunk
    BY <1>0, <1>2
  <2>3. HeapPush(L, s, n, t).list = LinkLast(TakeNode(L), Head(L.free), gap)
    <3>1. ~(L.count + 1 > GapMax) /\ ~PoolEmpty(L)
      BY <1>0, <1>2, GapAssumption DEF PoolEmpty
    <3> QED
      BY <3>1 DEF HeapPush, gap
  <2> QED
    BY <1>1, <2>1, <2>2, <2>3, LinkLastKeepsRec DEF gap
<1>3. CASE Len(c) = GapMax
  <2> DEFINE T == [L EXCEPT !.head = L.node[L.head].next]
  <2>1. L.head \in Chunk /\ L.head # NULL
    BY <1>0, <1>3, LinkedEnds
  <2>2. L.node[L.head].next \in Ptr
    BY <1>0, <2>1 DEF Heap, Node
  <2>3. T \in Heap /\ T.node = L.node
    BY <1>0, <2>2 DEF Heap
  <2>4. HeapPush(L, s, n, t).list = LinkLast(T, L.head, gap)
    <3>1. L.count + 1 > GapMax /\ L.head # NULL
      BY <1>0, <1>3, <2>1, GapAssumption
    <3> QED
      BY <3>1 DEF HeapPush, gap
  <2> HIDE DEF T
  <2> QED
    BY <1>1, <2>1, <2>3, <2>4, LinkLastKeepsRec DEF gap
<1> QED
  BY <1>0, <1>2, <1>3, GapAssumption

\* A number that the held node does not cover is left alone by del.
LEMMA DelMisses ==
  ASSUME NEW L \in Heap, NEW x \in Chunk, NEW s \in Nat,
         L.node[x].size > 0, s \notin Span(L.node[x])
  PROVE  /\ HeapDel(L, x, s) = [list |-> L, rc |-> 0, node |-> x]
         /\ HeapDropped(L, x, s) = 0
<1> DEFINE q == L.node[x]
<1>1. q \in Node /\ q.seq_no \in Nat /\ q.size \in Nat /\ q.size > 0
  BY DEF Heap, Node
<1>2. s \notin q.seq_no .. (q.seq_no + q.size - 1)
  BY DEF Span
<1> HIDE DEF q
<1>3. q.seq_no # s /\ q.seq_no + q.size - 1 # s /\ ~(q.seq_no < s /\ s < q.seq_no + q.size - 1)
      /\ q.size # 0
  BY <1>1, <1>2
<1>4. ~InMiddle(q, s)
  BY <1>3 DEF InMiddle
<1>5. HeapDropped(L, x, s) = 0
  BY <1>4 DEF HeapDropped, q
<1>6. HeapDel(L, x, s) = [list |-> L, rc |-> 0, node |-> x]
  BY <1>3, <1>4 DEF HeapDel, q
<1> QED
  BY <1>5, <1>6

\* Of records in order only one covers a number.
LEMMA CoveringIsFound ==
  ASSUME NEW g \in Seq(Gap), Ordered(g), NEW i \in 1..Len(g), NEW s \in Span(g[i])
  PROVE  FindGap(g, s, i)
<1>1. ASSUME NEW j \in 1..(i - 1) PROVE s \notin Span(g[j])
  <2>1. j \in 1..Len(g) /\ j < i
    OBVIOUS
  <2>2. g[j].seq_no \in Nat /\ g[j].size \in Nat /\ g[i].seq_no \in Nat /\ g[i].size \in Nat
    BY <2>1, RecordFields
  <2>3. g[j].seq_no + g[j].size <= g[i].seq_no
    BY <2>1 DEF Ordered
  <2> QED
    BY <2>2, <2>3 DEF Span
<1> QED
  BY <1>1 DEF FindGap

\* The places of a chain and the head.
LEMMA HeadIsFirst ==
  ASSUME NEW L, NEW c, IsList(L, c), NEW i \in 1..Len(c)
  PROVE  /\ L.head = c[1] /\ 1 \in 1..Len(c)
         /\ c[i] = L.head <=> i = 1
<1>1. Linked(L.node, L.head, L.tail, c) /\ Len(c) \in Nat /\ Distinct(c)
  BY ListFacts
<1>2. L.head = c[1] /\ 1 \in 1..Len(c)
  BY <1>1, LinkedEnds
<1>3. c[i] = c[1] => i = 1
  BY <1>1, <1>2 DEF Distinct
<1> QED
  BY <1>2, <1>3

\* What del drops to make room, in terms of the records.
LEMMA DroppedIs ==
  ASSUME NEW L, NEW c, IsList(L, c), NEW i \in 1..Len(c), NEW s
  PROVE  HeapDropped(L, c[i], s) = DelDropped(Recs(L.node, c), i, s)
<1> DEFINE g == Recs(L.node, c)
<1>1. /\ L.count = Len(c) /\ L.node \in [Chunk -> Node] /\ c \in Seq(Chunk)
  BY ListFacts
<1>2. L.head = c[1] /\ 1 \in 1..Len(c) /\ (c[i] = L.head <=> i = 1)
  BY HeadIsFirst
<1>3. c[i] \in Chunk /\ c[1] \in Chunk
  BY <1>1, <1>2
<1>4. /\ Len(g) = Len(c) /\ g[i] = Rec(L.node, c[i]) /\ g[1] = Rec(L.node, c[1])
  BY <1>1, <1>2, RecsElements
<1>5. /\ g[i].seq_no = L.node[c[i]].seq_no /\ g[i].size = L.node[c[i]].size
      /\ g[1].size = L.node[c[1]].size
  BY <1>1, <1>3, <1>4, RecFields
<1> HIDE DEF g
<1>6. InMiddle(g[i], s) <=> InMiddle(L.node[c[i]], s)
  BY <1>5 DEF InMiddle
<1>7. ListFull(g) <=> L.count >= GapMax
  BY <1>1, <1>4 DEF ListFull
<1>8. L.count >= GapMax <=> ~(L.count < GapMax)
  BY <1>1, GapAssumption
<1>9. HeapDropped(L, c[i], s) = DelDropped(g, i, s)
  BY <1>2, <1>5, <1>6, <1>7, <1>8 DEF HeapDropped, DelDropped, LostWith
<1> QED
  BY <1>9 DEF g

\* A split takes no chunk from the pool by itself.
LEMMA SplitKeepsFree ==
  ASSUME NEW L \in Heap, NEW x \in Chunk, NEW h \in Chunk, NEW s, NEW t
  PROVE  SplitInto(L, x, h, s, t).free = L.free
<1> DEFINE c == L.node[x]
           up == Above(c, s, t)
           a == [seq_no |-> up.seq_no, size |-> up.size, timestamp |-> t, next |-> c.next, prev |-> x]
           b == [c EXCEPT !.size = @ - (up.size + 1), !.next = h]
           body == [L EXCEPT !.node[h] = a, !.node[x] = b]
<1>1. DOMAIN body = {"node", "free", "head", "tail", "count", "ok"} /\ body.free = L.free
  <2> HIDE DEF a, b
  <2> QED
    BY DEF Heap
<1>2. SplitInto(L, x, h, s, t) =
        IF x = L.tail THEN [body EXCEPT !.tail = h] ELSE SetPrev(body, c.next, h)
  BY DEF SplitInto
<1> HIDE DEF body, c
<1>3. [body EXCEPT !.tail = h].free = body.free
  BY <1>1
<1>4. SetPrev(body, c.next, h).free = body.free
  BY <1>1 DEF SetPrev, Crash
<1> QED
  BY <1>1, <1>2, <1>3, <1>4

\* Popping the head takes no chunk from the pool and leaves a list.
LEMMA PopKeepsFree ==
  ASSUME NEW L, NEW c, IsList(L, c), Len(c) >= 2,
         NEW P, P = SetPrev([L EXCEPT !.head = L.node[L.head].next], L.node[L.head].next, NULL)
  PROVE  P \in Heap /\ P.free = L.free
<1>1. L \in Heap /\ Linked(L.node, L.head, L.tail, c) /\ Len(c) \in Nat
  BY ListFacts
<1> DEFINE up == L.node[L.head].next
<1>2. L.head = c[1] /\ up = c[2] /\ up \in Chunk
  <2>1. L.head = c[1] /\ c[2] \in Chunk
    BY <1>1, LinkedEnds
  <2>2. L.node[c[1]].next = c[2]
    BY <1>1 DEF Linked
  <2> QED
    BY <2>1, <2>2
<1>3. up # NULL /\ up \in Ptr /\ NULL \in Ptr
  BY <1>2 DEF Chunk, NULL, Ptr
<1> HIDE DEF up
<1> DEFINE M == [L.node EXCEPT ![up].prev = NULL]
<1>4. P = [[L EXCEPT !.head = up] EXCEPT !.node = M]
  BY <1>1, <1>3 DEF SetPrev, Heap, up
<1>5. M \in [Chunk -> Node]
  <2>1. SetPrevOf(M, L.node, up, NULL) /\ L.node \in [Chunk -> Node]
    BY <1>1 DEF SetPrevOf, Heap
  <2> HIDE DEF M
  <2> QED
    BY <1>2, <1>3, <2>1, PrevOnly DEF OnlyPrev
<1> HIDE DEF M
<1> QED
  BY <1>1, <1>3, <1>4, <1>5 DEF Heap

\* The node that del hands back is one that is not free.
LEMMA DelNodeNotFree ==
  ASSUME NEW L, NEW c, IsList(L, c), NEW i \in 1..Len(c), NEW s \in Nat
  PROVE  LET d == HeapDel(L, c[i], s)
         IN  d.node = NULL \/ (d.node \in Chunk /\ d.node \notin ToSet(d.list.free))
<1> DEFINE x == c[i]
           q == L.node[x]
           e == HeapDel(L, x, s)
<1>0. /\ L \in Heap /\ Pool(L.free, c) /\ L.count = Len(c) /\ Distinct(c)
      /\ c \in Seq(Chunk) /\ Len(c) \in Nat /\ L.free \in Seq(Chunk)
      /\ Len(c) < GapMax => L.free # <<>>
      /\ Len(c) <= GapMax
  BY ListFacts
<1>1. x \in Chunk /\ x \notin ToSet(L.free) /\ c[1] \in Chunk /\ c[1] \notin ToSet(L.free)
      /\ L.head = c[1]
  <2>1. L.head = c[1] /\ 1 \in 1..Len(c)
    BY HeadIsFirst
  <2>2. ASSUME NEW j \in 1..Len(c) PROVE c[j] \in Chunk /\ c[j] \notin ToSet(L.free)
    <3>1. c[j] \in Chunk /\ c[j] \in ToSet(c)
      BY <1>0 DEF ToSet
    <3> QED
      BY <1>0, <3>1 DEF Pool
  <2> QED
    BY <2>1, <2>2
<1>2. e.node = NULL \/
        \/ /\ e.node = x /\ e.list.free = L.free
        \/ /\ ~(L.count >= GapMax) /\ L.free # <<>>
           /\ e = DelMiddle(L, x, s)
        \/ /\ L.count >= GapMax /\ x # L.head
           /\ e = DelMiddle(L, x, s)
  <2> DEFINE mid == DelMiddle(L, x, s)
             one == [list |-> [L EXCEPT !.node[x].seq_no = @ + 1, !.node[x].size = @ - 1],
                     rc |-> 0, node |-> x]
             two == [list |-> [L EXCEPT !.node[x].size = @ - 1], rc |-> 0, node |-> x]
             all == [list |-> L, rc |-> 0, node |-> x]
             cut == IF q.seq_no = s THEN one
                    ELSE IF q.seq_no + q.size - 1 = s THEN two
                    ELSE IF InMiddle(q, s) THEN mid ELSE all
  <2>1. e = IF cut.list.node[x].size = 0
            THEN [list |-> Unlink(cut.list, x), rc |-> cut.rc, node |-> NULL] ELSE cut
    BY DEF HeapDel
  <2>2. one.node = x /\ one.list.free = L.free /\ two.node = x /\ two.list.free = L.free
        /\ all.node = x /\ all.list.free = L.free
    BY <1>0 DEF Heap
  <2>3. L.count >= GapMax /\ x = L.head => mid.node = x /\ mid.list.free = L.free
    BY <1>0 DEF DelMiddle, CutHead, Heap
  <2>4. ~(L.count >= GapMax) => L.free # <<>>
    BY <1>0, GapAssumption
  <2> HIDE DEF mid, one, two, all
  <2>5. cut = mid \/ (cut.node = x /\ cut.list.free = L.free)
    BY <2>2
  <2> HIDE DEF cut
  <2>6. e.node = NULL \/ e = cut
    BY <2>1
  <2> HIDE DEF e
  <2> QED
    BY <2>3, <2>4, <2>5, <2>6 DEF mid
<1>3. CASE ~(L.count >= GapMax) /\ L.free # <<>> /\ e = DelMiddle(L, x, s)
  <2> DEFINE h == Head(L.free)
  <2>1. TakeNode(L) \in Heap /\ TakeNode(L).free = Tail(L.free)
    BY <1>0, <1>3, TakeNodeTakes
  <2>2. h \in Chunk /\ h \notin ToSet(Tail(L.free))
    <3>1. Distinct(L.free)
      BY <1>0 DEF Pool
    <3>2. h = L.free[1] /\ h \in Chunk /\ Len(L.free) \in Nat /\ Len(L.free) > 0
      BY <1>0, <1>3
    <3>3. ASSUME NEW j \in 1..(Len(L.free) - 1) PROVE Tail(L.free)[j] # h
      <4>1. Tail(L.free)[j] = L.free[j + 1]
        BY <1>0, <1>3, <3>2
      <4>2. j + 1 \in 1..Len(L.free) /\ 1 \in 1..Len(L.free) /\ j + 1 # 1
        BY <3>2
      <4>3. L.free[j + 1] # L.free[1]
        BY <3>1, <4>2 DEF Distinct
      <4> QED
        BY <3>2, <4>1, <4>3
    <3>4. DOMAIN Tail(L.free) = 1..(Len(L.free) - 1)
      BY <1>0, <1>3, <3>2
    <3> QED
      BY <3>2, <3>3, <3>4 DEF ToSet
  <2>3. e.list = SplitInto(TakeNode(L), x, h, s, q.timestamp) /\ e.node = h
    BY <1>3 DEF DelMiddle, PoolEmpty
  <2> HIDE DEF e, h, q
  <2> QED
    BY <1>1, <2>1, <2>2, <2>3, SplitKeepsFree DEF e
<1>4. CASE L.count >= GapMax /\ x # L.head /\ e = DelMiddle(L, x, s)
  <2> DEFINE h == L.head
             up == L.node[h].next
             P == SetPrev([L EXCEPT !.head = up], up, NULL)
  <2>1. Len(c) >= 2
    <3>1. i # 1
      BY <1>1, <1>4
    <3> QED
      BY <1>0, <3>1
  <2>2. P \in Heap /\ P.free = L.free
    BY <2>1, PopKeepsFree
  <2>3. e.list = SplitInto(P, x, h, s, L.node[h].timestamp) /\ e.node = h
    BY <1>4 DEF DelMiddle
  <2> HIDE DEF e, P, q
  <2>4. e.list.free = L.free
    BY <1>1, <2>2, <2>3, SplitKeepsFree
  <2> QED
    BY <1>1, <2>3, <2>4 DEF e
<1>5. CASE e.node = x /\ e.list.free = L.free
  <2> HIDE DEF e
  <2> QED
    BY <1>1, <1>5 DEF e
<1> HIDE DEF e, x
<1> QED
  BY <1>2, <1>3, <1>4, <1>5 DEF e, x

\* A list over chunks c is well formed in the sense of GapHeap.
LEMMA ListIsOK ==
  ASSUME NEW L, NEW c, IsList(L, c)
  PROVE  HeapOK(L)
<1>1. /\ L \in Heap /\ L.ok = TRUE /\ Linked(L.node, L.head, L.tail, c)
      /\ Pool(L.free, c) /\ L.count = Len(c)
      /\ c \in Seq(Chunk) /\ Len(c) \in Nat /\ Len(c) <= GapMax /\ Chain(L) = c
  BY ListFacts
<1>2. ~Endless(L)
  BY <1>1, WalkIsChain
<1>3. L.tail = IF c = <<>> THEN NULL ELSE Last(c)
  BY <1>1 DEF Linked, Last
<1>4. \A i \in 2..Len(c) : L.node[c[i]].prev = c[i - 1]
  BY <1>1 DEF Linked
<1>5. Len(c) + Len(L.free) = GapMax /\ ToSet(c) \cup ToSet(L.free) = Chunk
  BY <1>1 DEF Pool
<1> QED
  BY <1>1, <1>2, <1>3, <1>4, <1>5 DEF HeapOK

-----------------------------------------------------------------------------
(* The specification.                                                       *)

\* The linked list always is one, over some chunks c: its links, its count
\* and its pool agree.
ListInv ==
  /\ \E c : IsList(list, c)
  /\ RecordsOrdered
  /\ next_seq_no \in 1..MaxSeqNo
  /\ now \in 0..MaxClock
  /\ report.rc \in Int
  /\ LossNoticed

\* The records of what a call leaves.
LEMMA LeadsRecords ==
  ASSUME NEW K, NEW h, Leads(K, h)
  PROVE  Records(K) = h /\ h \in Seq(Gap) /\ \E c : IsList(K, c)
<1>1. PICK c : IsList(K, c) /\ Recs(K.node, c) = h
  BY DEF Leads
<1>2. K.node \in [Chunk -> Node] /\ c \in Seq(Chunk) /\ Records(K) = Recs(K.node, c)
  BY <1>1, ListFacts
<1>3. Recs(K.node, c) \in Seq(Gap)
  BY <1>2, RecsElements
<1> QED
  BY <1>1, <1>2, <1>3

\* The records of the list in a good state.
LEMMA InvRecords ==
  ASSUME ListInv
  PROVE  /\ Records(list) \in Seq(Gap) /\ Ordered(Records(list)) /\ NonEmpty(Records(list))
         /\ AllBelow(Records(list), next_seq_no)
         /\ next_seq_no \in Nat /\ next_seq_no > 0 /\ now \in Nat
<1>1. PICK c : IsList(list, c)
  BY DEF ListInv
<1>2. Leads(list, Recs(list.node, c))
  BY <1>1 DEF Leads
<1>3. Records(list) \in Seq(Gap)
  BY <1>2, LeadsRecords
<1>4. MaxSeqNo \in Nat /\ MaxClock \in Nat
  BY BoundAssumption
<1> QED
  BY <1>3, <1>4 DEF ListInv, RecordsOrdered, NonEmpty

\* The empty list, all of whose nodes are free.
LEMMA NewListIsList == IsList(NewList, <<>>) /\ Records(NewList) = <<>>
<1> DEFINE c == <<>>
           e == [x \in Chunk |-> x]
           f == Reverse(e)
           N == [x \in Chunk |-> [seq_no |-> 0, size |-> 0, timestamp |-> 0,
                                  next |-> NULL, prev |-> NULL]]
<1>0. GapMax \in Nat /\ Chunk = 1..GapMax /\ NULL \in Ptr
  BY GapAssumption DEF Chunk, Ptr
<1>1. e \in Seq(Chunk) /\ Len(e) = GapMax
  <2>1. e \in [1..GapMax -> Chunk]
    BY <1>0
  <2> HIDE DEF e
  <2> QED
    BY <1>0, <2>1, FunctionIsSeq
<1>2. f \in Seq(Chunk) /\ Len(f) = GapMax /\ \A k \in 1..GapMax : f[k] = (GapMax - k) + 1
  <2>1. f = [k \in 1..GapMax |-> e[(GapMax - k) + 1]]
    BY <1>0, <1>1 DEF Reverse
  <2>2. \A k \in 1..GapMax : (GapMax - k) + 1 \in Chunk
    BY <1>0
  <2>3. f = [k \in 1..GapMax |-> (GapMax - k) + 1]
    BY <1>0, <2>1, <2>2
  <2> HIDE DEF f, e
  <2>4. f \in [1..GapMax -> Chunk]
    BY <2>2, <2>3
  <2> QED
    BY <1>0, <2>3, <2>4, FunctionIsSeq
<1> HIDE DEF f, e
<1>3. Distinct(f)
  BY <1>0, <1>2 DEF Distinct
<1>4. ToSet(f) = Chunk
  <2>1. \A x \in Chunk : (GapMax - x) + 1 \in 1..GapMax /\ (GapMax - ((GapMax - x) + 1)) + 1 = x
    BY <1>0
  <2>2. DOMAIN f = 1..GapMax
    BY <1>2
  <2>3. \A k \in 1..GapMax : f[k] \in Chunk
    BY <1>0, <1>2
  <2>4. \A x \in Chunk : \E k \in 1..GapMax : x = f[k]
    BY <1>2, <2>1
  <2> QED
    BY <2>2, <2>3, <2>4 DEF ToSet
<1>5. c \in Seq(Chunk) /\ Len(c) = 0 /\ Distinct(c) /\ ToSet(c) = {}
  BY DEF Distinct, ToSet
<1>6. Pool(f, c)
  BY <1>0, <1>2, <1>3, <1>4, <1>5 DEF Pool
<1>7. N \in [Chunk -> Node]
  BY <1>0 DEF Node
<1> HIDE DEF N, c
<1>8. Linked(N, NULL, NULL, c)
  BY <1>5, <1>7 DEF Linked
<1>9. NewList = [node |-> N, free |-> f, head |-> NULL, tail |-> NULL, count |-> 0, ok |-> TRUE]
  BY DEF NewList, N, f, e
<1>10. IsList(NewList, c)
  BY <1>0, <1>2, <1>5, <1>6, <1>7, <1>8, <1>9 DEF IsList, Heap
<1>11. Records(NewList) = <<>>
  <2>1. Records(NewList) = Recs(NewList.node, c)
    BY <1>10, ListFacts
  <2> QED
    BY <2>1 DEF Recs, c
<1> QED
  BY <1>10, <1>11 DEF c

\* The tracker's operators are those of GapList.
LEMMA TrackerOperators ==
  /\ \A g, s, n, t : Tracker!PushGap(g, s, n, t) = PushGap(g, s, n, t)
  /\ \A g, s, i : Tracker!FindGap(g, s, i) <=> FindGap(g, s, i)
  /\ \A g, i, s : Tracker!DelGap(g, i, s) = DelGap(g, i, s)
  /\ \A g, t, k : Tracker!ExpiredPrefix(g, t, k) <=> ExpiredPrefix(g, t, k)
  /\ \A g, k : Tracker!DropPrefix(g, k) = DropPrefix(g, k)
<1>1. \A g, s, n, t : Tracker!PushGap(g, s, n, t) = PushGap(g, s, n, t)
  BY DEF Tracker!PushGap, PushGap, Tracker!ListFull, ListFull, Tracker!DropPrefix, DropPrefix,
         Tracker!NewGap, NewGap
<1>2. \A g, s, i : Tracker!FindGap(g, s, i) <=> FindGap(g, s, i)
  BY DEF Tracker!FindGap, FindGap, Tracker!Span, Span
<1>3. \A g, i, s : Tracker!DelGap(g, i, s) = DelGap(g, i, s)
  BY DEF Tracker!DelGap, DelGap, Tracker!ListFull, ListFull, Tracker!DropPrefix, DropPrefix,
         Tracker!NewGap, NewGap, Tracker!SplitRecord, SplitRecord, Tracker!Below, Below,
         Tracker!Above, Above, Tracker!RemoveRecord, RemoveRecord
<1>4. \A g, t, k : Tracker!ExpiredPrefix(g, t, k) <=> ExpiredPrefix(g, t, k)
  BY DEF Tracker!ExpiredPrefix, ExpiredPrefix, Tracker!Expired, Expired
<1>5. \A g, k : Tracker!DropPrefix(g, k) = DropPrefix(g, k)
  BY DEF Tracker!DropPrefix, DropPrefix
<1> QED
  BY <1>1, <1>2, <1>3, <1>4, <1>5

\* Each call does to the records what the tracker does, and reports its loss.
LEMMA PushStep ==
  ASSUME GapMax >= 2, ListInv, NEW n \in 1..MaxSeqNo, Push(n)
  PROVE  ListInv' /\ Tracker!OpenGap(n)
<1> DEFINE g == Records(list)
           R == HeapPush(list, next_seq_no, n, now)
           h == PushGap(g, next_seq_no, n, now)
<1>0. /\ g \in Seq(Gap) /\ Ordered(g) /\ NonEmpty(g) /\ AllBelow(g, next_seq_no)
      /\ next_seq_no \in Nat /\ now \in Nat /\ n \in Nat /\ n > 0 /\ MaxSeqNo \in Nat
      /\ GapMax \in Nat /\ GapMax > 0 /\ next_seq_no > 0
  BY InvRecords, BoundAssumption, GapAssumption
<1>1. PICK c : IsList(list, c)
  BY DEF ListInv
<1>2. Records(list) = Recs(list.node, c)
  BY <1>1, ListFacts
<1>3. Leads(R.list, h) /\ R.rc = PushLost(g)
  <2>1. /\ Leads(R.list, PushGap(Recs(list.node, c), next_seq_no, n, now))
        /\ R.rc = PushLost(Recs(list.node, c))
    BY <1>0, <1>1, PushLeads
  <2> QED
    BY <1>2, <2>1
<1>4. Records(R.list) = h /\ h \in Seq(Gap) /\ \E d : IsList(R.list, d)
  <2> HIDE DEF R, h
  <2> QED
    BY <1>3, LeadsRecords
<1>5. /\ list' = R.list /\ next_seq_no' = next_seq_no + n /\ now' = now
      /\ next_seq_no + n <= MaxSeqNo
      /\ report' = [op |-> "push", rc |-> R.rc,
                    lost |-> Cardinality((Missing(g) \ {}) \ Missing(Records(R.list)))]
  BY DEF Push, Returns
<1>6. Ordered(h) /\ AllBelow(h, next_seq_no + n)
  <2> HIDE DEF g
  <2> QED
    BY <1>0, PushGapKeeps
<1>7. NonEmpty(h)
  <2> HIDE DEF g
  <2> QED
    BY <1>0, PushGapLeaves
<1>8. Cardinality((Missing(g) \ {}) \ Missing(h)) = PushLost(g) /\ PushLost(g) \in Int
  <2> HIDE DEF g
  <2>1. PushLost(g) \in Nat
    <3>1. CASE ListFull(g)
      <4>1. 1 \in 1..Len(g)
        BY <1>0, <3>1 DEF ListFull
      <4>2. g[1].size \in Nat
        BY <1>0, <4>1, RecordFields
      <4> QED
        BY <3>1, <4>2 DEF PushLost
    <3> QED
      BY <3>1 DEF PushLost
  <2> QED
    BY <1>0, <2>1, PushLosses
<1> HIDE DEF R, h, g
<1>9. Records(list') = h
  BY <1>4, <1>5
<1>10. report'.op = "push" /\ report'.rc = report'.lost /\ report'.rc \in Int
  BY <1>3, <1>4, <1>5, <1>8
<1>11. \E d : IsList(list', d)
  BY <1>4, <1>5
<1>12. RecordsOrdered'
  <2>1. Records(list)' = h /\ next_seq_no' = next_seq_no + n
    BY <1>5, <1>9
  <2> QED
    BY <1>6, <1>7, <2>1 DEF RecordsOrdered, NonEmpty
<1>13. LossNoticed'
  BY <1>10 DEF LossNoticed
<1>14. next_seq_no' \in 1..MaxSeqNo /\ now' \in 0..MaxClock
  <2>1. now \in 0..MaxClock
    BY DEF ListInv
  <2> QED
    BY <1>0, <1>5, <2>1
<1>15. ListInv'
  BY <1>10, <1>11, <1>12, <1>13, <1>14 DEF ListInv
<1>16. Tracker!OpenGap(n)
  <2>1. Records(list') = Tracker!PushGap(Records(list), next_seq_no, n, now)
    BY <1>9, TrackerOperators DEF g, h
  <2> QED
    BY <1>5, <2>1 DEF Tracker!OpenGap
<1> QED
  BY <1>15, <1>16

\* fh_shr_gap_fill_del keeps the invariant and does what the tracker's FillGap does.
LEMMA DelStep ==
  ASSUME ListInv, NEW s \in 1..MaxSeqNo, FindAndDel(s)
  PROVE  ListInv' /\ Tracker!FillGap(s)
<1> DEFINE g == Records(list)
           R == HeapDel(list, HeapFind(list, s), s)
<1>0. /\ g \in Seq(Gap) /\ Ordered(g) /\ NonEmpty(g) /\ AllBelow(g, next_seq_no)
      /\ next_seq_no \in Nat /\ s \in Nat
  BY InvRecords, BoundAssumption
<1>1. PICK c : IsList(list, c)
  BY DEF ListInv
<1>2. Records(list) = Recs(list.node, c)
  BY <1>1, ListFacts
<1>3. HeapFind(list, s) # NULL
  BY DEF FindAndDel
<1>4. PICK i : FindGap(Recs(list.node, c), s, i) /\ HeapFind(list, s) = c[i]
  BY <1>1, <1>3, FindLeads
<1> DEFINE h == DelGap(g, i, s)
<1>5. Leads(R.list, h) /\ R.rc = DelLost(g, i, s) /\ FindGap(g, s, i)
  <2>1. /\ Leads(HeapDel(list, c[i], s).list, DelGap(Recs(list.node, c), i, s))
        /\ HeapDel(list, c[i], s).rc = DelLost(Recs(list.node, c), i, s)
    BY <1>0, <1>1, <1>4, DelLeads
  <2> QED
    BY <1>2, <1>4, <2>1
<1>6. Records(R.list) = h /\ h \in Seq(Gap) /\ \E d : IsList(R.list, d)
  <2> HIDE DEF R, h
  <2> QED
    BY <1>5, LeadsRecords
<1>7. /\ list' = R.list /\ next_seq_no' = next_seq_no /\ now' = now
      /\ report' = [op |-> "del", rc |-> R.rc,
                    lost |-> Cardinality((Missing(g) \ {s}) \ Missing(Records(R.list)))]
  BY DEF FindAndDel, Returns
<1> HIDE DEF R, g
<1>8. Ordered(h) /\ AllBelow(h, next_seq_no)
  <2>1. Fills(g, h, s)
    BY <1>0, <1>5, DelGapFills
  <2> QED
    BY <1>0, <2>1 DEF Fills
<1>9. NonEmpty(h)
  <2>1. Leaves(g, h, s, DelDrops(g, i, s))
    BY <1>0, <1>5, DelGapLeaves
  <2> QED
    BY <1>0, <2>1 DEF Leaves
<1> DEFINE lost == Cardinality((Missing(g) \ {s}) \ Missing(h))
<1>10. DelLost(g, i, s) \in Nat /\ (DelLost(g, i, s) > 0 <=> lost > 0)
  BY <1>0, <1>5, DelLosses
<1> HIDE DEF h, lost
<1>11. Records(list') = h
  BY <1>6, <1>7
<1>12. report'.op = "del" /\ (report'.rc > 0 <=> report'.lost > 0) /\ report'.rc \in Int
  <2>1. report' = [op |-> "del", rc |-> R.rc, lost |-> lost]
    BY <1>6, <1>7 DEF lost
  <2> QED
    BY <1>5, <1>10, <2>1
<1>13. \E d : IsList(list', d)
  BY <1>6, <1>7
<1>14. RecordsOrdered'
  <2>1. Records(list)' = h /\ next_seq_no' = next_seq_no
    BY <1>7, <1>11
  <2> QED
    BY <1>8, <1>9, <2>1 DEF RecordsOrdered, NonEmpty
<1>15. LossNoticed'
  BY <1>12 DEF LossNoticed
<1>16. next_seq_no' \in 1..MaxSeqNo /\ now' \in 0..MaxClock
  BY <1>7 DEF ListInv
<1>17. ListInv'
  BY <1>12, <1>13, <1>14, <1>15, <1>16 DEF ListInv
<1>18. Tracker!FillGap(s)
  <2>1. i \in 1..Len(Records(list)) /\ Tracker!FindGap(Records(list), s, i)
    <3>1. FindGap(Records(list), s, i)
      BY <1>5 DEF g
    <3> QED
      BY <3>1, TrackerOperators DEF FindGap
  <2>2. Records(list') = Tracker!DelGap(Records(list), i, s)
    BY <1>11, TrackerOperators DEF g, h
  <2> QED
    BY <1>7, <2>1, <2>2 DEF Tracker!FillGap
<1> QED
  BY <1>17, <1>18

\* fh_shr_gap_fill_flush keeps the invariant and does what the tracker's ExpireGaps does.
LEMMA FlushStep ==
  ASSUME ListInv, Flush
  PROVE  ListInv' /\ Tracker!ExpireGaps
<1> DEFINE g == Records(list)
           R == HeapFlush(list, now)
<1>0. /\ g \in Seq(Gap) /\ Ordered(g) /\ NonEmpty(g) /\ AllBelow(g, next_seq_no)
      /\ next_seq_no \in Nat
  BY InvRecords
<1>1. PICK c : IsList(list, c)
  BY DEF ListInv
<1>2. Records(list) = Recs(list.node, c)
  BY <1>1, ListFacts
<1>3. PICK k \in 0..Len(g) : /\ ExpiredPrefix(g, now, k)
                             /\ Leads(R.list, DropPrefix(g, k))
                             /\ R.rc = Sizes(SubSeq(g, 1, k))
  <2>1. \E j \in 0..Len(Recs(list.node, c)) :
           /\ ExpiredPrefix(Recs(list.node, c), now, j)
           /\ Leads(R.list, DropPrefix(Recs(list.node, c), j))
           /\ R.rc = Sizes(SubSeq(Recs(list.node, c), 1, j))
    BY <1>1, FlushLeads
  <2> QED
    BY <1>2, <2>1
<1> DEFINE h == DropPrefix(g, k)
<1>6. Records(R.list) = h /\ h \in Seq(Gap) /\ \E d : IsList(R.list, d)
  <2> HIDE DEF R, h
  <2> QED
    BY <1>3, LeadsRecords DEF h
<1>7. /\ list' = R.list /\ next_seq_no' = next_seq_no /\ now' = now
      /\ report' = [op |-> "flush", rc |-> R.rc,
                    lost |-> Cardinality((Missing(g) \ {}) \ Missing(Records(R.list)))]
  BY DEF Flush, Returns
<1> HIDE DEF R, g
<1>8. Ordered(h) /\ AllBelow(h, next_seq_no)
  BY <1>0, DropPrefixKeeps
<1>9. NonEmpty(h)
  <2>1. Leaves(g, h, 0, UNION {Span(g[j]) : j \in 1..k})
    BY <1>0, DropPrefixLeaves
  <2> QED
    BY <1>0, <2>1 DEF Leaves
<1> DEFINE lost == Cardinality((Missing(g) \ {}) \ Missing(h))
<1>10. lost = Sizes(SubSeq(g, 1, k)) /\ Sizes(SubSeq(g, 1, k)) \in Nat
  BY <1>0, FlushLosses
<1> HIDE DEF h, lost
<1>11. Records(list') = h
  BY <1>6, <1>7
<1>12. report'.op = "flush" /\ report'.rc = report'.lost /\ report'.rc \in Int
  <2>1. report' = [op |-> "flush", rc |-> R.rc, lost |-> lost]
    BY <1>6, <1>7 DEF lost
  <2> QED
    BY <1>3, <1>10, <2>1
<1>13. \E d : IsList(list', d)
  BY <1>6, <1>7
<1>14. RecordsOrdered'
  <2>1. Records(list)' = h /\ next_seq_no' = next_seq_no
    BY <1>7, <1>11
  <2> QED
    BY <1>8, <1>9, <2>1 DEF RecordsOrdered, NonEmpty
<1>15. LossNoticed'
  BY <1>12 DEF LossNoticed
<1>16. next_seq_no' \in 1..MaxSeqNo /\ now' \in 0..MaxClock
  BY <1>7 DEF ListInv
<1>17. ListInv'
  BY <1>12, <1>13, <1>14, <1>15, <1>16 DEF ListInv
<1>18. Tracker!ExpireGaps
  <2>1. k \in 0..Len(Records(list)) /\ Tracker!ExpiredPrefix(Records(list), now, k)
    BY <1>3, TrackerOperators DEF g
  <2>2. Records(list') = Tracker!DropPrefix(Records(list), k)
    BY <1>11, TrackerOperators DEF g, h
  <2> QED
    BY <1>7, <2>1, <2>2 DEF Tracker!ExpireGaps
<1> QED
  BY <1>17, <1>18

\* The steps that leave the list alone.
LEMMA OtherStep ==
  ASSUME ListInv, Arrive \/ Tick \/ UNCHANGED vars
  PROVE  ListInv' /\ [Tracker!InOrder \/ Tracker!Tick]_(Tracker!trackerVars)
<1>0. /\ Records(list) \in Seq(Gap) /\ AllBelow(Records(list), next_seq_no) /\ next_seq_no \in Nat
      /\ MaxSeqNo \in Nat /\ MaxClock \in Nat /\ next_seq_no \in 1..MaxSeqNo /\ now \in 0..MaxClock
  BY InvRecords, BoundAssumption DEF ListInv
<1>1. list' = list /\ report' = report
  BY DEF Arrive, Tick, vars
<1>2. /\ next_seq_no' = next_seq_no \/ (next_seq_no' = next_seq_no + 1 /\ next_seq_no < MaxSeqNo)
      /\ now' = now \/ (now' = now + 1 /\ now < MaxClock)
  BY DEF Arrive, Tick, vars
<1>3. next_seq_no' \in 1..MaxSeqNo /\ now' \in 0..MaxClock
  BY <1>0, <1>2
<1>4. AllBelow(Records(list), next_seq_no')
  <2> DEFINE g == Records(list)
  <2>1. ASSUME NEW i \in 1..Len(g) PROVE g[i].seq_no + g[i].size <= next_seq_no'
    <3>1. g[i].seq_no \in Nat /\ g[i].size \in Nat
      BY <1>0, RecordFields
    <3>2. g[i].seq_no + g[i].size <= next_seq_no
      BY <1>0 DEF AllBelow
    <3> QED
      BY <1>0, <1>2, <3>1, <3>2
  <2> QED
    BY <2>1 DEF AllBelow
<1>5. RecordsOrdered'
  <2>1. Records(list)' = Records(list)
    BY <1>1
  <2> QED
    BY <1>4, <2>1 DEF ListInv, RecordsOrdered
<1>6. LossNoticed'
  BY <1>1 DEF ListInv, LossNoticed
<1>7. ListInv'
  BY <1>1, <1>3, <1>5, <1>6 DEF ListInv
<1>8. [Tracker!InOrder \/ Tracker!Tick]_(Tracker!trackerVars)
  BY <1>1 DEF Arrive, Tick, vars, Tracker!InOrder, Tracker!Tick, Tracker!trackerVars
<1> QED
  BY <1>7, <1>8

\* Every step keeps the invariant and is a step of the tracker or a stutter.
LEMMA ListStep ==
  ASSUME GapMax >= 2
  PROVE  ListInv /\ [Next]_vars => ListInv' /\ [Tracker!TrackerNext]_(Tracker!trackerVars)
<1> SUFFICES ASSUME ListInv, [Next]_vars
             PROVE  ListInv' /\ [Tracker!TrackerNext]_(Tracker!trackerVars)
  OBVIOUS
<1>1. ASSUME NEW n \in 1..MaxSeqNo, Push(n)
      PROVE  ListInv' /\ [Tracker!TrackerNext]_(Tracker!trackerVars)
  BY <1>1, PushStep DEF Tracker!TrackerNext
<1>2. ASSUME NEW s \in 1..MaxSeqNo, FindAndDel(s)
      PROVE  ListInv' /\ [Tracker!TrackerNext]_(Tracker!trackerVars)
  BY <1>2, DelStep DEF Tracker!TrackerNext
<1>3. CASE Flush
  BY <1>3, FlushStep DEF Tracker!TrackerNext
<1>4. CASE Arrive \/ Tick \/ UNCHANGED vars
  BY <1>4, OtherStep DEF Tracker!TrackerNext
<1> QED
  BY <1>1, <1>2, <1>3, <1>4 DEF Next

\* fh_shr_gap_fill_new makes a list that satisfies the invariant.
LEMMA ListInit == Init => ListInv
<1> SUFFICES ASSUME Init PROVE ListInv
  OBVIOUS
<1>1. \E c : IsList(list, c)
  BY NewListIsList DEF Init
<1>2. Records(list) = <<>>
  BY NewListIsList DEF Init
<1>3. RecordsOrdered
  BY <1>2 DEF RecordsOrdered, Ordered, AllBelow
<1>4. next_seq_no \in 1..MaxSeqNo /\ now \in 0..MaxClock /\ report.rc \in Int
  BY BoundAssumption DEF Init
<1>5. LossNoticed
  BY DEF Init, LossNoticed
<1> QED
  BY <1>1, <1>3, <1>4, <1>5 DEF ListInv

\* The inductive invariant: the list is linked and shares its chunks with the pool.
THEOREM ListInvariant ==
  ASSUME GapMax >= 2
  PROVE  Spec => []ListInv
<1>1. Init => ListInv
  BY ListInit
<1>2. ListInv /\ [Next]_vars => ListInv'
  BY ListStep
<1> QED
  BY <1>1, <1>2, PTL DEF Spec

\* What the invariant says of the linked list (fh_shr_gap_fill.h): no link dangles,
\* no chunk is lost or used twice, and the count is the length.
LEMMA ListInvSound == ListInv => ListSound
<1> SUFFICES ASSUME ListInv PROVE ListSound
  OBVIOUS
<1>1. PICK c : IsList(list, c)
  BY DEF ListInv
<1>2. /\ list \in Heap /\ list.ok = TRUE /\ Linked(list.node, list.head, list.tail, c)
      /\ Pool(list.free, c) /\ list.count = Len(c)
      /\ c \in Seq(Chunk) /\ Len(c) \in Nat /\ Len(c) <= GapMax /\ Chain(list) = c
  BY <1>1, ListFacts
<1>3. GapMax \in Nat
  BY GapAssumption
<1>4. TypeOK
  <2>1. list.count \in 0..GapMax
    BY <1>2, <1>3
  <2>2. list \in [node : [Chunk -> [seq_no : Nat, size : Nat, timestamp : Nat,
                                    next : Ptr, prev : Ptr]],
                  free : Seq(Chunk), head : Ptr, tail : Ptr, count : 0..GapMax, ok : BOOLEAN]
    BY <1>2, <2>1 DEF Heap, Node
  <2> QED
    BY <2>2 DEF TypeOK, ListInv
<1>5. ListIntact
  BY <1>1, ListIsOK DEF ListIntact
<1> QED
  BY <1>4, <1>5 DEF ListSound, ListInv

\* Whatever the number of nodes, greater than one, and whatever is pushed, filled
\* and expired: the links, the count and the pool of the gap list agree, and its
\* records are in order, not empty and below the caller's next number.
THEOREM ListCorrect ==
  ASSUME GapMax >= 2
  PROVE  Spec => []ListSound
  BY ListInvariant, ListInvSound, PTL

\* Push and flush return how many numbers they lose, and del returns a positive
\* code exactly when it loses some.
THEOREM LossesReported ==
  ASSUME GapMax >= 2
  PROVE  Spec => []LossNoticed
<1>1. ListInv => LossNoticed
  BY DEF ListInv
<1> QED
  BY <1>1, ListInvariant, PTL

\* The linked list of fh_shr_gap_fill.h does to its records what the abstract
\* gap tracker does, call by call.
THEOREM ListRefines ==
  ASSUME GapMax >= 2
  PROVE  Spec => ImplementsTracker
<1>1. Init => Tracker!TrackerInit
  BY NewListIsList DEF Init, Tracker!TrackerInit
<1>2. ListInv /\ [Next]_vars => [Tracker!TrackerNext]_(Tracker!trackerVars)
  BY ListStep
<1> QED
  BY <1>1, <1>2, ListInvariant, PTL DEF Spec, ImplementsTracker, Tracker!TrackerSpec

-----------------------------------------------------------------------------
(* The BATS lines (BatsLine), whose gapnode outlives the packet that set it. *)

\* A list that one caller uses, whose cursor is r: linked, its records in order,
\* not empty and below r.
ListGood(L, r) ==
  /\ \E c : IsList(L, c)
  /\ Ordered(Records(L)) /\ NonEmpty(Records(L)) /\ AllBelow(Records(L), r)

\* The node that is held on to, in the list or freed, covers numbers below r.
HeldOK(L, x, r) ==
  x # NULL => /\ x \in Chunk
              /\ L.node[x].size > 0
              /\ L.node[x].seq_no + L.node[x].size <= r

InChain(L, x) == x \in ToSet(Chain(L))

\* The numbers below r that were not processed and are in no gap any more.
Gone(L, r, n) ==
  {s \in 1..MaxSeqNo : s < r /\ n[s] = 0 /\ s \notin Missing(Records(L))}

Accounted(L, r, n, a) == Cardinality(Gone(L, r, n)) <= a

\* Numbers that go are accounted for when their count is added.
LEMMA CountGrows ==
  ASSUME NEW A, IsFiniteSet(A), NEW B, NEW D, IsFiniteSet(D), B \subseteq A \cup D,
         NEW a \in Int, Cardinality(A) <= a, NEW k \in Int, Cardinality(D) <= k
  PROVE  Cardinality(B) <= a + k
<1>1. /\ IsFiniteSet(A \cup D)
      /\ Cardinality(A \cup D) = Cardinality(A) + Cardinality(D) - Cardinality(A \cap D)
  BY FS_Union
<1>2. IsFiniteSet(A \cap D)
  BY FS_Subset
<1>3. /\ Cardinality(A) \in Nat /\ Cardinality(D) \in Nat /\ Cardinality(A \cap D) \in Nat
      /\ Cardinality(A \cup D) \in Nat
  BY <1>1, <1>2, FS_CardinalityType
<1>4. Cardinality(B) <= Cardinality(A \cup D) /\ IsFiniteSet(B)
  BY <1>1, FS_Subset
<1>5. Cardinality(B) \in Nat
  BY <1>4, FS_CardinalityType
<1> DEFINE ca == Cardinality(A)
           cd == Cardinality(D)
           cb == Cardinality(B)
           ci == Cardinality(A \cap D)
           cu == Cardinality(A \cup D)
<1>6. /\ ca \in Nat /\ cd \in Nat /\ cb \in Nat /\ ci \in Nat /\ cu \in Nat
      /\ cu = ca + cd - ci /\ cb <= cu /\ ca <= a /\ cd <= k
  BY <1>1, <1>3, <1>4, <1>5
<1> HIDE DEF ca, cd, cb, ci, cu
<1>7. cb <= a + k
  BY <1>6
<1> QED
  BY <1>7 DEF cb

\* The numbers that are gone are finitely many.
LEMMA GoneFinite ==
  ASSUME NEW L, NEW r, NEW n
  PROVE  IsFiniteSet(Gone(L, r, n)) /\ Cardinality(Gone(L, r, n)) \in Nat
<1>1. IsFiniteSet(1..MaxSeqNo)
  BY BoundAssumption, FS_Interval
<1>2. Gone(L, r, n) \subseteq 1..MaxSeqNo
  BY DEF Gone
<1>3. IsFiniteSet(Gone(L, r, n))
  BY <1>1, <1>2, FS_Subset
<1> QED
  BY <1>3, FS_CardinalityType

\* Nothing but D is gone in the second list that was not gone in the first.
GoneBut(K, q, m, L, r, n, D) ==
  \A s \in 1..MaxSeqNo : s \in Gone(K, q, m) => s \in Gone(L, r, n) \/ s \in D

\* When the records lose the numbers D, at most those are gone as well.
LEMMA GoneGrows ==
  ASSUME NEW L, NEW K, NEW r, NEW n, NEW D, IsFiniteSet(D),
         NEW q, NEW m,
         GoneBut(K, q, m, L, r, n, D),
         NEW a \in Int, Accounted(L, r, n, a), NEW k \in Int, Cardinality(D) <= k
  PROVE  Accounted(K, q, m, a + k)
<1>1. IsFiniteSet(Gone(L, r, n))
  BY GoneFinite
<1>2. Gone(K, q, m) \subseteq Gone(L, r, n) \cup D
  BY DEF GoneBut, Gone
<1>3. Cardinality(Gone(L, r, n)) <= a
  BY DEF Accounted
<1> DEFINE A == Gone(L, r, n)
           B == Gone(K, q, m)
<1> HIDE DEF A, B
<1>4. Cardinality(B) <= a + k
  BY <1>1, <1>2, <1>3, CountGrows DEF A, B
<1> QED
  BY <1>4 DEF Accounted, B

\* What a good list gives.
LEMMA GoodFacts ==
  ASSUME NEW L, NEW r \in Nat, ListGood(L, r)
  PROVE  /\ Records(L) \in Seq(Gap) /\ L \in Heap /\ L.node \in [Chunk -> Node]
         /\ L.ok = TRUE
         /\ IsFiniteSet(Missing(Records(L)))
         /\ \E c : IsList(L, c) /\ Records(L) = Recs(L.node, c) /\ Chain(L) = c
<1>1. PICK c : IsList(L, c)
  BY DEF ListGood
<1>2. /\ L \in Heap /\ L.ok = TRUE /\ L.node \in [Chunk -> Node] /\ c \in Seq(Chunk)
      /\ Records(L) = Recs(L.node, c) /\ Chain(L) = c
  BY <1>1, ListFacts
<1>3. Records(L) \in Seq(Gap)
  BY <1>2, RecsElements
<1>4. IsFiniteSet(Missing(Records(L)))
  BY <1>3, SizesCount
<1> QED
  BY <1>1, <1>2, <1>3, <1>4

SameRec(K, L, x) == x \in Chunk => Rec(K.node, x) = Rec(L.node, x)

\* The same contents and a cursor no lower: the node may still be held.
LEMMA HeldStays ==
  ASSUME NEW L, NEW K, L.node \in [Chunk -> Node], K.node \in [Chunk -> Node],
         NEW x, NEW r \in Nat, NEW q \in Nat, r <= q, HeldOK(L, x, r),
         SameRec(K, L, x)
  PROVE  HeldOK(K, x, q)
<1> SUFFICES ASSUME x # NULL
             PROVE  x \in Chunk /\ K.node[x].size > 0 /\ K.node[x].seq_no + K.node[x].size <= q
  BY DEF HeldOK
<1>1. x \in Chunk /\ L.node[x].size > 0 /\ L.node[x].seq_no + L.node[x].size <= r
  BY DEF HeldOK
<1>2. K.node[x].size = L.node[x].size /\ K.node[x].seq_no = L.node[x].seq_no
      /\ L.node[x].size \in Nat /\ L.node[x].seq_no \in Nat
  <2>1. /\ Rec(L.node, x) \in Gap
        /\ Rec(L.node, x).seq_no = L.node[x].seq_no /\ Rec(L.node, x).size = L.node[x].size
    BY <1>1, RecFields
  <2>2. Rec(K.node, x).seq_no = K.node[x].seq_no /\ Rec(K.node, x).size = K.node[x].size
    BY <1>1, RecFields
  <2> QED
    BY <1>1, <2>1, <2>2 DEF Gap, SameRec
<1> QED
  BY <1>1, <1>2

\* A node of the list itself may be held.
LEMMA ChainHeld ==
  ASSUME NEW L, NEW r \in Nat, ListGood(L, r), NEW x, InChain(L, x)
  PROVE  HeldOK(L, x, r) /\ x \in Chunk /\ x # NULL
<1>1. PICK c : IsList(L, c) /\ Records(L) = Recs(L.node, c) /\ Chain(L) = c
  BY GoodFacts
<1>2. c \in Seq(Chunk) /\ L.node \in [Chunk -> Node]
  BY <1>1, ListFacts
<1>3. PICK i \in 1..Len(c) : x = c[i]
  BY <1>1, <1>2 DEF InChain, ToSet
<1>4. x \in Chunk
  BY <1>2, <1>3
<1>5. Records(L)[i] = Rec(L.node, x) /\ i \in 1..Len(Records(L))
  BY <1>1, <1>2, <1>3, RecsElements
<1>6. Records(L)[i].size > 0 /\ Records(L)[i].seq_no + Records(L)[i].size <= r
  BY <1>5 DEF ListGood, NonEmpty, AllBelow
<1>7. Rec(L.node, x).seq_no = L.node[x].seq_no /\ Rec(L.node, x).size = L.node[x].size
  BY <1>2, <1>4, RecFields
<1>8. x # NULL
  BY <1>4, GapAssumption DEF Chunk, NULL
<1> QED
  BY <1>4, <1>5, <1>6, <1>7, <1>8 DEF HeldOK

\* Flush (the first call of fh_bats_parse_duplicate) keeps the list good, leaves
\* the held node what it was, and returns at least what is gone by it.
LEMMA FlushGood ==
  ASSUME NEW L, NEW r \in Nat, ListGood(L, r), NEW t
  PROVE  LET f == HeapFlush(L, t)
         IN  /\ ListGood(f.list, r) /\ f.rc \in Nat
             /\ \A x : HeldOK(L, x, r) => HeldOK(f.list, x, r)
             /\ \A n : \A a \in Int : Accounted(L, r, n, a) => Accounted(f.list, r, n, a + f.rc)
<1> DEFINE g == Records(L)
           R == HeapFlush(L, t)
           K == R.list
<1>1. PICK c : IsList(L, c) /\ g = Recs(L.node, c)
  BY GoodFacts
<1>2. g \in Seq(Gap) /\ L \in Heap /\ L.node \in [Chunk -> Node] /\ IsFiniteSet(Missing(g))
  BY GoodFacts
<1>3. PICK k \in 0..Len(g) : Leads(K, DropPrefix(g, k)) /\ R.rc = Sizes(SubSeq(g, 1, k))
  BY <1>1, FlushLeads
<1> DEFINE h == DropPrefix(g, k)
<1>4. Records(K) = h /\ h \in Seq(Gap) /\ \E d : IsList(K, d)
  <2> HIDE DEF K, h
  <2> QED
    BY <1>3, LeadsRecords DEF h
<1>5. Ordered(g) /\ NonEmpty(g) /\ AllBelow(g, r)
  BY DEF ListGood
<1>r. \A z \in Chunk : Rec(K.node, z) = Rec(L.node, z)
  BY <1>2, FlushKeepsRec
<1> HIDE DEF g, K
<1>6. Ordered(h) /\ AllBelow(h, r)
  BY <1>2, <1>5, DropPrefixKeeps
<1>7. NonEmpty(h)
  <2>1. Leaves(g, h, 0, UNION {Span(g[j]) : j \in 1..k})
    BY <1>2, DropPrefixLeaves
  <2> QED
    BY <1>5, <2>1 DEF Leaves
<1>8. ListGood(K, r)
  BY <1>4, <1>6, <1>7 DEF ListGood
<1>9. K \in Heap /\ K.node \in [Chunk -> Node]
  BY <1>8, GoodFacts
<1>10. ASSUME NEW x, HeldOK(L, x, r) PROVE HeldOK(K, x, r)
  <2>1. SameRec(K, L, x) /\ r <= r
    BY <1>r DEF SameRec
  <2> QED
    BY <1>2, <1>9, <1>10, <2>1, HeldStays
<1>11. ASSUME NEW n, NEW a \in Int, Accounted(L, r, n, a) PROVE Accounted(K, r, n, a + R.rc)
  <2> DEFINE D == (Missing(g) \ {}) \ Missing(h)
  <2>1. Cardinality(D) <= R.rc /\ R.rc \in Int
    <3>1. Cardinality(D) = R.rc /\ R.rc \in Nat
      BY <1>2, <1>3, <1>5, FlushLosses
    <3> HIDE DEF D, R
    <3> QED
      BY <3>1
  <2>2. IsFiniteSet(D)
    BY <1>2, FS_Subset
  <2>3. GoneBut(K, r, n, L, r, n, D)
    BY <1>4 DEF GoneBut, Gone, g
  <2> HIDE DEF D, R
  <2> QED
    BY <1>11, <2>1, <2>2, <2>3, GoneGrows
<1>12. R.rc \in Nat
  BY <1>2, <1>3, <1>5, FlushLosses
<1> HIDE DEF R
<1> QED
  BY <1>8, <1>10, <1>11, <1>12 DEF K, R

\* Push, for a packet that is early, keeps the list good below the packet's number
\* and returns what is gone by it; a held node that it takes for the new gap
\* covers that gap.
LEMMA PushGood ==
  ASSUME GapMax >= 2, NEW L, NEW r \in Nat, ListGood(L, r), NEW s \in Nat, s > r, NEW t \in Nat
  PROVE  LET h == HeapPush(L, r, s - r, t)
         IN  /\ ListGood(h.list, s) /\ h.rc \in Nat
             /\ \A x : HeldOK(L, x, r) => HeldOK(h.list, x, s)
             /\ \A n : \A a \in Int : Accounted(L, r, n, a) => Accounted(h.list, s, n, a + h.rc)
<1> DEFINE g == Records(L)
           w == s - r
           R == HeapPush(L, r, w, t)
           K == R.list
           h == PushGap(g, r, w, t)
<1>0. w \in Nat /\ w > 0 /\ r + w = s /\ GapMax \in Nat /\ GapMax > 0
  BY GapAssumption
<1>1. PICK c : IsList(L, c) /\ g = Recs(L.node, c)
  BY GoodFacts
<1>2. g \in Seq(Gap) /\ L \in Heap /\ L.node \in [Chunk -> Node] /\ IsFiniteSet(Missing(g))
  BY GoodFacts
<1> HIDE DEF w
<1>3. Leads(K, h) /\ R.rc = PushLost(g)
  BY <1>0, <1>1, PushLeads
<1>r. \A z \in Chunk : Rec(K.node, z) = Rec(L.node, z) \/ Rec(K.node, z) = NewGap(r, w, t)
  BY <1>0, <1>1, PushKeepsRec
<1>4. Records(K) = h /\ h \in Seq(Gap) /\ \E d : IsList(K, d)
  <2> HIDE DEF K, h
  <2> QED
    BY <1>3, LeadsRecords
<1>5. Ordered(g) /\ NonEmpty(g) /\ AllBelow(g, r)
  BY DEF ListGood
<1> HIDE DEF g, K, R
<1>6. Ordered(h) /\ AllBelow(h, s)
  BY <1>0, <1>2, <1>5, PushGapKeeps
<1>7. NonEmpty(h)
  BY <1>0, <1>2, <1>5, PushGapLeaves
<1>p. r .. (r + w - 1) \subseteq Missing(h)
  BY <1>0, <1>2, <1>5, PushGapLeaves
<1>8. ListGood(K, s)
  BY <1>4, <1>6, <1>7 DEF ListGood
<1>9. K \in Heap /\ K.node \in [Chunk -> Node]
  BY <1>8, GoodFacts
<1>10. ASSUME NEW x, HeldOK(L, x, r) PROVE HeldOK(K, x, s)
  <2>1. CASE x = NULL
    BY <2>1 DEF HeldOK
  <2>2. CASE x # NULL /\ Rec(K.node, x) = Rec(L.node, x)
    <3>1. r <= s /\ SameRec(K, L, x)
      BY <2>2 DEF SameRec
    <3> QED
      BY <1>2, <1>9, <1>10, <2>2, <3>1, HeldStays
  <2>3. CASE x # NULL /\ Rec(K.node, x) = NewGap(r, w, t)
    <3>1. x \in Chunk
      BY <1>10, <2>3 DEF HeldOK
    <3>2. K.node[x].seq_no = r /\ K.node[x].size = w
      <4>1. Rec(K.node, x).seq_no = K.node[x].seq_no /\ Rec(K.node, x).size = K.node[x].size
        BY <1>9, <3>1, RecFields
      <4> QED
        BY <2>3, <4>1 DEF NewGap
    <3> QED
      BY <1>0, <3>1, <3>2 DEF HeldOK
  <2>4. x # NULL => x \in Chunk
    BY <1>10 DEF HeldOK
  <2> QED
    BY <1>r, <2>1, <2>2, <2>3, <2>4
<1> DEFINE D == (Missing(g) \ {}) \ Missing(h)
<1>11. Cardinality(D) = R.rc
  BY <1>0, <1>2, <1>3, <1>5, PushLosses
<1>12. IsFiniteSet(D)
  BY <1>2, FS_Subset
<1>13. R.rc \in Nat
  BY <1>11, <1>12, FS_CardinalityType
<1>14. ASSUME NEW n, NEW a \in Int, Accounted(L, r, n, a) PROVE Accounted(K, s, n, a + R.rc)
  <2>1. ASSUME NEW z \in 1..MaxSeqNo, z \in Gone(K, s, n) PROVE z \in Gone(L, r, n) \/ z \in D
    <3>1. z < s /\ n[z] = 0 /\ z \notin Missing(h)
      BY <1>4, <2>1 DEF Gone
    <3>2. z < r
      <4>1. z \notin r .. (r + w - 1)
        BY <1>p, <3>1
      <4> QED
        BY <1>0, <3>1, <4>1, BoundAssumption
    <3> QED
      BY <3>1, <3>2 DEF Gone, g
  <2> HIDE DEF D
  <2>2. GoneBut(K, s, n, L, r, n, D)
    BY <2>1 DEF GoneBut
  <2>3. Cardinality(D) <= R.rc /\ R.rc \in Int
    BY <1>11, <1>13
  <2> QED
    BY <1>12, <1>14, <2>2, <2>3, GoneGrows
<1> QED
  BY <1>8, <1>10, <1>13, <1>14 DEF K, R, w

\* Find hands back NULL or a node of the list.
LEMMA FindGood ==
  ASSUME NEW L, NEW r \in Nat, ListGood(L, r), NEW s
  PROVE  HeapFind(L, s) = NULL \/ InChain(L, HeapFind(L, s))
<1> SUFFICES ASSUME HeapFind(L, s) # NULL PROVE InChain(L, HeapFind(L, s))
  OBVIOUS
<1>1. PICK c : IsList(L, c) /\ Chain(L) = c
  BY GoodFacts
<1>2. PICK i : FindGap(Recs(L.node, c), s, i) /\ HeapFind(L, s) = c[i]
  BY <1>1, FindLeads
<1>3. c \in Seq(Chunk) /\ L.node \in [Chunk -> Node]
  BY <1>1, ListFacts
<1>4. i \in 1..Len(c)
  BY <1>2, <1>3, RecsElements DEF FindGap
<1> QED
  BY <1>1, <1>2, <1>3, <1>4 DEF InChain, ToSet

\* The counts after one more message of number s.
CountedAt(m, n, s) == m[s] # 0 /\ \A z \in 1..MaxSeqNo : z # s => m[z] = n[z]

\* A message that the held node does not cover changes nothing in the list.
LEMMA DelMissGood ==
  ASSUME NEW L, NEW r \in Nat, ListGood(L, r), NEW x \in Chunk, HeldOK(L, x, r), x # NULL,
         NEW s \in Nat, s \notin Span(L.node[x])
  PROVE  LET d == HeapDel(L, x, s)
         IN  /\ d.list = L /\ d.node = x /\ d.rc = 0 /\ HeapDropped(L, x, s) = 0
             /\ \A n, m : \A a \in Int : CountedAt(m, n, s) /\ Accounted(L, r, n, a)
                                       => Accounted(L, r, m, a)
<1>1. L \in Heap /\ L.node[x].size > 0
  BY GoodFacts DEF HeldOK
<1>2. HeapDel(L, x, s) = [list |-> L, rc |-> 0, node |-> x] /\ HeapDropped(L, x, s) = 0
  BY <1>1, DelMisses
<1>3. ASSUME NEW n, NEW m, NEW a \in Int, CountedAt(m, n, s), Accounted(L, r, n, a)
      PROVE  Accounted(L, r, m, a)
  <2>1. GoneBut(L, r, m, L, r, n, {})
    BY <1>3 DEF GoneBut, Gone, CountedAt
  <2>2. IsFiniteSet({}) /\ Cardinality({}) <= 0
    BY FS_EmptySet
  <2>3. Accounted(L, r, m, a + 0)
    BY <1>3, <2>1, <2>2, GoneGrows
  <2> QED
    BY <2>3
<1> QED
  BY <1>2, <1>3

\* A message that it covers is taken out of the list, and what makes room is
\* what HeapDropped says; the node that del hands back is in the list.
LEMMA DelHitGood ==
  ASSUME NEW L, NEW r \in Nat, ListGood(L, r), NEW x, InChain(L, x),
         NEW s \in Nat, s \in Span(L.node[x])
  PROVE  LET d == HeapDel(L, x, s)
         IN  /\ ListGood(d.list, r) /\ d.rc \in Nat /\ HeapDropped(L, x, s) \in Nat
             /\ d.node = NULL \/ InChain(d.list, d.node)
             /\ \A n, m : \A a \in Int : CountedAt(m, n, s) /\ Accounted(L, r, n, a)
                   => Accounted(d.list, r, m, a + HeapDropped(L, x, s))
<1> DEFINE g == Records(L)
           R == HeapDel(L, x, s)
           K == R.list
<1>1. PICK c : IsList(L, c) /\ g = Recs(L.node, c) /\ Chain(L) = c
  BY GoodFacts
<1>2. g \in Seq(Gap) /\ L \in Heap /\ L.node \in [Chunk -> Node] /\ IsFiniteSet(Missing(g))
      /\ c \in Seq(Chunk)
  BY <1>1, GoodFacts, ListFacts
<1>3. Ordered(g) /\ NonEmpty(g) /\ AllBelow(g, r)
  BY DEF ListGood
<1>4. PICK i \in 1..Len(c) : x = c[i]
  BY <1>1, <1>2 DEF InChain, ToSet
<1>5. i \in 1..Len(g) /\ g[i] = Rec(L.node, x) /\ x \in Chunk
  BY <1>1, <1>2, <1>4, RecsElements
<1>6. s \in Span(g[i])
  BY <1>2, <1>5, SpanOfNode
<1>7. FindGap(g, s, i)
  <2> HIDE DEF g
  <2> QED
    BY <1>2, <1>3, <1>5, <1>6, CoveringIsFound
<1> DEFINE h == DelGap(g, i, s)
           D == DelDrops(g, i, s)
<1>8. Leads(K, h) /\ R.rc = DelLost(g, i, s)
  BY <1>1, <1>4, <1>7, DelLeads
<1>9. HeapDropped(L, x, s) = DelDropped(g, i, s)
  BY <1>1, <1>4, DroppedIs
<1>10. R.node = NULL \/ (R.node \in Chunk /\ R.node \notin ToSet(K.free))
  BY <1>1, <1>4, DelNodeNotFree
<1>11. Records(K) = h /\ h \in Seq(Gap) /\ \E d : IsList(K, d)
  <2> HIDE DEF K, h
  <2> QED
    BY <1>8, LeadsRecords
<1> HIDE DEF K, R
<1>12. R.node = NULL \/ InChain(K, R.node)
  <2>1. PICK d : IsList(K, d)
    BY <1>11
  <2>2. Pool(K.free, d) /\ Chain(K) = d
    BY <2>1, ListFacts
  <2> QED
    BY <1>10, <2>2 DEF Pool, InChain
<1>13. \A z : z \in Missing(g) <=> z \in Missing(Records(L))
  OBVIOUS
<1> HIDE DEF g
<1>14. Fills(g, h, s)
  BY <1>2, <1>3, <1>7, DelGapFills
<1>15. Leaves(g, h, s, D)
  BY <1>2, <1>7, DelGapLeaves
<1>16. ListGood(K, r)
  BY <1>3, <1>11, <1>14, <1>15 DEF ListGood, Fills, Leaves
<1>17. /\ IsFiniteSet(D) /\ Cardinality(D) = HeapDropped(L, x, s)
       /\ HeapDropped(L, x, s) \in Nat /\ R.rc \in Nat
  BY <1>2, <1>7, <1>8, <1>9, DropsCount
<1>18. ASSUME NEW n, NEW m, NEW a \in Int, CountedAt(m, n, s), Accounted(L, r, n, a)
       PROVE  Accounted(K, r, m, a + HeapDropped(L, x, s))
  <2>1. ASSUME NEW z \in 1..MaxSeqNo, z \in Gone(K, r, m) PROVE z \in Gone(L, r, n) \/ z \in D
    <3>1. z < r /\ m[z] = 0 /\ z \notin Missing(h)
      BY <1>11, <2>1 DEF Gone
    <3>2. z # s /\ n[z] = 0
      BY <1>18, <3>1 DEF CountedAt
    <3>3. z \in Missing(g) => z \in D
      BY <1>15, <3>1, <3>2 DEF Leaves
    <3> QED
      BY <1>13, <3>1, <3>2, <3>3 DEF Gone
  <2> DEFINE k == HeapDropped(L, x, s)
  <2> HIDE DEF D, k
  <2>2. GoneBut(K, r, m, L, r, n, D)
    BY <2>1 DEF GoneBut
  <2>3. Cardinality(D) <= k /\ k \in Int /\ IsFiniteSet(D)
    BY <1>17 DEF k
  <2>4. Accounted(K, r, m, a + k)
    BY <1>18, <2>2, <2>3, GoneGrows
  <2> QED
    BY <2>4 DEF k
<1> HIDE DEF D, h
<1> QED
  BY <1>12, <1>16, <1>17, <1>18 DEF K, R

-----------------------------------------------------------------------------
(* A packet of a BATS line.                                                 *)

Pkt == [list : Heap, node : Ptr, resume : Nat, count : [1..MaxSeqNo -> 0..2],
        lost : Int, dropped : Int, stop : BOOLEAN]

\* A packet that is being parsed, on the only line: the list is good below the
\* line's number, the gap node may be held, and what is gone is accounted for.
Sound(p) ==
  /\ p \in Pkt
  /\ ListGood(p.list, p.resume)
  /\ HeldOK(p.list, p.node, p.resume)
  /\ Accounted(p.list, p.resume, p.count, p.lost + p.dropped)

\* What the next message s of the packet meets: no gap node and s is the line's
\* number; or a gap node that is in the list or, wherever it is, covers numbers
\* below s only.
Aligned(p, s) ==
  \/ p.stop
  \/ p.node = NULL /\ p.resume = s
  \/ p.node # NULL /\ (InChain(p.list, p.node) \/ s >= p.resume)

\* A count that is raised, up to two.
LEMMA OftenCounts ==
  ASSUME NEW a \in 0..2
  PROVE  Min({a + 1, Often}) \in 1..2
<1>1. Often = 2 /\ a + 1 \in 1..3
  BY DEF Often
<1>2. \E x \in {a + 1, 2} : \A y \in {a + 1, 2} : x <= y
  BY <1>1
<1>3. Min({a + 1, 2}) \in {a + 1, 2} /\ \A y \in {a + 1, 2} : Min({a + 1, 2}) <= y
  BY <1>2 DEF Min
<1> QED
  BY <1>1, <1>3

\* The counts after a message.
LEMMA CountsRaised ==
  ASSUME NEW n \in [1..MaxSeqNo -> 0..2], NEW s \in 1..MaxSeqNo
  PROVE  LET m == [n EXCEPT ![s] = Min({@ + 1, Often})]
         IN  m \in [1..MaxSeqNo -> 0..2] /\ CountedAt(m, n, s)
<1> DEFINE v == Min({n[s] + 1, Often})
<1>1. v \in 1..2
  BY OftenCounts
<1> HIDE DEF v
<1>2. [n EXCEPT ![s] = v] \in [1..MaxSeqNo -> 0..2] /\ CountedAt([n EXCEPT ![s] = v], n, s)
  BY <1>1 DEF CountedAt
<1> QED
  BY <1>2 DEF v

\* A packet's record, field by field.
PktOf(L, x, r, n, a, b, e) ==
  [list |-> L, node |-> x, resume |-> r, count |-> n, lost |-> a, dropped |-> b, stop |-> e]

\* A packet is the record of its fields, and changing a field changes that field.
LEMMA PktFields ==
  ASSUME NEW p \in Pkt
  PROVE  /\ p = PktOf(p.list, p.node, p.resume, p.count, p.lost, p.dropped, p.stop)
         /\ p.list \in Heap /\ p.node \in Ptr /\ p.resume \in Nat
         /\ p.count \in [1..MaxSeqNo -> 0..2] /\ p.lost \in Int /\ p.dropped \in Int
         /\ p.stop \in BOOLEAN
  BY DEF Pkt, PktOf

\* The other way round.
LEMMA PktIsPkt ==
  ASSUME NEW L \in Heap, NEW x \in Ptr, NEW r \in Nat, NEW n \in [1..MaxSeqNo -> 0..2],
         NEW a \in Int, NEW b \in Int, NEW e \in BOOLEAN
  PROVE  PktOf(L, x, r, n, a, b, e) \in Pkt
  BY DEF Pkt, PktOf

\* Counting a message changes the counts only.
LEMMA PktCount ==
  ASSUME NEW L, NEW x, NEW r, NEW n, NEW a, NEW b, NEW e, NEW y
  PROVE  [PktOf(L, x, r, n, a, b, e) EXCEPT !.count = y] = PktOf(L, x, r, y, a, b, e)
  BY DEF PktOf

\* A message that comes in order moves the line.
LEMMA MsgInOrder ==
  ASSUME NEW p, Sound(p), NEW s \in 1..MaxSeqNo, ~p.stop, p.node = NULL, p.resume = s
  PROVE  Sound(ParseMsg(p, s)) /\ Aligned(ParseMsg(p, s), s + 1)
<1> DEFINE m == [p.count EXCEPT ![s] = Min({@ + 1, Often})]
           q == ParseMsg(p, s)
<1>0. /\ p \in Pkt /\ p.list \in Heap /\ p.resume \in Nat /\ p.count \in [1..MaxSeqNo -> 0..2]
      /\ p.lost \in Int /\ p.dropped \in Int /\ p.stop = FALSE /\ s \in Nat
  BY BoundAssumption DEF Sound, Pkt
<1>1. m \in [1..MaxSeqNo -> 0..2] /\ CountedAt(m, p.count, s)
  BY <1>0, CountsRaised
<1>2. ListGood(p.list, s) /\ p.list.ok = TRUE /\ Records(p.list) \in Seq(Gap)
  BY <1>0, GoodFacts DEF Sound
<1>3. q = PktOf(p.list, NULL, s + 1, m, p.lost, p.dropped, p.stop)
  <2>2. [p EXCEPT !.count[s] = Min({@ + 1, Often})] =
          PktOf(p.list, NULL, s, m, p.lost, p.dropped, p.stop)
    <3>1. [p EXCEPT !.count[s] = Min({@ + 1, Often})] = [p EXCEPT !.count = m]
      BY <1>0 DEF Pkt
    <3>2. p = PktOf(p.list, NULL, s, p.count, p.lost, p.dropped, p.stop)
      BY <1>0, PktFields
    <3> HIDE DEF m
    <3>3. [PktOf(p.list, NULL, s, p.count, p.lost, p.dropped, p.stop) EXCEPT !.count = m] =
            PktOf(p.list, NULL, s, m, p.lost, p.dropped, p.stop)
      BY PktCount
    <3> QED
      BY <3>1, <3>2, <3>3, Zenon
  <2>3. q = [[p EXCEPT !.count[s] = Min({@ + 1, Often})] EXCEPT !.resume = @ + 1]
    BY <1>0, <1>2 DEF ParseMsg
  <2> HIDE DEF q, m
  <2>4. q = [PktOf(p.list, NULL, s, m, p.lost, p.dropped, p.stop) EXCEPT !.resume = @ + 1]
    BY <2>2, <2>3
  <2> QED
    BY <2>4 DEF PktOf
<1> HIDE DEF q, m
<1>4. /\ q \in Pkt /\ q.list = p.list /\ q.node = NULL /\ q.resume = s + 1 /\ q.count = m
      /\ q.lost = p.lost /\ q.dropped = p.dropped /\ q.stop = FALSE
  <2>1. s + 1 \in Nat /\ NULL \in Ptr
    BY <1>0 DEF Ptr
  <2>2. q \in Pkt
    BY <1>0, <1>1, <1>3, <2>1, PktIsPkt
  <2> QED
    BY <1>3, <2>2 DEF PktOf
<1>5. ListGood(p.list, s + 1)
  <2> DEFINE g == Records(p.list)
  <2>1. ASSUME NEW i \in 1..Len(g) PROVE g[i].seq_no + g[i].size <= s + 1
    <3>1. g[i].seq_no \in Nat /\ g[i].size \in Nat
      BY <1>2, RecordFields
    <3>2. g[i].seq_no + g[i].size <= s
      BY <1>2 DEF ListGood, AllBelow
    <3> QED
      BY <1>0, <3>1, <3>2
  <2> QED
    BY <1>2, <2>1 DEF ListGood, AllBelow
<1>6. Accounted(p.list, s + 1, m, p.lost + p.dropped)
  <2> DEFINE a == p.lost + p.dropped
             u == s + 1
  <2>1. GoneBut(p.list, u, m, p.list, s, p.count, {})
    BY <1>0, <1>1, BoundAssumption DEF GoneBut, Gone, CountedAt
  <2>2. Accounted(p.list, s, p.count, a) /\ a \in Int
    BY <1>0 DEF Sound
  <2>3. IsFiniteSet({}) /\ Cardinality({}) <= 0
    BY FS_EmptySet
  <2> HIDE DEF a, u
  <2>4. Accounted(p.list, u, m, a + 0)
    BY <2>1, <2>2, <2>3, GoneGrows
  <2> QED
    BY <2>2, <2>4 DEF u, a
<1>7. Sound(q)
  BY <1>4, <1>5, <1>6 DEF Sound, HeldOK
<1>8. Aligned(q, s + 1)
  BY <1>4 DEF Aligned
<1> QED
  BY <1>7, <1>8 DEF q

\* A message with a gap node is taken out of the list.
LEMMA MsgInGap ==
  ASSUME NEW p, Sound(p), NEW s \in 1..MaxSeqNo, ~p.stop, p.node # NULL,
         InChain(p.list, p.node) \/ s >= p.resume
  PROVE  Sound(ParseMsg(p, s)) /\ Aligned(ParseMsg(p, s), s + 1)
<1> DEFINE n == p.count
           m == [n EXCEPT ![s] = Min({@ + 1, Often})]
           q == ParseMsg(p, s)
           L == p.list
           x == p.node
           d == HeapDel(L, x, s)
           lost == IF d.rc > 0 THEN d.rc ELSE 0
           w == HeapDropped(L, x, s)
           r == p.resume
<1>0. /\ p \in Pkt /\ L \in Heap /\ r \in Nat /\ n \in [1..MaxSeqNo -> 0..2]
      /\ p.lost \in Int /\ p.dropped \in Int /\ p.stop = FALSE /\ s \in Nat
      /\ ListGood(L, r) /\ HeldOK(L, x, r) /\ x \in Chunk
      /\ Accounted(L, r, n, p.lost + p.dropped)
  BY BoundAssumption DEF Sound, Pkt, HeldOK
<1>1. m \in [1..MaxSeqNo -> 0..2] /\ CountedAt(m, n, s)
  BY <1>0, CountsRaised
<1>2. L.ok = TRUE /\ L.node \in [Chunk -> Node]
  BY <1>0, GoodFacts
<1>3. q = PktOf(d.list, d.node, r, m, p.lost + lost, p.dropped + w - lost, d.node = NULL)
  <2>1. HeapDel(L, x, s) = d /\ HeapDropped(L, x, s) = w
    OBVIOUS
  <2> DEFINE done == [p EXCEPT !.count[s] = Min({@ + 1, Often})]
  <2>2. done = PktOf(L, x, r, m, p.lost, p.dropped, p.stop)
    <3>1. done = [p EXCEPT !.count = m]
      BY <1>0 DEF Pkt
    <3>2. p = PktOf(L, x, r, n, p.lost, p.dropped, p.stop)
      BY <1>0, PktFields
    <3> HIDE DEF m, n, done
    <3>3. [PktOf(L, x, r, n, p.lost, p.dropped, p.stop) EXCEPT !.count = m] =
            PktOf(L, x, r, m, p.lost, p.dropped, p.stop)
      BY PktCount
    <3> QED
      BY <3>1, <3>2, <3>3, Zenon
  <2>3. q = [done EXCEPT !.list = d.list, !.node = d.node, !.stop = (d.node = NULL),
                         !.lost = @ + lost, !.dropped = @ + w - lost]
    <3> HIDE DEF d, w, done
    <3> QED
      BY <1>0, <1>2, <2>1 DEF ParseMsg, done
  <2> HIDE DEF d, w, m, lost, q, done
  <2> QED
    BY <2>2, <2>3 DEF PktOf
<1>4. /\ ListGood(d.list, r) /\ HeldOK(d.list, d.node, r) /\ d.rc \in Nat /\ w \in Nat
      /\ d.node \in Ptr
      /\ Accounted(d.list, r, m, (p.lost + p.dropped) + w)
      /\ d.node # NULL => InChain(d.list, d.node) \/ s + 1 >= r
  <2> DEFINE a == p.lost + p.dropped
  <2>0. a \in Int
    BY <1>0
  <2> HIDE DEF a, m, n, r, w, d
  <2>1. CASE s \in Span(L.node[x])
    <3>1. InChain(L, x)
      <4>1. L.node[x].seq_no \in Nat /\ L.node[x].size \in Nat
        BY <1>0, <1>2 DEF Node
      <4>2. L.node[x].seq_no + L.node[x].size <= r
        BY <1>0 DEF HeldOK
      <4>3. ~(s >= r)
        BY <1>0, <2>1, <4>1, <4>2 DEF Span
      <4> QED
        BY <4>3 DEF r
    <3>2. /\ ListGood(d.list, r) /\ d.rc \in Nat /\ w \in Nat
          /\ d.node = NULL \/ InChain(d.list, d.node)
          /\ CountedAt(m, n, s) /\ Accounted(L, r, n, a) => Accounted(d.list, r, m, a + w)
      BY <1>0, <2>0, <2>1, <3>1, DelHitGood DEF d, w
    <3>3. InChain(d.list, d.node) => HeldOK(d.list, d.node, r) /\ d.node \in Chunk
      BY <1>0, <3>2, ChainHeld
    <3>4. HeldOK(d.list, d.node, r) /\ d.node \in Ptr
      BY <3>2, <3>3 DEF HeldOK, Ptr
    <3>5. Accounted(d.list, r, m, a + w)
      BY <1>0, <1>1, <3>2 DEF a
    <3> QED
      BY <3>2, <3>4, <3>5 DEF a
  <2>2. CASE s \notin Span(L.node[x])
    <3>1. /\ d.list = L /\ d.node = x /\ d.rc = 0 /\ w = 0
          /\ CountedAt(m, n, s) /\ Accounted(L, r, n, a) => Accounted(L, r, m, a)
      BY <1>0, <2>0, <2>2, DelMissGood DEF d, w
    <3>2. Accounted(L, r, m, a + w)
      BY <1>0, <1>1, <2>0, <3>1 DEF a
    <3>3. InChain(d.list, d.node) \/ s + 1 >= r
      BY <1>0, <3>1 DEF r
    <3> QED
      BY <1>0, <3>1, <3>2, <3>3 DEF Ptr, a
  <2> QED
    BY <2>1, <2>2
<1>5. lost \in Int /\ d.list \in Heap
  <2>1. d.list \in Heap
    BY <1>0, <1>4, GoodFacts
  <2> QED
    BY <1>4, <2>1
<1> HIDE DEF q, m, n, d, w, lost
<1>6. /\ q \in Pkt /\ q.list = d.list /\ q.node = d.node /\ q.resume = r /\ q.count = m
      /\ q.lost = p.lost + lost /\ q.dropped = p.dropped + w - lost
      /\ q.stop = (d.node = NULL)
  <2>1. p.lost + lost \in Int /\ p.dropped + w - lost \in Int /\ (d.node = NULL) \in BOOLEAN
    BY <1>0, <1>4, <1>5
  <2>2. q \in Pkt
    BY <1>0, <1>1, <1>3, <1>4, <1>5, <2>1, PktIsPkt
  <2> QED
    BY <1>3, <2>2 DEF PktOf
<1>7. q.lost + q.dropped = (p.lost + p.dropped) + w
  BY <1>0, <1>4, <1>5, <1>6
<1>8. Sound(q)
  BY <1>4, <1>6, <1>7 DEF Sound
<1>9. Aligned(q, s + 1)
  BY <1>4, <1>6 DEF Aligned
<1> QED
  BY <1>8, <1>9 DEF q

\* One message of the loop.
LEMMA MsgKeeps ==
  ASSUME NEW p, Sound(p), NEW s \in 1..MaxSeqNo, Aligned(p, s)
  PROVE  Sound(ParseMsg(p, s)) /\ Aligned(ParseMsg(p, s), s + 1)
<1>1. CASE p.stop
  <2>1. ParseMsg(p, s) = p
    BY <1>1 DEF ParseMsg
  <2> QED
    BY <1>1, <2>1 DEF Aligned
<1>2. CASE ~p.stop /\ p.node = NULL
  BY <1>2, MsgInOrder DEF Aligned
<1>3. CASE ~p.stop /\ p.node # NULL
  BY <1>3, MsgInGap DEF Aligned
<1> QED
  BY <1>1, <1>2, <1>3

\* Expired gaps leave the list before the packet's number is looked at.
LEMMA FlushedKeeps ==
  ASSUME NEW p, Sound(p)
  PROVE  LET q == Flushed(p)
         IN  /\ Sound(q) /\ q.node = p.node /\ q.resume = p.resume /\ q.stop = p.stop
<1> DEFINE q == Flushed(p)
           f == HeapFlush(p.list, now)
           a == p.lost + f.rc
<1>0. /\ p \in Pkt /\ p.resume \in Nat /\ p.lost \in Int /\ p.dropped \in Int
      /\ ListGood(p.list, p.resume) /\ HeldOK(p.list, p.node, p.resume)
      /\ Accounted(p.list, p.resume, p.count, p.lost + p.dropped)
  BY PktFields DEF Sound
<1>1. /\ ListGood(f.list, p.resume) /\ f.rc \in Nat
      /\ HeldOK(f.list, p.node, p.resume)
      /\ Accounted(f.list, p.resume, p.count, (p.lost + p.dropped) + f.rc)
  <2>1. p.lost + p.dropped \in Int
    BY <1>0
  <2> QED
    BY <1>0, <2>1, FlushGood
<1>2. f.list \in Heap
  BY <1>0, <1>1, GoodFacts
<1>3. q = PktOf(f.list, p.node, p.resume, p.count, a, p.dropped, p.stop)
  <2>1. HeapFlush(p.list, now) = f
    OBVIOUS
  <2>2. p = PktOf(p.list, p.node, p.resume, p.count, p.lost, p.dropped, p.stop)
    BY <1>0, PktFields
  <2> HIDE DEF f
  <2>3. q = [p EXCEPT !.list = f.list, !.lost = @ + f.rc]
    BY <2>1 DEF Flushed
  <2> HIDE DEF q
  <2> QED
    BY <2>2, <2>3 DEF PktOf
<1> HIDE DEF f, q
<1>4. /\ q.list = f.list /\ q.node = p.node /\ q.resume = p.resume /\ q.count = p.count
      /\ q.lost = a /\ q.dropped = p.dropped /\ q.stop = p.stop
  BY <1>3 DEF PktOf
<1>5. q \in Pkt
  <2>1. a \in Int
    BY <1>0, <1>1
  <2> HIDE DEF a
  <2> QED
    BY <1>0, <1>2, <1>3, <2>1, PktFields, PktIsPkt
<1>6. q.lost + q.dropped = (p.lost + p.dropped) + f.rc
  BY <1>0, <1>1, <1>4
<1>7. Sound(q)
  BY <1>1, <1>4, <1>5, <1>6 DEF Sound
<1> QED
  BY <1>4, <1>7 DEF q

\* A late packet finds its gap node, or stops.
LEMMA LateKeeps ==
  ASSUME GapMax >= 2, NEW p, Sound(p), NEW s \in Nat
  PROVE  Sound(Late(p, s)) /\ Aligned(Late(p, s), s)
<1> DEFINE q == Late(p, s)
           x == HeapFind(p.list, s)
           e == (x = NULL)
<1>0. /\ p \in Pkt /\ p.resume \in Nat /\ p.list \in Heap
      /\ ListGood(p.list, p.resume)
      /\ Accounted(p.list, p.resume, p.count, p.lost + p.dropped)
  BY PktFields DEF Sound
<1>1. x = NULL \/ InChain(p.list, x)
  BY <1>0, FindGood
<1>2. HeldOK(p.list, x, p.resume) /\ x \in Ptr
  <2>1. CASE x = NULL
    BY <2>1 DEF HeldOK, Ptr
  <2>2. CASE InChain(p.list, x)
    BY <1>0, <2>2, ChainHeld DEF Ptr
  <2> QED
    BY <1>1, <2>1, <2>2
<1>3. q = PktOf(p.list, x, p.resume, p.count, p.lost, p.dropped, e)
  <2>1. HeapFind(p.list, s) = x
    OBVIOUS
  <2>2. p = PktOf(p.list, p.node, p.resume, p.count, p.lost, p.dropped, p.stop)
    BY <1>0, PktFields
  <2>3. GapMax # 0
    BY GapAssumption
  <2> HIDE DEF x
  <2>4. q = [p EXCEPT !.node = x, !.stop = e]
    BY <2>1, <2>3 DEF Late
  <2> HIDE DEF q, e
  <2> QED
    BY <2>2, <2>4 DEF PktOf
<1>4. e \in BOOLEAN
  OBVIOUS
<1> HIDE DEF x, q
<1>5. /\ q.list = p.list /\ q.node = x /\ q.resume = p.resume /\ q.count = p.count
      /\ q.lost = p.lost /\ q.dropped = p.dropped /\ q.stop = e
  BY <1>3 DEF PktOf
<1>6. q \in Pkt
  <2> HIDE DEF e
  <2> QED
    BY <1>0, <1>2, <1>3, <1>4, PktFields, PktIsPkt
<1>7. Sound(q)
  BY <1>0, <1>2, <1>5, <1>6 DEF Sound
<1>8. Aligned(q, s)
  BY <1>1, <1>5 DEF Aligned
<1> QED
  BY <1>7, <1>8 DEF q

\* An early packet opens a gap up to its number.
LEMMA EarlyKeeps ==
  ASSUME GapMax >= 2, NEW p, Sound(p), NEW s \in Nat, s > p.resume, now \in Nat
  PROVE  Sound(Early(p, s)) /\ Aligned(Early(p, s), s)
<1> DEFINE q == Early(p, s)
           h == HeapPush(p.list, p.resume, s - p.resume, now)
           a == p.lost + h.rc
<1>0. /\ p \in Pkt /\ p.resume \in Nat /\ p.lost \in Int /\ p.dropped \in Int
      /\ ListGood(p.list, p.resume) /\ HeldOK(p.list, p.node, p.resume)
      /\ Accounted(p.list, p.resume, p.count, p.lost + p.dropped)
  BY PktFields DEF Sound
<1>1. /\ ListGood(h.list, s) /\ h.rc \in Nat
      /\ HeldOK(h.list, p.node, s)
      /\ Accounted(h.list, s, p.count, (p.lost + p.dropped) + h.rc)
  <2>1. p.lost + p.dropped \in Int
    BY <1>0
  <2> QED
    BY <1>0, <2>1, PushGood
<1>2. h.list \in Heap
  BY <1>1, GoodFacts
<1>3. q = PktOf(h.list, p.node, s, p.count, a, p.dropped, p.stop)
  <2>1. HeapPush(p.list, p.resume, s - p.resume, now) = h
    OBVIOUS
  <2>2. p = PktOf(p.list, p.node, p.resume, p.count, p.lost, p.dropped, p.stop)
    BY <1>0, PktFields
  <2>3. GapMax # 0 /\ ~(h.rc < 0)
    BY <1>1, GapAssumption
  <2> HIDE DEF h
  <2>4. q = [p EXCEPT !.list = h.list, !.resume = s, !.lost = @ + h.rc]
    BY <2>1, <2>3 DEF Early
  <2> HIDE DEF q
  <2> QED
    BY <2>2, <2>4 DEF PktOf
<1> HIDE DEF h, q
<1>4. /\ q.list = h.list /\ q.node = p.node /\ q.resume = s /\ q.count = p.count
      /\ q.lost = a /\ q.dropped = p.dropped /\ q.stop = p.stop
  BY <1>3 DEF PktOf
<1>5. q \in Pkt
  <2>1. a \in Int
    BY <1>0, <1>1
  <2> HIDE DEF a
  <2> QED
    BY <1>0, <1>2, <1>3, <2>1, PktFields, PktIsPkt
<1>6. q.lost + q.dropped = (p.lost + p.dropped) + h.rc
  BY <1>0, <1>1, <1>4
<1>7. Sound(q)
  BY <1>1, <1>4, <1>5, <1>6 DEF Sound
<1>8. Aligned(q, s)
  BY <1>4 DEF Aligned
<1> QED
  BY <1>7, <1>8 DEF q

\* After fh_bats_parse_duplicate the packet's first message is aligned.
LEMMA ArbitrateKeeps ==
  ASSUME GapMax >= 2, NEW p, Sound(p), NEW s \in Nat, now \in Nat
  PROVE  Sound(Arbitrate(p, s)) /\ Aligned(Arbitrate(p, s), s)
<1> DEFINE f == Flushed(p)
<1>1. Sound(f)
  BY FlushedKeeps
<1>2. f.resume \in Nat
  BY <1>1, PktFields DEF Sound
<1>3. Arbitrate(p, s) = CASE s = f.resume -> f
                               [] s < f.resume -> Late(f, s)
                               [] s > f.resume -> Early(f, s)
  BY DEF Arbitrate
<1> HIDE DEF f
<1>4. CASE s = f.resume
  <2>1. Arbitrate(p, s) = f
    BY <1>2, <1>3, <1>4
  <2>2. Aligned(f, s)
    BY <1>2, <1>4 DEF Aligned
  <2> QED
    BY <1>1, <2>1, <2>2
<1>5. CASE s < f.resume
  <2>1. Arbitrate(p, s) = Late(f, s)
    BY <1>2, <1>3, <1>5
  <2> QED
    BY <1>1, <2>1, LateKeeps
<1>6. CASE s > f.resume
  <2>1. Arbitrate(p, s) = Early(f, s)
    BY <1>2, <1>3, <1>6
  <2> QED
    BY <1>1, <1>6, <2>1, EarlyKeeps
<1> QED
  BY <1>2, <1>4, <1>5, <1>6

-----------------------------------------------------------------------------
(* The loop of fh_bats_parse_pkt.                                           *)

Msgs == INSTANCE LeftFold WITH Op <- ParseMsg

\* The loop is a fold over the numbers of the packet.
LEMMA LoopIsFold ==
  \A p, s, k : ParseMsgs(p, s, k) = Msgs!Fold(p, [i \in 1..k |-> s + i - 1])
  BY DEF ParseMsgs, FoldLeft, MapThenFoldSet, Max,
         Msgs!Fold, Msgs!FoldLeft, Msgs!MapThenFoldSet, Msgs!Max

\* One message more is one step more.
LEMMA LoopSteps ==
  ASSUME NEW p, NEW s \in Nat
  PROVE  /\ ParseMsgs(p, s, 0) = p
         /\ \A k \in Nat :
              ParseMsgs(p, s, k + 1) = ParseMsg(ParseMsgs(p, s, k), s + k)
<1> DEFINE nums(k) == [i \in 1..k |-> s + i - 1]
<1>1. \A k \in Nat : DOMAIN nums(k) = 1..k /\ \A i \in 1..k : nums(k)[i] = s + i - 1
  OBVIOUS
<1>2. \A k : ParseMsgs(p, s, k) = Msgs!Fold(p, nums(k))
  BY LoopIsFold
<1> HIDE DEF nums
<1>3. ParseMsgs(p, s, 0) = p
  <2>1. DOMAIN nums(0) = {}
    BY <1>1
  <2> QED
    BY <1>2, <2>1, Msgs!FoldEmpty
<1>4. ASSUME NEW k \in Nat
      PROVE  ParseMsgs(p, s, k + 1) = ParseMsg(ParseMsgs(p, s, k), s + k)
  <2> DEFINE short == nums(k)
             longer == nums(k + 1)
  <2>1. /\ DOMAIN short = 1..k /\ DOMAIN longer = 1..(k + 1)
        /\ \A i \in 1..k : longer[i] = short[i]
        /\ longer[k + 1] = s + k
    <3>1. k + 1 \in Nat /\ k + 1 \in 1..(k + 1) /\ s + (k + 1) - 1 = s + k
      OBVIOUS
    <3> QED
      BY <1>1, <3>1
  <2> HIDE DEF short, longer
  <2>2. Msgs!Fold(p, longer) = ParseMsg(Msgs!Fold(p, short), longer[k + 1])
    BY <2>1, Msgs!FoldSteps
  <2> QED
    BY <1>2, <2>1, <2>2 DEF short, longer
<1> QED
  BY <1>3, <1>4

\* The messages of a packet, up to MaxSeqNo, keep it sound.
LEMMA LoopKeeps ==
  ASSUME NEW p, Sound(p), NEW s \in 1..MaxSeqNo, Aligned(p, s), NEW k \in Nat,
         s + k - 1 <= MaxSeqNo
  PROVE  Sound(ParseMsgs(p, s, k))
<1> DEFINE q(i) == ParseMsgs(p, s, i)
           S == {i \in Nat : i <= k => Sound(q(i)) /\ Aligned(q(i), s + i)}
<1>0. s \in Nat /\ MaxSeqNo \in Nat /\ s + 0 = s
  BY BoundAssumption
<1>1. q(0) = p /\ \A i \in Nat : q(i + 1) = ParseMsg(q(i), s + i)
  BY <1>0, LoopSteps
<1> HIDE DEF q
<1>2. 0 \in S
  BY <1>0, <1>1
<1>3. ASSUME NEW i \in Nat, i \in S PROVE i + 1 \in S
  <2> SUFFICES ASSUME i + 1 <= k PROVE Sound(q(i + 1)) /\ Aligned(q(i + 1), s + (i + 1))
    OBVIOUS
  <2> DEFINE z == s + i
             c == q(i)
  <2>1. Sound(c) /\ Aligned(c, z)
    BY <1>3
  <2>2. z \in 1..MaxSeqNo /\ s + (i + 1) = z + 1
    BY <1>0
  <2>3. q(i + 1) = ParseMsg(c, z)
    BY <1>1
  <2> HIDE DEF z, c
  <2> QED
    BY <2>1, <2>2, <2>3, MsgKeeps
<1> HIDE DEF S
<1>4. Nat \subseteq S
  BY <1>2, <1>3, Msgs!Induction
<1> QED
  BY <1>4 DEF S, q

\* Between packets, on a process of one line.
BatsInv(l) ==
  /\ next_seq_nos \in [Line -> Nat]
  /\ processed \in [Line -> [1..MaxSeqNo -> 0..2]]
  /\ now \in Nat
  /\ Sound(Packet(l))

\* The packet of a state.
LEMMA PacketIs ==
  ASSUME NEW l
  PROVE  /\ Packet(l) =
              PktOf(list, gapnode, next_seq_nos[l], processed[l], lost_messages, unreported, FALSE)
         /\ Packet(l)' =
              PktOf(list', gapnode', next_seq_nos'[l], processed'[l], lost_messages',
                    unreported', FALSE)
  BY DEF Packet, PktOf

\* Nothing of a packet's soundness hangs on its stop flag.
LEMMA StopIsFree ==
  ASSUME NEW p, Sound(p)
  PROVE  Sound(PktOf(p.list, p.node, p.resume, p.count, p.lost, p.dropped, FALSE))
<1> DEFINE q == PktOf(p.list, p.node, p.resume, p.count, p.lost, p.dropped, FALSE)
<1>1. p \in Pkt
  BY DEF Sound
<1>2. FALSE \in BOOLEAN
  OBVIOUS
<1>3. q \in Pkt
  BY <1>1, <1>2, PktFields, PktIsPkt
<1>4. /\ q.list = p.list /\ q.node = p.node /\ q.resume = p.resume /\ q.count = p.count
      /\ q.lost = p.lost /\ q.dropped = p.dropped
  BY DEF PktOf
<1> HIDE DEF q
<1>5. Sound(q)
  BY <1>3, <1>4 DEF Sound
<1> QED
  BY <1>5 DEF q

\* A packet keeps the invariant.
LEMMA PacketKeeps ==
  ASSUME GapMax >= 2, NEW l, Line = {l}, BatsInv(l),
         NEW s \in 1..MaxSeqNo, NEW k \in 0..MaxPktMsgs, ParsePkt(l, s, k)
  PROVE  BatsInv(l)'
<1> DEFINE a == Arbitrate(Packet(l), s)
           p == ParseMsgs(a, s, k)
<1>0. /\ s \in Nat /\ k \in Nat /\ now \in Nat /\ l \in Line
      /\ next_seq_nos \in [Line -> Nat] /\ processed \in [Line -> [1..MaxSeqNo -> 0..2]]
      /\ Sound(Packet(l))
  BY BoundAssumption DEF BatsInv
<1>1. Sound(a) /\ Aligned(a, s)
  BY <1>0, ArbitrateKeeps
<1>2. s + k - 1 <= MaxSeqNo
  BY DEF ParsePkt
<1>3. Sound(p)
  <2> HIDE DEF a
  <2> QED
    BY <1>0, <1>1, <1>2, LoopKeeps
<1>4. /\ list' = p.list /\ gapnode' = p.node
      /\ next_seq_nos' = [next_seq_nos EXCEPT ![l] = p.resume]
      /\ processed' = [processed EXCEPT ![l] = p.count]
      /\ lost_messages' = p.lost /\ unreported' = p.dropped /\ now' = now
  BY DEF ParsePkt
<1> HIDE DEF p
<1>5. p.resume \in Nat /\ p.count \in [1..MaxSeqNo -> 0..2]
  BY <1>3, PktFields DEF Sound
<1>6. /\ next_seq_nos' \in [Line -> Nat] /\ processed' \in [Line -> [1..MaxSeqNo -> 0..2]]
      /\ next_seq_nos'[l] = p.resume /\ processed'[l] = p.count
  BY <1>0, <1>4, <1>5
<1>7. Packet(l)' = PktOf(p.list, p.node, p.resume, p.count, p.lost, p.dropped, FALSE)
  BY <1>4, <1>6, PacketIs
<1>8. Sound(Packet(l)')
  BY <1>3, <1>7, StopIsFree
<1>9. Sound(Packet(l))'
  BY <1>8 DEF Sound, Accounted, Gone
<1> QED
  BY <1>0, <1>4, <1>6, <1>9 DEF BatsInv

\* A new process: an empty list, no gap node, nothing gone.
LEMMA BatsBegins ==
  ASSUME NEW l, Line = {l}, BatsInit
  PROVE  BatsInv(l)
<1> DEFINE n == [s \in 1..MaxSeqNo |-> 0]
           p == Packet(l)
<1>1. /\ list = NewList /\ gapnode = NULL /\ next_seq_nos[l] = 1 /\ now = 0 /\ processed[l] = n
      /\ lost_messages = 0 /\ unreported = 0
      /\ next_seq_nos \in [Line -> Nat] /\ processed \in [Line -> [1..MaxSeqNo -> 0..2]]
  BY DEF BatsInit, SeqNo
<1>2. p = PktOf(NewList, NULL, 1, n, 0, 0, FALSE)
  <2> HIDE DEF n
  <2> QED
    BY <1>1, PacketIs
<1>3. ListGood(NewList, 1)
  <2>1. Ordered(<<>>) /\ NonEmpty(<<>>) /\ AllBelow(<<>>, 1)
    BY DEF Ordered, NonEmpty, AllBelow
  <2> QED
    BY <2>1, NewListIsList DEF ListGood
<1>4. NewList \in Heap
  BY <1>3, GoodFacts
<1>5. n \in [1..MaxSeqNo -> 0..2] /\ NULL \in Ptr /\ FALSE \in BOOLEAN
  BY DEF Ptr
<1>6. p \in Pkt
  <2> HIDE DEF n, p
  <2>1. 1 \in Nat /\ 0 \in Int
    OBVIOUS
  <2>2. PktOf(NewList, NULL, 1, n, 0, 0, FALSE) \in Pkt
    BY <1>4, <1>5, <2>1, PktIsPkt, Zenon
  <2> QED
    BY <1>2, <2>2
<1>7. Accounted(NewList, 1, n, 0)
  <2>1. Gone(NewList, 1, n) = {}
    BY BoundAssumption DEF Gone
  <2>2. Cardinality({}) <= 0
    BY FS_EmptySet
  <2> HIDE DEF n
  <2> QED
    BY <2>1, <2>2, Zenon DEF Accounted
<1>8. HeldOK(NewList, NULL, 1)
  BY DEF HeldOK
<1> HIDE DEF n, p
<1>9. Sound(p)
  <2>1. p.list = NewList /\ p.node = NULL /\ p.resume = 1 /\ p.count = n /\ p.lost = 0
        /\ p.dropped = 0 /\ 0 + 0 = 0
    BY <1>2 DEF PktOf
  <2> QED
    BY <1>3, <1>6, <1>7, <1>8, <2>1 DEF Sound
<1> QED
  BY <1>1, <1>9 DEF BatsInv, p

\* What the invariant says of the state.
LEMMA BatsInvSound ==
  ASSUME NEW l, Line = {l}, BatsInv(l)
  PROVE  GapsSound
<1>1. Packet(l) =
        PktOf(list, gapnode, next_seq_nos[l], processed[l], lost_messages, unreported, FALSE)
  BY PacketIs
<1>2. Sound(PktOf(list, gapnode, next_seq_nos[l], processed[l], lost_messages, unreported, FALSE))
  BY <1>1 DEF BatsInv
<1>3. /\ ListGood(list, next_seq_nos[l])
      /\ Accounted(list, next_seq_nos[l], processed[l], lost_messages + unreported)
  BY <1>2 DEF Sound, PktOf
<1>4. ListIntact
  <2>1. PICK c : IsList(list, c)
    BY <1>3 DEF ListGood
  <2> QED
    BY <2>1, ListIsOK DEF ListIntact
<1>5. GivenUp(l) = Gone(list, next_seq_nos[l], processed[l])
  BY DEF GivenUp, Gone, SeqNo
<1>6. LossReported
  <2>1. Cardinality(GivenUp(l)) <= lost_messages + unreported
    BY <1>3, <1>5 DEF Accounted
  <2>2. \A k \in Line : k = l
    OBVIOUS
  <2>3. \A k \in Line : Cardinality(GivenUp(k)) <= lost_messages + unreported
    BY <2>1, <2>2, Zenon
  <2> QED
    BY <2>3 DEF LossReported
<1> QED
  BY <1>4, <1>6 DEF GapsSound

\* On a process of one line, however many nodes the gap list has (at least two) and
\* whatever packets come, in whatever order and how often: a gapnode left from an
\* earlier packet, its record flushed, reused or filled since, never breaks the list,
\* and what is given up is in lost_messages up to what a split on a full list miscounts.
THEOREM BatsGaps ==
  ASSUME GapMax >= 2, NEW l, Line = {l}
  PROVE  BatsSpec => []GapsSound
<1>1. BatsInit => BatsInv(l)
  BY BatsBegins
<1>2. BatsInv(l) /\ [BatsNext]_bats => BatsInv(l)'
  <2> SUFFICES ASSUME BatsInv(l), [BatsNext]_bats PROVE BatsInv(l)'
    OBVIOUS
  <2>1. ASSUME NEW k \in Line, NEW s \in SeqNo, NEW n \in 0..MaxPktMsgs,
               ParsePkt(k, s, n)
        PROVE  BatsInv(l)'
    <3>1. k = l /\ s \in 1..MaxSeqNo
      BY DEF SeqNo
    <3> QED
      BY <2>1, <3>1, PacketKeeps
  <2>2. CASE BatsTick \/ UNCHANGED bats
    <3>1. /\ list' = list /\ gapnode' = gapnode /\ next_seq_nos' = next_seq_nos
          /\ processed' = processed
          /\ lost_messages' = lost_messages /\ unreported' = unreported
          /\ now' = now \/ now' = now + 1
      BY <2>2 DEF BatsTick, bats
    <3>2. Packet(l)' = Packet(l)
      BY <3>1, PacketIs
    <3>3. Sound(Packet(l)')
      BY <3>2 DEF BatsInv
    <3>4. Sound(Packet(l))'
      BY <3>3 DEF Sound, Accounted, Gone
    <3> QED
      BY <3>1, <3>4 DEF BatsInv
  <2> QED
    BY <2>1, <2>2 DEF BatsNext
<1>3. BatsInv(l) => GapsSound
  BY BatsInvSound
<1> QED
  BY <1>1, <1>2, <1>3, PTL DEF BatsSpec

-----------------------------------------------------------------------------
(* The lines' numbers, for any number of lines and nodes: nothing is known of *)
(* the list they share.                                                     *)

\* A packet's record whose number is at least r.
Advanced(p, r) ==
  /\ p = PktOf(p.list, p.node, p.resume, p.count, p.lost, p.dropped, p.stop)
  /\ p.resume \in Nat /\ r <= p.resume

\* A record with these fields is one.
LEMMA AdvancedOf ==
  ASSUME NEW L, NEW x, NEW q \in Nat, NEW n, NEW a, NEW b, NEW e, NEW r \in Nat, r <= q
  PROVE  Advanced(PktOf(L, x, q, n, a, b, e), r)
  BY DEF Advanced, PktOf

\* A message never moves the line back.
LEMMA MsgAdvances ==
  ASSUME NEW p, NEW r \in Nat, Advanced(p, r), NEW s
  PROVE  Advanced(ParseMsg(p, s), r)
<1> DEFINE m == [p.count EXCEPT ![s] = Min({@ + 1, Often})]
           d == HeapDel(p.list, p.node, s)
           w == HeapDropped(p.list, p.node, s)
           lost == IF d.rc > 0 THEN d.rc ELSE 0
           done == [p EXCEPT !.count[s] = Min({@ + 1, Often})]
           e == (d.node = NULL)
           q == ParseMsg(p, s)
<1>0. /\ p = PktOf(p.list, p.node, p.resume, p.count, p.lost, p.dropped, p.stop)
      /\ p.resume \in Nat /\ r <= p.resume
  BY DEF Advanced
<1>1. done = PktOf(p.list, p.node, p.resume, m, p.lost, p.dropped, p.stop)
  <2>1. done = [p EXCEPT !.count = m]
    BY <1>0 DEF PktOf
  <2> HIDE DEF m, done
  <2>2. [PktOf(p.list, p.node, p.resume, p.count, p.lost, p.dropped, p.stop) EXCEPT !.count = m] =
          PktOf(p.list, p.node, p.resume, m, p.lost, p.dropped, p.stop)
    BY PktCount
  <2> QED
    BY <1>0, <2>1, <2>2
<1>2. \/ q = p
      \/ q = [done EXCEPT !.resume = @ + 1]
      \/ q = [done EXCEPT !.list = d.list, !.node = d.node, !.stop = e,
                          !.lost = @ + lost, !.dropped = @ + w - lost]
  <2> HIDE DEF d, w, done
  <2> QED
    BY DEF ParseMsg, done, d, w
<1> HIDE DEF m, d, w, lost, done, e, q
<1>3. CASE q = p
  BY <1>3 DEF q
<1>4. CASE q = [done EXCEPT !.resume = @ + 1]
  <2>1. q = PktOf(p.list, p.node, p.resume + 1, m, p.lost, p.dropped, p.stop)
    BY <1>1, <1>4 DEF PktOf
  <2>2. p.resume + 1 \in Nat /\ r <= p.resume + 1
    BY <1>0
  <2> QED
    BY <2>1, <2>2, AdvancedOf DEF q
<1>5. CASE q = [done EXCEPT !.list = d.list, !.node = d.node, !.stop = e,
                            !.lost = @ + lost, !.dropped = @ + w - lost]
  <2>1. q = PktOf(d.list, d.node, p.resume, m, p.lost + lost, p.dropped + w - lost, e)
    BY <1>1, <1>5 DEF PktOf
  <2> QED
    BY <1>0, <2>1, AdvancedOf DEF q
<1> QED
  BY <1>2, <1>3, <1>4, <1>5

\* Neither does fh_bats_parse_duplicate.
LEMMA ArbitrateAdvances ==
  ASSUME NEW p, NEW r \in Nat, Advanced(p, r), NEW s \in Nat
  PROVE  Advanced(Arbitrate(p, s), r)
<1> DEFINE f == HeapFlush(p.list, now)
           a == p.lost + f.rc
           q == Flushed(p)
           z == Arbitrate(p, s)
<1>0. /\ p = PktOf(p.list, p.node, p.resume, p.count, p.lost, p.dropped, p.stop)
      /\ p.resume \in Nat /\ r <= p.resume
  BY DEF Advanced
<1>1. q = PktOf(f.list, p.node, p.resume, p.count, a, p.dropped, p.stop)
  <2> HIDE DEF f
  <2>1. q = [p EXCEPT !.list = f.list, !.lost = @ + f.rc]
    BY DEF Flushed, f
  <2> HIDE DEF q
  <2> QED
    BY <1>0, <2>1 DEF PktOf
<1>2. z = CASE s = q.resume -> q
            [] s < q.resume -> Late(q, s)
            [] s > q.resume -> Early(q, s)
  BY DEF Arbitrate
<1> HIDE DEF f, a, q, z
<1>3. q.resume = p.resume
  BY <1>1 DEF PktOf
<1>4. CASE s = q.resume
  <2>1. z = q
    BY <1>0, <1>2, <1>3, <1>4
  <2> QED
    BY <1>0, <1>1, <2>1, AdvancedOf DEF z
<1>5. CASE s < q.resume
  <2>1. z = Late(q, s)
    BY <1>0, <1>2, <1>3, <1>5
  <2>2. \E L, x, e : z = PktOf(L, x, p.resume, p.count, a, p.dropped, e)
    <3> DEFINE y == HeapFind(q.list, s)
               e == (y = NULL)
               C == Crash(q.list)
               t == TRUE
    <3>1. CASE GapMax = 0
      <4>1. z = [q EXCEPT !.list = C, !.stop = t]
        BY <2>1, <3>1 DEF Late
      <4> HIDE DEF C, t
      <4>2. z = PktOf(C, p.node, p.resume, p.count, a, p.dropped, t)
        BY <1>1, <4>1 DEF PktOf
      <4> QED
        BY <4>2
    <3>2. CASE GapMax # 0
      <4>1. z = [q EXCEPT !.node = y, !.stop = e]
        BY <2>1, <3>2 DEF Late
      <4> HIDE DEF y, e
      <4>2. z = PktOf(f.list, y, p.resume, p.count, a, p.dropped, e)
        BY <1>1, <4>1 DEF PktOf
      <4> QED
        BY <4>2
    <3> QED
      BY <3>1, <3>2
  <2> QED
    BY <1>0, <2>2, AdvancedOf DEF z
<1>6. CASE s > q.resume
  <2>1. z = Early(q, s)
    BY <1>0, <1>2, <1>3, <1>6
  <2>2. \E L, b : z = PktOf(L, p.node, s, p.count, b, p.dropped, p.stop)
    <3> DEFINE n == s - q.resume
               h == HeapPush(q.list, q.resume, n, now)
               c == IF h.rc < 0 THEN n ELSE h.rc
    <3>1. CASE GapMax = 0
      <4>1. z = [q EXCEPT !.lost = @ + n, !.resume = s]
        BY <2>1, <3>1 DEF Early
      <4> HIDE DEF n
      <4> QED
        BY <1>1, <4>1 DEF PktOf
    <3>2. CASE GapMax # 0
      <4>1. z = [q EXCEPT !.list = h.list, !.resume = s, !.lost = @ + c]
        BY <2>1, <3>2 DEF Early
      <4> HIDE DEF h, c
      <4> QED
        BY <1>1, <4>1 DEF PktOf
    <3> QED
      BY <3>1, <3>2
  <2>3. s \in Nat /\ r <= s
    BY <1>0, <1>3, <1>6
  <2> QED
    BY <2>2, <2>3, AdvancedOf DEF z
<1> QED
  BY <1>0, <1>3, <1>4, <1>5, <1>6

\* Nor do the messages of a packet.
LEMMA LoopAdvances ==
  ASSUME NEW p, NEW r \in Nat, Advanced(p, r), NEW s \in Nat, NEW k \in Nat
  PROVE  Advanced(ParseMsgs(p, s, k), r)
<1> DEFINE q(i) == ParseMsgs(p, s, i)
           S == {i \in Nat : Advanced(q(i), r)}
<1>1. q(0) = p /\ \A i \in Nat : q(i + 1) = ParseMsg(q(i), s + i)
  BY LoopSteps
<1> HIDE DEF q
<1>2. 0 \in S
  BY <1>1
<1>3. ASSUME NEW i \in Nat, i \in S PROVE i + 1 \in S
  <2>1. Advanced(q(i + 1), r)
    BY <1>1, <1>3, MsgAdvances
  <2> QED
    BY <2>1
<1> HIDE DEF S
<1>4. Nat \subseteq S
  BY <1>2, <1>3, Msgs!Induction
<1> QED
  BY <1>4 DEF S, q

\* However many lines share the gap list, however many nodes it has and whatever
\* became of it: no packet moves any line's next_seq_no back.
THEOREM BatsAdvances ==
  BatsSpec => CursorAdvances
<1> DEFINE Typed == next_seq_nos \in [Line -> Nat]
           Up == \A l \in Line : next_seq_nos'[l] >= next_seq_nos[l]
<1>1. BatsInit => Typed
  BY DEF BatsInit
<1>2. Typed /\ [BatsNext]_bats => Typed' /\ Up
  <2> SUFFICES ASSUME Typed, [BatsNext]_bats PROVE Typed' /\ Up
    OBVIOUS
  <2>1. ASSUME NEW l \in Line, NEW s \in SeqNo, NEW k \in 0..MaxPktMsgs,
               ParsePkt(l, s, k)
        PROVE  Typed' /\ Up
    <3> DEFINE a == Arbitrate(Packet(l), s)
               p == ParseMsgs(a, s, k)
               r == next_seq_nos[l]
    <3>1. s \in Nat /\ k \in Nat /\ r \in Nat /\ r <= r
      BY BoundAssumption DEF SeqNo
    <3>2. Advanced(Packet(l), r)
      BY <3>1, PacketIs, AdvancedOf
    <3>3. Advanced(a, r)
      BY <3>1, <3>2, ArbitrateAdvances
    <3>4. Advanced(p, r)
      <4> HIDE DEF a, r
      <4> QED
        BY <3>1, <3>3, LoopAdvances
    <3>5. next_seq_nos' = [next_seq_nos EXCEPT ![l] = p.resume]
      BY <2>1 DEF ParsePkt
    <3> HIDE DEF p
    <3>6. p.resume \in Nat /\ r <= p.resume
      BY <3>4 DEF Advanced
    <3> QED
      BY <3>5, <3>6
  <2>2. CASE BatsTick \/ UNCHANGED bats
    BY <2>2 DEF BatsTick, bats
  <2> QED
    BY <2>1, <2>2 DEF BatsNext
<1>3. Typed /\ [BatsNext]_bats =>
        Typed' /\ [\A l \in Line : next_seq_nos'[l] >= next_seq_nos[l]]_bats
  BY <1>2
<1> QED
  BY <1>1, <1>3, PTL DEF BatsSpec, CursorAdvances

===============================================================================
