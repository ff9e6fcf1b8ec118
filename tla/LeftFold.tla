------------------------------ MODULE LeftFold ------------------------------
(***************************************************************************)
(* What FoldLeft computes, for an operator and a sequence of any length.   *)
(* A module that folds instantiates this one with its operator; the fold   *)
(* then runs through the sequence element by element, and what the         *)
(* operator keeps, the fold keeps.                                         *)
(***************************************************************************)
EXTENDS Integers, Sequences, SequencesExt, WellFoundedInduction, TLAPS

CONSTANT Op(_, _)   \* the operator that is folded

Fold(base, seq) == FoldLeft(Op, base, seq)

-----------------------------------------------------------------------------
(* Induction, with the numbers for which a fact holds as a set.             *)

\* A set of numbers has a least one.
LEMMA LeastNumber ==
  ASSUME NEW T \in SUBSET Nat, T # {}
  PROVE  \E m \in T : \A k \in T : m <= k
<1> DEFINE R == {ss \in Nat \X Nat : ss[1] < ss[2]}
<1>1. IsWellFoundedOn(R, Nat)
  BY NatLessThanWellFounded, Zenon DEF OpToRel
<1> HIDE DEF R
<1>2. PICK x \in T : \A y \in T : ~ (<<y, x>> \in R)
  BY <1>1, WFMin
<1>3. \A y \in T : x <= y
  <2> TAKE y \in T
  <2>1. <<y, x>> \in Nat \X Nat /\ <<y, x>>[1] = y /\ <<y, x>>[2] = x
    OBVIOUS
  <2>2. y < x => <<y, x>> \in R
    BY <2>1 DEF R
  <2>3. ~(y < x)
    BY <1>2, <2>2
  <2> QED
    BY <2>3
<1> QED
  BY <1>3

\* A set with 0 and with the successor of each of its numbers has them all.
LEMMA Induction ==
  ASSUME NEW S, 0 \in S, \A n \in Nat : n \in S => n + 1 \in S
  PROVE  Nat \subseteq S
<1> SUFFICES ASSUME Nat \ S # {} PROVE FALSE
  OBVIOUS
<1>1. PICK m \in Nat \ S : \A k \in Nat \ S : m <= k
  BY LeastNumber
<1>2. m # 0 /\ m - 1 \in S
  BY <1>1
<1> QED
  BY <1>1, <1>2

-----------------------------------------------------------------------------
(* FoldLeft chooses a function on sets of indices; there is one.            *)

\* What the iteration inside FoldLeft satisfies on the subsets of 1..n.
IsIter(h, base, seq, n) ==
  h = [s \in SUBSET (1..n) |->
         IF s = {} THEN base ELSE Op(h[s \ {Max(s)}], seq[Max(s)])]

\* Such an iteration exists for every n.
LEMMA IterExists ==
  ASSUME NEW base, NEW seq, NEW n \in Nat
  PROVE  \E h : IsIter(h, base, seq, n)
<1> DEFINE S == {k \in Nat : \E h : IsIter(h, base, seq, k)}
<1>1. 0 \in S
  <2>1. IsIter([s \in SUBSET (1..0) |-> base], base, seq, 0)
    <3>1. \A s \in SUBSET (1..0) : s = {}
      OBVIOUS
    <3> QED
      BY <3>1 DEF IsIter
  <2> QED
    BY <2>1
<1>2. ASSUME NEW k \in Nat, k \in S PROVE k + 1 \in S
  <2>1. PICK h : IsIter(h, base, seq, k)
    BY <1>2
  <2> DEFINE e == [s \in SUBSET (1..(k + 1)) |->
                     IF k + 1 \in s THEN Op(h[s \ {k + 1}], seq[k + 1]) ELSE h[s]]
  <2>2. ASSUME NEW s \in SUBSET (1..(k + 1))
        PROVE  e[s] = IF s = {} THEN base ELSE Op(e[s \ {Max(s)}], seq[Max(s)])
    <3>1. CASE k + 1 \in s
      <4>1. Max(s) = k + 1
        <5>1. \A y \in s : k + 1 >= y
          OBVIOUS
        <5>2. \A x \in s : (\A y \in s : x >= y) => x = k + 1
          BY <3>1
        <5> QED
          BY <3>1, <5>1, <5>2 DEF Max
      <4>2. s \ {k + 1} \in SUBSET (1..(k + 1)) /\ k + 1 \notin s \ {k + 1}
        OBVIOUS
      <4>3. e[s \ {k + 1}] = h[s \ {k + 1}]
        BY <4>2
      <4>4. e[s] = Op(h[s \ {k + 1}], seq[k + 1])
        BY <3>1
      <4> HIDE DEF e
      <4> QED
        BY <3>1, <4>1, <4>3, <4>4
    <3>2. CASE k + 1 \notin s
      <4>1. s \in SUBSET (1..k)
        BY <3>2
      <4>2. s \ {Max(s)} \in SUBSET (1..(k + 1)) /\ k + 1 \notin s \ {Max(s)}
        BY <3>2
      <4>3. e[s \ {Max(s)}] = h[s \ {Max(s)}] /\ e[s] = h[s]
        BY <3>2, <4>2
      <4>4. h[s] = IF s = {} THEN base ELSE Op(h[s \ {Max(s)}], seq[Max(s)])
        BY <2>1, <4>1 DEF IsIter
      <4> HIDE DEF e
      <4> QED
        BY <4>3, <4>4
    <3> QED
      BY <3>1, <3>2
  <2>3. IsIter(e, base, seq, k + 1)
    <3>1. e = [s \in SUBSET (1..(k + 1)) |-> e[s]]
      OBVIOUS
    <3> HIDE DEF e
    <3> QED
      BY <2>2, <3>1 DEF IsIter
  <2> HIDE DEF e
  <2> QED
    BY <2>3
<1> HIDE DEF S
<1>3. Nat \subseteq S
  BY <1>1, <1>2, Induction
<1> QED
  BY <1>3 DEF S

\* A left fold runs through the sequence from its first element to its last.
THEOREM FoldRuns ==
  ASSUME NEW base, NEW seq, NEW n \in Nat, DOMAIN seq = 1..n
  PROVE  \E F : /\ F[0] = base
                /\ \A k \in 1..n : F[k] = Op(F[k - 1], seq[k])
                /\ Fold(base, seq) = F[n]
<1> DEFINE it == CHOOSE h : IsIter(h, base, seq, n)
<1>1. IsIter(it, base, seq, n)
  BY IterExists
<1>2. Fold(base, seq) = it[1..n]
  BY Zenon DEF Fold, FoldLeft, MapThenFoldSet, IsIter
<1> HIDE DEF it
<1> DEFINE F == [k \in 0..n |-> it[1..k]]
<1>3. F[0] = base
  <2>1. 1..0 = {} /\ {} \in SUBSET (1..n)
    OBVIOUS
  <2> QED
    BY <1>1, <2>1 DEF IsIter
<1>4. ASSUME NEW k \in 1..n PROVE F[k] = Op(F[k - 1], seq[k])
  <2>1. Max(1..k) = k
    <3>1. k \in 1..k /\ \A y \in 1..k : k >= y
      OBVIOUS
    <3>2. \A x \in 1..k : (\A y \in 1..k : x >= y) => x = k
      BY <3>1
    <3> QED
      BY <3>1, <3>2 DEF Max
  <2>2. (1..k) \ {k} = 1..(k - 1) /\ 1..k \in SUBSET (1..n) /\ 1..k # {}
    OBVIOUS
  <2>3. it[1..k] = Op(it[(1..k) \ {Max(1..k)}], seq[Max(1..k)])
    BY <1>1, <2>2 DEF IsIter
  <2>4. F[k] = it[1..k] /\ F[k - 1] = it[1..(k - 1)]
    OBVIOUS
  <2> HIDE DEF F
  <2> QED
    BY <2>1, <2>2, <2>3, <2>4
<1>5. F[n] = it[1..n]
  OBVIOUS
<1> HIDE DEF F
<1> QED
  BY <1>2, <1>3, <1>4, <1>5

\* What holds of the base and passes from each element to the next holds of the fold.
THEOREM FoldReaches ==
  ASSUME NEW base, NEW seq, NEW n \in Nat, DOMAIN seq = 1..n,
         NEW I, base \in I[0],
         \A k \in 1..n : \A a \in I[k - 1] : Op(a, seq[k]) \in I[k]
  PROVE  Fold(base, seq) \in I[n]
<1>1. PICK F : /\ F[0] = base
               /\ \A k \in 1..n : F[k] = Op(F[k - 1], seq[k])
               /\ Fold(base, seq) = F[n]
  BY FoldRuns
<1> DEFINE S == {k \in Nat : k <= n => F[k] \in I[k]}
<1>2. 0 \in S
  BY <1>1
<1>3. ASSUME NEW k \in Nat, k \in S PROVE k + 1 \in S
  <2>1. k + 1 <= n => k + 1 \in 1..n /\ (k + 1) - 1 = k
    OBVIOUS
  <2>2. k + 1 <= n => F[k + 1] = Op(F[k], seq[k + 1])
    BY <1>1, <2>1
  <2>3. k + 1 <= n => F[k] \in I[k]
    BY <1>3
  <2>4. k + 1 <= n => \A a \in I[k] : Op(a, seq[k + 1]) \in I[k + 1]
    BY <2>1
  <2> QED
    BY <2>2, <2>3, <2>4
<1> HIDE DEF S
<1>4. Nat \subseteq S
  BY <1>2, <1>3, Induction
<1> QED
  BY <1>1, <1>4 DEF S

\* What the operator keeps, the fold keeps.
THEOREM FoldKeeps ==
  ASSUME NEW base, NEW seq, NEW n \in Nat, DOMAIN seq = 1..n,
         NEW I, base \in I,
         \A a \in I, k \in 1..n : Op(a, seq[k]) \in I
  PROVE  Fold(base, seq) \in I
<1>1. PICK F : /\ F[0] = base
               /\ \A k \in 1..n : F[k] = Op(F[k - 1], seq[k])
               /\ Fold(base, seq) = F[n]
  BY FoldRuns
<1> DEFINE S == {k \in Nat : k <= n => F[k] \in I}
<1>2. 0 \in S
  BY <1>1
<1>3. ASSUME NEW k \in Nat, k \in S PROVE k + 1 \in S
  <2>1. k + 1 <= n => F[k + 1] = Op(F[k], seq[k + 1])
    BY <1>1
  <2> QED
    BY <1>3, <2>1
<1> HIDE DEF S
<1>4. Nat \subseteq S
  BY <1>2, <1>3, Induction
<1> QED
  BY <1>1, <1>4 DEF S

\* One element more is one application more.
THEOREM FoldSteps ==
  ASSUME NEW base, NEW n \in Nat,
         NEW seq, DOMAIN seq = 1..n,
         NEW longer, DOMAIN longer = 1..(n + 1),
         \A k \in 1..n : longer[k] = seq[k]
  PROVE  Fold(base, longer) = Op(Fold(base, seq), longer[n + 1])
<1>1. PICK F : /\ F[0] = base
               /\ \A k \in 1..n : F[k] = Op(F[k - 1], seq[k])
               /\ Fold(base, seq) = F[n]
  BY FoldRuns
<1>2. PICK G : /\ G[0] = base
               /\ \A k \in 1..(n + 1) : G[k] = Op(G[k - 1], longer[k])
               /\ Fold(base, longer) = G[n + 1]
  <2> DEFINE N == n + 1
  <2>1. N \in Nat /\ DOMAIN longer = 1..N
    OBVIOUS
  <2> HIDE DEF N
  <2>2. \E G : /\ G[0] = base
              /\ \A k \in 1..N : G[k] = Op(G[k - 1], longer[k])
              /\ Fold(base, longer) = G[N]
    BY <2>1, FoldRuns
  <2> QED
    BY <2>2 DEF N
<1> DEFINE S == {k \in Nat : k <= n => F[k] = G[k]}
<1>3. 0 \in S
  BY <1>1, <1>2
<1>4. ASSUME NEW k \in Nat, k \in S PROVE k + 1 \in S
  <2>1. k + 1 <= n => /\ F[k + 1] = Op(F[k], seq[k + 1])
                      /\ G[k + 1] = Op(G[k], longer[k + 1])
                      /\ longer[k + 1] = seq[k + 1]
    BY <1>1, <1>2
  <2> QED
    BY <1>4, <2>1
<1> HIDE DEF S
<1>5. Nat \subseteq S
  BY <1>3, <1>4, Induction
<1>6. F[n] = G[n] /\ G[n + 1] = Op(G[n], longer[n + 1])
  BY <1>2, <1>5 DEF S
<1> QED
  BY <1>1, <1>2, <1>6

\* The fold of nothing is the base.
THEOREM FoldEmpty ==
  ASSUME NEW base, NEW seq, DOMAIN seq = {}
  PROVE  Fold(base, seq) = base
<1>1. DOMAIN seq = 1..0
  OBVIOUS
<1> QED
  BY <1>1, FoldRuns

===============================================================================
