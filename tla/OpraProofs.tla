----------------------------- MODULE OpraProofs -----------------------------
(***************************************************************************)
(* An OPRA feed handler, for every size of the window and of the option    *)
(* table, every jump threshold and every script of packets.                *)
(*                                                                         *)
(* The line (OpraInv): no message is decoded twice between two restarts,   *)
(* ftl_missing is exact, and a line that says OK has given nothing up.     *)
(* The option table (TablesInv): an option holds the newest of its         *)
(* messages, pool, table and listed roots agree, and the subscribers know  *)
(* every option as it is.  The second rests on the first: the window takes *)
(* no message with the number 0, for which options are not asked whether   *)
(* it is late.                                                             *)
(***************************************************************************)
EXTENDS Opra, FiniteSetTheorems, TLAPS

-----------------------------------------------------------------------------
(* Remainders.                                                              *)

\* A sequence number has a slot in the window.
LEMMA Remainder == ASSUME NEW n \in Int PROVE n % WINSZ \in 0 .. WINSZ - 1
  BY OpraLineAssumption

\* Two numbers of one slot are a window apart.
LEMMA WindowApart ==
    ASSUME NEW m \in Nat, NEW n \in Nat, m % WINSZ = n % WINSZ, m < n
    PROVE  m <= n - WINSZ
<1> DEFINE W == WINSZ
           p == m \div W
           q == n \div W
<1>1. W \in Int /\ W > 0
      BY OpraLineAssumption
<1> HIDE DEF W
<1>2. m % W = m - (W * p) /\ p \in Int
      BY <1>1
<1>3. n % W = n - (W * q) /\ q \in Int
      BY <1>1
<1> HIDE DEF p, q
<1> DEFINE e == q - p
<1>4. e \in Int
      BY <1>2, <1>3
<1>5. n - m = W * e
  <2>1. W * e = W * q - W * p
        BY <1>1, <1>2, <1>3
  <2>2. m - (W * p) = n - (W * q) /\ W * p \in Int /\ W * q \in Int
        BY <1>1, <1>2, <1>3 DEF W
  <2> QED
      BY <2>1, <2>2
<1> HIDE DEF e
<1>6. e > 0
      BY <1>1, <1>4, <1>5
<1>7. W <= W * e
      BY <1>1, <1>4, <1>6
<1> QED
    BY <1>1, <1>4, <1>5, <1>7 DEF W

-----------------------------------------------------------------------------
(* The window as values: slots w, first number z, last number q, and the   *)
(* numbers M that have been taken since z.                                  *)

Window(w, z, q, M) ==
    /\ w \in [0 .. WINSZ - 1 -> Int] /\ z \in Nat /\ q \in Nat /\ z <= q
    /\ \A i \in 0 .. WINSZ - 1 : z - WINSZ < w[i] /\ w[i] <= q
    /\ M \subseteq z + 1 .. q
    /\ \A n \in M : n <= w[n % WINSZ]

\* Nothing newer sits in the slot of a number that is missing.
NothingOver(w, z, q, M) == \A n \in (z + 1 .. q) \ M : w[n % WINSZ] < n

\* A restart begins with an exact window and nothing missing.
LEMMA RestartWindow ==
    ASSUME NEW z \in Nat
    PROVE  Window(WinInit(z), z, z, {}) /\ NothingOver(WinInit(z), z, z, {})
<1>1. WINSZ \in Nat \ {0} /\ z % WINSZ \in 0 .. WINSZ - 1
      BY OpraLineAssumption, Remainder
<1> DEFINE e == z % WINSZ
<1>2. WinInit(z) = [i \in 0 .. WINSZ - 1 |-> (z - e) + i - (IF i > e THEN WINSZ ELSE 0)]
      BY DEF WinInit
<1> HIDE DEF e
<1>3. e \in 0 .. WINSZ - 1
      BY <1>1 DEF e
<1>4. WinInit(z) \in [0 .. WINSZ - 1 -> Int]
      BY <1>1, <1>2, <1>3
<1>5. ASSUME NEW i \in 0 .. WINSZ - 1
      PROVE  z - WINSZ < WinInit(z)[i] /\ WinInit(z)[i] <= z
      BY <1>1, <1>2, <1>3
<1> QED
    BY <1>1, <1>4, <1>5 DEF Window, NothingOver

\* A number n that is not in its slot, nor behind what is, is taken; with it
\* the last number may move up to n.
LEMMA TakeWindow ==
    ASSUME NEW w, NEW z, NEW q, NEW M, Window(w, z, q, M),
           NEW n \in Nat, NEW r \in Nat,
           \/ n > q /\ r = n
           \/ n <= q /\ r = q /\ n = w[n % WINSZ] + WINSZ
    PROVE  /\ n \notin M /\ n > z
           /\ Window([w EXCEPT ![n % WINSZ] = n], z, r, M \cup {n})
           /\ NothingOver(w, z, q, M) /\ n = w[n % WINSZ] + WINSZ =>
                  NothingOver([w EXCEPT ![n % WINSZ] = n], z, r, M \cup {n})
<1> DEFINE c == n % WINSZ
           v == [w EXCEPT ![c] = n]
<1>1. WINSZ \in Nat \ {0} /\ c \in 0 .. WINSZ - 1
      BY OpraLineAssumption, Remainder
<1> HIDE DEF c
<1>2. /\ w \in [0 .. WINSZ - 1 -> Int] /\ z \in Nat /\ q \in Nat /\ z <= q
      /\ \A i \in 0 .. WINSZ - 1 : z - WINSZ < w[i] /\ w[i] <= q
      /\ M \subseteq z + 1 .. q
      BY DEF Window
<1>3. \A m \in M : m <= w[m % WINSZ] /\ m % WINSZ \in 0 .. WINSZ - 1 /\ m \in Nat
      BY <1>2, Remainder DEF Window
<1>4. w[c] < n /\ n > z /\ n <= r /\ q <= r
  <2>1. \/ n > q /\ r = n
        \/ n <= q /\ r = q /\ n = w[c] + WINSZ
        BY DEF c
  <2>2. w[c] \in Int /\ z - WINSZ < w[c] /\ w[c] <= q
        BY <1>1, <1>2
  <2> QED
      BY <1>1, <1>2, <2>1, <2>2
<1>5. n \notin M
      BY <1>2, <1>3, <1>4, <1>1 DEF c
<1>6. v \in [0 .. WINSZ - 1 -> Int]
      BY <1>1, <1>2
<1>7. \A i \in 0 .. WINSZ - 1 : v[i] = IF i = c THEN n ELSE w[i]
      BY <1>1, <1>2
<1> HIDE DEF v
<1>8. \A i \in 0 .. WINSZ - 1 : z - WINSZ < v[i] /\ v[i] <= r
      BY <1>1, <1>2, <1>4, <1>7
<1>9. M \cup {n} \subseteq z + 1 .. r
      BY <1>2, <1>4
<1>10. \A m \in M \cup {n} : m <= v[m % WINSZ]
  <2> SUFFICES ASSUME NEW m \in M \cup {n} PROVE m <= v[m % WINSZ]
      OBVIOUS
  <2>1. CASE m = n
        BY <1>1, <1>7, <2>1 DEF c
  <2>2. CASE m \in M
    <3> DEFINE k == m % WINSZ
    <3>1. m <= w[k] /\ k \in 0 .. WINSZ - 1 /\ m \in Nat
          BY <1>3, <2>2
    <3> HIDE DEF k
    <3>2. m <= v[k]
          BY <1>1, <1>2, <1>4, <1>7, <3>1
    <3> QED
        BY <3>2 DEF k
  <2> QED
      BY <2>1, <2>2
<1>11. Window(v, z, r, M \cup {n})
      BY <1>2, <1>4, <1>6, <1>8, <1>9, <1>10 DEF Window
<1>12. ASSUME NothingOver(w, z, q, M), n = w[c] + WINSZ
       PROVE  NothingOver(v, z, r, M \cup {n})
  <2> SUFFICES ASSUME NEW m \in (z + 1 .. r) \ (M \cup {n}) PROVE v[m % WINSZ] < m
      BY DEF NothingOver
  <2> DEFINE k == m % WINSZ
  <2>1. m \in Nat /\ k \in 0 .. WINSZ - 1 /\ m # n /\ m \notin M /\ m > z /\ m <= r
        BY <1>2, Remainder
  <2>2. k = c /\ m < n => m <= n - WINSZ
        BY <2>1, WindowApart DEF c
  <2>3. m <= q => w[k] < m
        BY <1>2, <1>12, <2>1 DEF NothingOver
  <2> HIDE DEF k
  <2>4. CASE k = c
    <3>1. m > n
      <4> SUFFICES ASSUME m < n PROVE FALSE
          BY <2>1
      <4>1. m <= w[c] /\ w[c] <= q
            BY <1>1, <1>2, <1>12, <2>1, <2>2, <2>4
      <4> QED
          BY <1>1, <1>2, <2>1, <2>3, <2>4, <4>1
    <3> QED
        BY <1>7, <2>1, <2>4, <3>1 DEF k
  <2>5. CASE k # c
    <3>1. v[k] = w[k] /\ w[k] <= q /\ w[k] \in Int
          BY <1>2, <1>7, <2>1, <2>5
    <3>2. w[k] < m
          BY <1>2, <2>1, <2>3, <3>1
    <3> QED
        BY <3>1, <3>2 DEF k
  <2> QED
      BY <2>4, <2>5
<1> QED
    BY <1>4, <1>5, <1>11, <1>12 DEF c, v

-----------------------------------------------------------------------------
(* How many numbers are missing.                                            *)

Missing(z, q, M) == (z + 1 .. q) \ M

\* The numbers between two others can be counted.
LEMMA MissingFinite ==
    ASSUME NEW z \in Nat, NEW q \in Nat, NEW M
    PROVE  IsFiniteSet(Missing(z, q, M)) /\ Cardinality(Missing(z, q, M)) \in Nat
<1>1. IsFiniteSet(z + 1 .. q)
      BY FS_Interval
<1>2. IsFiniteSet(Missing(z, q, M))
      BY <1>1, FS_Subset DEF Missing
<1> QED
    BY <1>2, FS_CardinalityType

\* The taken numbers M of z + 1 .. q.
Taken(z, q, M) == z \in Nat /\ q \in Nat /\ z <= q /\ M \subseteq z + 1 .. q

\* The next number leaves the missing ones as they are.
LEMMA MissingNext ==
    ASSUME NEW z, NEW q, NEW M, Taken(z, q, M), NEW n, n = q + 1
    PROVE  Missing(z, n, M \cup {n}) = Missing(z, q, M)
  BY DEF Missing, Taken

\* A missing number that arrives is one less.
LEMMA MissingFilled ==
    ASSUME NEW z, NEW q, NEW M, Taken(z, q, M), NEW n \in Nat, n > z, n <= q, n \notin M
    PROVE  /\ Cardinality(Missing(z, q, M)) > 0
           /\ Cardinality(Missing(z, q, M \cup {n})) = Cardinality(Missing(z, q, M)) - 1
<1> DEFINE S == Missing(z, q, M)
<1>1. IsFiniteSet(S) /\ Cardinality(S) \in Nat
      BY MissingFinite DEF Taken
<1>2. n \in S /\ Missing(z, q, M \cup {n}) = S \ {n}
      BY DEF Missing, Taken
<1>3. Cardinality(S \ {n}) = Cardinality(S) - 1
      BY <1>1, <1>2, FS_RemoveElement
<1>4. Cardinality(S) # 0
      BY <1>1, <1>2, FS_EmptySet
<1>5. Cardinality(Missing(z, q, M \cup {n})) = Cardinality(S \ {n})
      BY <1>2
<1> HIDE DEF S
<1>6. Cardinality(S) > 0
      BY <1>1, <1>4
<1> QED
    BY <1>3, <1>5, <1>6 DEF S

\* A number beyond the next one adds what it jumps over.
LEMMA MissingBeyond ==
    ASSUME NEW z, NEW q, NEW M, Taken(z, q, M), NEW n \in Nat, n > q
    PROVE  Cardinality(Missing(z, n, M \cup {n})) = Cardinality(Missing(z, q, M)) + (n - (q + 1))
<1> DEFINE S == Missing(z, q, M)
           J == q + 1 .. n - 1
<1>1. IsFiniteSet(S) /\ Cardinality(S) \in Nat
      BY MissingFinite DEF Taken
<1>2. Missing(z, n, M \cup {n}) = S \cup J /\ S \cap J = {}
      BY DEF Missing, Taken
<1>3. IsFiniteSet(J) /\ Cardinality(J) = n - (q + 1)
  <2> DEFINE a == q + 1
             b == n - 1
  <2>1. a \in Int /\ b \in Int /\ q \in Nat
        BY DEF Taken
  <2>2. IsFiniteSet(a .. b) /\ Cardinality(a .. b) = IF a > b THEN 0 ELSE b - a + 1
        BY <2>1, FS_Interval
  <2> QED
      BY <2>1, <2>2
<1> HIDE DEF S, J
<1>4. Cardinality(S \cap J) = 0
      BY <1>2, FS_EmptySet
<1>5. Cardinality(S \cup J) = Cardinality(S) + Cardinality(J) - Cardinality(S \cap J)
      BY <1>1, <1>3, FS_Union
<1>6. Cardinality(S \cup J) = Cardinality(S) + (n - (q + 1))
      BY <1>1, <1>3, <1>4, <1>5 DEF Taken
<1> QED
    BY <1>2, <1>6 DEF S

-----------------------------------------------------------------------------
(* The fields of the line after each operation.                             *)

Shape(x) ==
    /\ {"ft", "ln", "told", "mark", "pub", "again", "restart"} \subseteq DOMAIN x
    /\ {"reset_sn", "seq_num", "missing", "win", "state"} \subseteq DOMAIN x.ft
    /\ DOMAIN x.ln = Sides
    /\ \A l \in Sides : {"reset", "seq_num"} \subseteq DOMAIN x.ln[l]

\* lh_ftline_notify changes only what the listeners were told.
LEMMA NotifyFields ==
    ASSUME NEW x, Shape(x)
    PROVE  /\ Shape(Notify(x))
           /\ Notify(x).ft = x.ft /\ Notify(x).ln = x.ln /\ Notify(x).told = x.ft.state
           /\ Notify(x).mark = x.mark /\ Notify(x).pub = x.pub
           /\ Notify(x).again = x.again /\ Notify(x).restart = x.restart
  BY DEF Shape, Notify

\* A store to the state of a line leaves its other fields alone.
LEMMA SetStateFields ==
    ASSUME NEW x, Shape(x), NEW v, NEW y, y = [x EXCEPT !.ft.state = v]
    PROVE  /\ Shape(y) /\ y.ft.state = v
           /\ y.ft.win = x.ft.win /\ y.ft.reset_sn = x.ft.reset_sn
           /\ y.ft.seq_num = x.ft.seq_num /\ y.ft.missing = x.ft.missing
           /\ y.ln = x.ln /\ y.told = x.told
           /\ y.mark = x.mark /\ y.pub = x.pub /\ y.again = x.again /\ y.restart = x.restart
  BY DEF Shape


\* Going stale changes the state and tells it, and nothing else.
LEMMA GoStaleFields ==
    ASSUME NEW x, Shape(x), NEW y, y = GoStale(x)
    PROVE  /\ Shape(y) /\ y.ft.state = "STALE" /\ (x.told = x.ft.state => y.told = "STALE")
           /\ y.ft.win = x.ft.win /\ y.ft.reset_sn = x.ft.reset_sn
           /\ y.ft.seq_num = x.ft.seq_num /\ y.ft.missing = x.ft.missing
           /\ y.ln = x.ln
           /\ y.mark = x.mark /\ y.pub = x.pub /\ y.again = x.again /\ y.restart = x.restart
<1>1. CASE x.ft.state = "STALE"
      BY <1>1 DEF GoStale
<1>2. CASE x.ft.state # "STALE"
  <2> DEFINE t == [x EXCEPT !.ft.state = "STALE"]
  <2>1. y = Notify(t)
        BY <1>2 DEF GoStale
  <2>2. /\ Shape(t) /\ t.ft.state = "STALE"
        /\ t.ft.win = x.ft.win /\ t.ft.reset_sn = x.ft.reset_sn
        /\ t.ft.seq_num = x.ft.seq_num /\ t.ft.missing = x.ft.missing
        /\ t.ln = x.ln
        /\ t.mark = x.mark /\ t.pub = x.pub /\ t.again = x.again /\ t.restart = x.restart
        BY SetStateFields
  <2> HIDE DEF t
  <2> QED
      BY <2>1, <2>2, NotifyFields
<1> QED
    BY <1>1, <1>2

\* y is x after n has been taken.
TakenFrom(x, y, n) ==
    /\ Shape(y) /\ y.ft.win = [x.ft.win EXCEPT ![n % WINSZ] = n]
    /\ y.ft.reset_sn = x.ft.reset_sn
    /\ y.ft.seq_num = x.ft.seq_num /\ y.ft.missing = x.ft.missing
    /\ y.ln = x.ln /\ y.mark = x.mark \cup {n}
    /\ y.pub = x.pub /\ y.again = x.again /\ y.restart = x.restart
    /\ n # x.ft.win[n % WINSZ] + WINSZ =>
           y.ft.state = "STALE" /\ (x.told = x.ft.state => y.told = "STALE")
    /\ n = x.ft.win[n % WINSZ] + WINSZ => y.ft.state = x.ft.state /\ y.told = x.told

\* A message taken fills its slot and is marked as decoded, once more or for the first time.
LEMMA TakeFields ==
    ASSUME NEW x, Shape(x), NEW n \in Nat, x.ft.win \in [0 .. WINSZ - 1 -> Int]
    PROVE  TakenFrom(x, Take(x, n), n)
<1> DEFINE y == Take(x, n)
<1> DEFINE t == IF n # Slot(x, n) + WINSZ THEN GoStale(x) ELSE x
<1>1. y = [t EXCEPT !.ft.win[n % WINSZ] = n, !.mark = @ \cup {n}]
      BY DEF Take
<1>2. /\ Shape(t) /\ t.ft.win = x.ft.win /\ t.ft.reset_sn = x.ft.reset_sn
      /\ t.ft.seq_num = x.ft.seq_num /\ t.ft.missing = x.ft.missing
      /\ t.ln = x.ln
      /\ t.mark = x.mark /\ t.pub = x.pub /\ t.again = x.again /\ t.restart = x.restart
      /\ n # x.ft.win[n % WINSZ] + WINSZ =>
             t.ft.state = "STALE" /\ (x.told = x.ft.state => t.told = "STALE")
      /\ n = x.ft.win[n % WINSZ] + WINSZ => t.ft.state = x.ft.state /\ t.told = x.told
      BY GoStaleFields DEF Slot
<1> HIDE DEF t, y
<1>3. n % WINSZ \in 0 .. WINSZ - 1
      BY OpraLineAssumption
<1>4. /\ Shape(y) /\ y.ft.win = [t.ft.win EXCEPT ![n % WINSZ] = n]
      /\ y.ft.reset_sn = t.ft.reset_sn
      /\ y.ft.seq_num = t.ft.seq_num /\ y.ft.missing = t.ft.missing
      /\ y.ln = t.ln /\ y.mark = t.mark \cup {n}
      /\ y.pub = t.pub /\ y.again = t.again /\ y.restart = t.restart
      /\ y.ft.state = t.ft.state /\ y.told = t.told
      BY <1>1, <1>2, <1>3 DEF Shape
<1>5. TakenFrom(x, y, n)
      BY <1>2, <1>4 DEF TakenFrom
<1> QED
    BY <1>5 DEF y

-----------------------------------------------------------------------------
(* What the window keeps from message to message.                           *)

States == {"NONE", "STALE", "OK"}

WinOK(x) ==
    /\ Shape(x) /\ x.ft.state \in States /\ x.told = x.ft.state
    /\ Window(x.ft.win, x.ft.reset_sn, x.ft.seq_num, x.mark)
    /\ x.ft.missing \in Nat
    /\ x.ft.reset_sn # 0 =>
           x.ft.missing = Cardinality(Missing(x.ft.reset_sn, x.ft.seq_num, x.mark))

Lossless(x) ==
    x.ft.state = "OK" => NothingOver(x.ft.win, x.ft.reset_sn, x.ft.seq_num, x.mark)

\* The rest of the line is left alone.
SameRest(x, y) ==
    /\ y.ln = x.ln /\ y.pub = x.pub /\ y.again = x.again /\ y.restart = x.restart
    /\ x.mark \subseteq y.mark
    /\ x.ft.state # "NONE" => y.ft.state # "NONE"

\* The message n has been kept: it was not taken before and now it is.
Kept(x, y, n) ==
    /\ WinOK(y) /\ SameRest(x, y) /\ n \notin x.mark /\ y.mark = x.mark \cup {n}
    /\ Lossless(x) => Lossless(y)

\* t is x with the last number r and m missing.
Moved(x, t, r, m) ==
    /\ Shape(t) /\ t.ft.win = x.ft.win /\ t.ft.reset_sn = x.ft.reset_sn
    /\ t.ft.seq_num = r /\ t.ft.missing = m /\ t.ft.state = x.ft.state /\ t.told = x.told
    /\ SameRest(x, t) /\ t.mark = x.mark

\* Taking n when the last number becomes r and the missing ones m.
LEMMA TakeKeeps ==
    ASSUME NEW x, WinOK(x), NEW n \in Nat, NEW r \in Nat, NEW m \in Nat,
           \/ n > x.ft.seq_num /\ r = n
           \/ n <= x.ft.seq_num /\ r = x.ft.seq_num /\ n = x.ft.win[n % WINSZ] + WINSZ,
           x.ft.reset_sn # 0 =>
               m = Cardinality(Missing(x.ft.reset_sn, r, x.mark \cup {n})),
           NEW t, Moved(x, t, r, m)
    PROVE  Kept(x, Take(t, n), n)
<1> DEFINE w == x.ft.win
           z == x.ft.reset_sn
           q == x.ft.seq_num
           M == x.mark
           y == Take(t, n)
<1>1. Window(w, z, q, M)
      BY DEF WinOK
<1>2. w \in [0 .. WINSZ - 1 -> Int]
      BY <1>1 DEF Window
<1>3. /\ Shape(y) /\ y.ft.win = [w EXCEPT ![n % WINSZ] = n]
      /\ y.ft.reset_sn = z /\ y.ft.seq_num = r /\ y.ft.missing = m
      /\ y.ln = x.ln /\ y.mark = M \cup {n}
      /\ y.pub = x.pub /\ y.again = x.again /\ y.restart = x.restart
      /\ n # w[n % WINSZ] + WINSZ => y.ft.state = "STALE" /\ y.told = "STALE"
      /\ n = w[n % WINSZ] + WINSZ => y.ft.state = x.ft.state /\ y.told = x.told
  <2>1. y = Take(t, n) /\ t.ft.win \in [0 .. WINSZ - 1 -> Int] /\ t.told = t.ft.state
        BY <1>2 DEF WinOK, Moved
  <2> HIDE DEF y
  <2>2. TakenFrom(t, y, n)
        BY <2>1, TakeFields DEF Moved
  <2> QED
      BY <2>1, <2>2, Zenon DEF SameRest, TakenFrom, Moved
<1> HIDE DEF y
<1>4. /\ n \notin M
      /\ Window([w EXCEPT ![n % WINSZ] = n], z, r, M \cup {n})
      /\ NothingOver(w, z, q, M) /\ n = w[n % WINSZ] + WINSZ =>
             NothingOver([w EXCEPT ![n % WINSZ] = n], z, r, M \cup {n})
      BY <1>1, TakeWindow
<1>5. y.ft.state \in States /\ y.told = y.ft.state
      BY <1>3 DEF WinOK, States
<1>6. WinOK(y)
      BY <1>3, <1>4, <1>5 DEF WinOK
<1>7. Lossless(x) => Lossless(y)
      BY <1>3, <1>4 DEF Lossless
<1> QED
    BY <1>3, <1>4, <1>6, <1>7 DEF Kept, SameRest, y


\* One message: it is dropped and the line is as before, or it is kept.
LEMMA WinMessageKeeps ==
    ASSUME NEW x, WinOK(x), NEW n \in Nat
    PROVE  \/ WinMessage(x, n) = [s |-> x, drop |-> TRUE]
           \/ \E y : WinMessage(x, n) = [s |-> y, drop |-> FALSE] /\ Kept(x, y, n)
<1> DEFINE w == x.ft.win
           z == x.ft.reset_sn
           q == x.ft.seq_num
           M == x.mark
           m == x.ft.missing
<1>1. /\ Shape(x) /\ z \in Nat /\ q \in Nat /\ z <= q /\ M \subseteq z + 1 .. q /\ m \in Nat
      /\ z # 0 => m = Cardinality(Missing(z, q, M))
      /\ Window(w, z, q, M) /\ Taken(z, q, M)
      BY DEF WinOK, Window, Taken
<1>2. CASE n = q + 1
  <2> DEFINE t == [x EXCEPT !.ft.seq_num = n]
  <2>1. WinMessage(x, n) = [s |-> Take(t, n), drop |-> FALSE]
        BY <1>2, Zenon DEF WinMessage
  <2>2. Moved(x, t, n, m)
        BY <1>1 DEF Moved, Shape, SameRest
  <2> HIDE DEF t
  <2>3. z # 0 => m = Cardinality(Missing(z, n, M \cup {n}))
        BY <1>1, <1>2, MissingNext
  <2>4. n > q
        BY <1>1, <1>2
  <2>5. Kept(x, Take(t, n), n)
        BY <1>1, <2>2, <2>3, <2>4, TakeKeeps
  <2> QED
      BY <2>1, <2>5, Zenon
<1>3. CASE n # q + 1 /\ n <= q
  <2>1. CASE n = w[n % WINSZ] + WINSZ
    <3> DEFINE v == IF m > 0 THEN m - 1 ELSE m
               t == [x EXCEPT !.ft.missing = v]
    <3>1. WinMessage(x, n) = [s |-> Take(t, n), drop |-> FALSE]
          BY <1>3, <2>1 DEF WinMessage, Behind, Slot
    <3>2. v \in Nat
          BY <1>1
    <3>3. n \notin M /\ n > z
      <4>1. n % WINSZ \in 0 .. WINSZ - 1 /\ WINSZ \in Nat \ {0}
            BY OpraLineAssumption
      <4>2. z - WINSZ < w[n % WINSZ] /\ w[n % WINSZ] \in Int
            BY <1>1, <4>1 DEF Window
      <4>3. n \in M => n <= w[n % WINSZ]
            BY <1>1 DEF Window
      <4> QED
          BY <1>1, <2>1, <4>1, <4>2, <4>3
    <3>4. z # 0 => v = Cardinality(Missing(z, q, M \cup {n}))
      <4> HIDE DEF w, z, q, M, m
      <4>1. /\ Cardinality(Missing(z, q, M)) > 0
            /\ Cardinality(Missing(z, q, M \cup {n})) = Cardinality(Missing(z, q, M)) - 1
            BY <1>1, <1>3, <3>3, MissingFilled
      <4> QED
          BY <1>1, <4>1
    <3> HIDE DEF v
    <3>5. Moved(x, t, q, v)
          BY <1>1 DEF Moved, Shape, SameRest
    <3> HIDE DEF t
    <3>6. Kept(x, Take(t, n), n)
          BY <1>1, <1>3, <2>1, <3>2, <3>4, <3>5, TakeKeeps
    <3> QED
        BY <3>1, <3>6, Zenon
  <2>2. CASE n # w[n % WINSZ] + WINSZ
        BY <1>3, <2>2 DEF WinMessage, Behind, Slot
  <2> QED
      BY <2>1, <2>2
<1>4. CASE n # q + 1 /\ ~(n <= q)
  <2> DEFINE gap == IF q # 0 THEN n - (q + 1) ELSE 0
             v == m + gap
             t == [x EXCEPT !.ft.missing = v, !.ft.seq_num = n]
  <2>1. WinMessage(x, n) = [s |-> Take(t, n), drop |-> FALSE]
        BY <1>4, Zenon DEF WinMessage, Beyond
  <2>2. v \in Nat
        BY <1>1, <1>4
  <2>3. z # 0 => v = Cardinality(Missing(z, n, M \cup {n}))
    <3> SUFFICES ASSUME z # 0 PROVE v = Cardinality(Missing(z, n, M \cup {n}))
        OBVIOUS
    <3>1. q # 0 /\ n > q
          BY <1>1, <1>4
    <3>2. Cardinality(Missing(z, n, M \cup {n})) = Cardinality(Missing(z, q, M)) + (n - (q + 1))
          BY <1>1, <3>1, MissingBeyond
    <3> QED
        BY <1>1, <3>1, <3>2
  <2> HIDE DEF v
  <2>4. Moved(x, t, n, v)
        BY <1>1 DEF Moved, Shape, SameRest
  <2> HIDE DEF t
  <2>5. n > q
        BY <1>1, <1>4
  <2>6. Kept(x, Take(t, n), n)
        BY <1>1, <2>2, <2>3, <2>4, <2>5, TakeKeeps
  <2> QED
      BY <2>1, <2>6, Zenon
<1> QED
    BY <1>2, <1>3, <1>4


-----------------------------------------------------------------------------
(* The messages of a packet.                                                *)

\* The numbers n .. n + k - 1 have all been taken since x.
NewIn(x, y, n, k) ==
    n .. n + k - 1 \subseteq y.mark /\ (n .. n + k - 1) \cap x.mark = {}

\* After k messages the walk has been stopped, or has taken them all.
Walked(x, a, n, k) ==
    \E y : /\ WinOK(y) /\ SameRest(x, y) /\ (Lossless(x) => Lossless(y))
           /\ \/ a = [s |-> y, drop |-> TRUE]
              \/ a = [s |-> y, drop |-> FALSE] /\ NewIn(x, y, n, k)

\* One message of a packet takes the walk through the window one number further.
LEMMA WalkStep ==
    ASSUME NEW x, NEW a, NEW n \in Nat, NEW k \in Nat, Walked(x, a, n, k)
    PROVE  Walked(x, WinStep(a, n + k), n, k + 1)
<1>1. PICK y : /\ WinOK(y) /\ SameRest(x, y) /\ (Lossless(x) => Lossless(y))
               /\ \/ a = [s |-> y, drop |-> TRUE]
                  \/ a = [s |-> y, drop |-> FALSE] /\ NewIn(x, y, n, k)
      BY Zenon DEF Walked
<1>2. CASE a = [s |-> y, drop |-> TRUE]
  <2>1. WinStep(a, n + k) = a
        BY <1>2 DEF WinStep
  <2> QED
      BY <1>1, <1>2, <2>1, Zenon DEF Walked
<1>3. CASE a = [s |-> y, drop |-> FALSE] /\ NewIn(x, y, n, k)
  <2> DEFINE i == n + k
  <2>1. i \in Nat
        OBVIOUS
  <2>2. WinStep(a, i) = WinMessage(y, i)
        BY <1>3 DEF WinStep
  <2>3. CASE WinMessage(y, i) = [s |-> y, drop |-> TRUE]
        BY <1>1, <2>2, <2>3, Zenon DEF Walked
  <2>4. CASE \E v : WinMessage(y, i) = [s |-> v, drop |-> FALSE] /\ Kept(y, v, i)
    <3>1. PICK v : WinMessage(y, i) = [s |-> v, drop |-> FALSE] /\ Kept(y, v, i)
          BY <2>4
    <3>2. /\ WinOK(v) /\ SameRest(y, v) /\ i \notin y.mark /\ v.mark = y.mark \cup {i}
          /\ Lossless(y) => Lossless(v)
          BY <3>1 DEF Kept
    <3>3. SameRest(x, v)
          BY <1>1, <3>2, Zenon DEF SameRest
    <3>4. NewIn(x, v, n, k + 1)
      <4>1. x.mark \subseteq y.mark
            BY <1>1 DEF SameRest
      <4>2. n .. n + (k + 1) - 1 = (n .. n + k - 1) \cup {i}
            OBVIOUS
      <4> HIDE DEF i
      <4> QED
          BY <1>3, <3>2, <4>1, <4>2 DEF NewIn
    <3> QED
        BY <1>1, <2>2, <3>1, <3>2, <3>3, <3>4, Zenon DEF Walked
  <2> HIDE DEF i
  <2>5. Walked(x, WinStep(a, i), n, k + 1)
        BY <1>1, <2>1, <2>3, <2>4, WinMessageKeeps DEF i
  <2> QED
      BY <2>5 DEF i
<1> QED
    BY <1>1, <1>2, <1>3

WF == INSTANCE LeftFold WITH Op <- WinStep

\* The loop of fh_opra_lh_win_update is a fold over the numbers of the packet.
LEMMA WinUpdateIsFold ==
    \A x, n, k : WinUpdate(x, n, k) =
                     WF!Fold([s |-> x, drop |-> FALSE], [i \in 1 .. k |-> n + i - 1])
  BY DEF WinUpdate, WF!Fold, FoldLeft, MapThenFoldSet, WF!FoldLeft, WF!MapThenFoldSet, WF!Max, Max

\* Its result for one message more is one step more.
LEMMA WinUpdateSteps ==
    ASSUME NEW x, NEW n \in Nat
    PROVE  /\ WinUpdate(x, n, 0) = [s |-> x, drop |-> FALSE]
           /\ \A k \in Nat : WinUpdate(x, n, k + 1) = WinStep(WinUpdate(x, n, k), n + k)
<1> DEFINE base == [s |-> x, drop |-> FALSE]
           sq(k) == [i \in 1 .. k |-> n + i - 1]
<1>1. \A k \in Nat : DOMAIN sq(k) = 1 .. k /\ \A i \in 1 .. k : sq(k)[i] = n + i - 1
      OBVIOUS
<1>2. \A k : WinUpdate(x, n, k) = WF!Fold(base, sq(k))
      BY WinUpdateIsFold
<1> HIDE DEF base, sq
<1>3. WinUpdate(x, n, 0) = base
  <2>1. DOMAIN sq(0) = {}
        BY <1>1
  <2> QED
      BY <1>2, <2>1, WF!FoldEmpty
<1>4. ASSUME NEW k \in Nat PROVE WinUpdate(x, n, k + 1) = WinStep(WinUpdate(x, n, k), n + k)
  <2> DEFINE short == sq(k)
             longer == sq(k + 1)
  <2>1. /\ DOMAIN short = 1 .. k /\ DOMAIN longer = 1 .. k + 1
        /\ \A i \in 1 .. k : longer[i] = short[i]
        /\ longer[k + 1] = n + k
    <3>1. k + 1 \in Nat /\ k + 1 \in 1 .. k + 1 /\ n + (k + 1) - 1 = n + k
          OBVIOUS
    <3> QED
        BY <1>1, <3>1
  <2> HIDE DEF short, longer
  <2>2. WF!Fold(base, longer) = WinStep(WF!Fold(base, short), longer[k + 1])
        BY <2>1, WF!FoldSteps
  <2> QED
      BY <1>2, <2>1, <2>2 DEF short, longer
<1> QED
    BY <1>3, <1>4 DEF base

\* fh_opra_lh_win_update: whatever the packet, the window stays sound, and a
\* packet that is not dropped brings numbers that were not taken before.
LEMMA WinUpdateKeeps ==
    ASSUME NEW x, WinOK(x), NEW n \in Nat, NEW k \in Nat
    PROVE  Walked(x, WinUpdate(x, n, k), n, k)
<1> DEFINE P == {i \in Nat : Walked(x, WinUpdate(x, n, i), n, i)}
<1>1. 0 \in P
  <2>1. SameRest(x, x) /\ NewIn(x, x, n, 0)
        BY DEF SameRest, NewIn
  <2>2. Walked(x, [s |-> x, drop |-> FALSE], n, 0)
        BY <2>1, Zenon DEF Walked
  <2> QED
      BY <2>2, WinUpdateSteps
<1>2. ASSUME NEW i \in Nat, i \in P PROVE i + 1 \in P
  <2> DEFINE a == WinUpdate(x, n, i)
  <2>1. WinUpdate(x, n, i + 1) = WinStep(a, n + i)
        BY WinUpdateSteps
  <2>2. Walked(x, a, n, i)
        BY <1>2
  <2> HIDE DEF a
  <2>3. Walked(x, WinStep(a, n + i), n, i + 1)
        BY <2>2, WalkStep
  <2>4. Walked(x, WinUpdate(x, n, i + 1), n, i + 1)
        BY <2>1, <2>3
  <2> QED
      BY <2>4
<1>3. Nat \subseteq P
  <2> HIDE DEF P
  <2> QED
      BY <1>1, <1>2, WF!Induction
<1> QED
    BY <1>3

-----------------------------------------------------------------------------
(* The line, from packet to packet.                                         *)

LineOK(x) ==
    /\ WinOK(x)
    /\ x.pub \subseteq x.mark /\ x.again = FALSE
    /\ \A l \in Sides : x.ln[l].seq_num \in Nat /\ x.ln[l].reset \in BOOLEAN
    /\ ~(x.ln["A"].reset /\ x.ln["B"].reset)

\* What every part of fh_opra_lh_is_dup does to the line: it stays sound, a
\* restart leaves it without a loss, and without one what was true stays so.
Goes(x, y) ==
    /\ LineOK(y)
    /\ Lossless(x) => Lossless(y)
    /\ (x.restart => Lossless(x)) => (y.restart => Lossless(y))
    /\ x.restart => y.restart
    /\ x.ft.state # "NONE" => y.ft.state # "NONE"

\* What two parts of a handler keep, they keep one after the other.
LEMMA GoesOn == ASSUME NEW x, NEW y, NEW v, Goes(x, y), Goes(y, v) PROVE Goes(x, v)
  BY Zenon DEF Goes

\* A part of a handler that does nothing keeps the line.
LEMMA GoesNowhere == ASSUME NEW x, LineOK(x) PROVE Goes(x, x)
  BY Zenon DEF Goes

\* The copy that waits leaves the waiting.
Unwaited(x, y, l) ==
    /\ Shape(y) /\ y.ft = x.ft /\ y.told = x.told /\ y.mark = x.mark
    /\ y.pub = x.pub /\ y.again = x.again /\ y.restart = x.restart
    /\ \A k \in Sides : y.ln[k].seq_num = x.ln[k].seq_num
    /\ y.ln[l].reset = FALSE /\ y.ln[Peer(l)].reset = x.ln[Peer(l)].reset

\* Clearing the reset flag of a copy changes nothing else.
LEMMA UnwaitFields ==
    ASSUME NEW x, Shape(x), NEW l \in Sides, NEW y, y = [x EXCEPT !.ln[l].reset = FALSE]
    PROVE  Unwaited(x, y, l)
<1>1. Peer(l) \in Sides /\ Peer(l) # l
      BY DEF Peer, Sides
<1> QED
    BY <1>1 DEF Shape, Unwaited

\* The numbers start again at n.
RestartOf(x, l, n) ==
    [x EXCEPT !.ln[Peer(l)].reset = TRUE, !.ln[l].seq_num = n,
              !.ft = [@ EXCEPT !.reset_sn = n, !.seq_num = n, !.win = WinInit(n)],
              !.mark = {}, !.pub = {}, !.again = FALSE, !.restart = TRUE]

Restarted(x, y, l, n) ==
    /\ Shape(y) /\ y.ft.reset_sn = n /\ y.ft.seq_num = n /\ y.ft.win = WinInit(n)
    /\ y.ft.missing = x.ft.missing /\ y.ft.state = x.ft.state /\ y.told = x.told
    /\ y.mark = {} /\ y.pub = {} /\ y.again = FALSE /\ y.restart = TRUE
    /\ y.ln[l].seq_num = n /\ y.ln[Peer(l)].seq_num = x.ln[Peer(l)].seq_num
    /\ y.ln[l].reset = x.ln[l].reset /\ y.ln[Peer(l)].reset = TRUE

\* What a restart of the numbers on one copy leaves alone.
LEMMA RestartFields ==
    ASSUME NEW x, Shape(x), NEW l \in Sides, NEW n, NEW y, y = RestartOf(x, l, n)
    PROVE  Restarted(x, y, l, n)
<1>1. Peer(l) \in Sides /\ Peer(l) # l
      BY DEF Peer, Sides
<1> QED
    BY <1>1 DEF RestartOf, Shape, Restarted


\* Clearing ftl_missing changes nothing else.
LEMMA ClearFields ==
    ASSUME NEW x, Shape(x), NEW y, y = [x EXCEPT !.ft.missing = 0]
    PROVE  /\ Shape(y) /\ y.ft.missing = 0
           /\ y.ft.win = x.ft.win /\ y.ft.reset_sn = x.ft.reset_sn
           /\ y.ft.seq_num = x.ft.seq_num /\ y.ft.state = x.ft.state
           /\ y.ln = x.ln /\ y.told = x.told
           /\ y.mark = x.mark /\ y.pub = x.pub /\ y.again = x.again /\ y.restart = x.restart
  BY DEF Shape

\* fh_opra_lh_line_reset.
LEMMA ResetGoes ==
    ASSUME NEW x, LineOK(x), NEW l \in Sides, NEW n \in Nat
    PROVE  /\ Goes(x, LineReset(x, l, n))
           /\ ~x.ln[l].reset => LineReset(x, l, n).restart
<1> DEFINE y == LineReset(x, l, n)
<1>1. Shape(x) /\ WinOK(x)
      BY DEF LineOK, WinOK
<1>2. CASE x.ln[l].reset
  <2>1. y = [x EXCEPT !.ln[l].reset = FALSE]
        BY <1>2 DEF LineReset
  <2> HIDE DEF y
  <2>2. /\ Shape(y) /\ y.ft = x.ft /\ y.told = x.told /\ y.mark = x.mark
        /\ y.pub = x.pub /\ y.again = x.again /\ y.restart = x.restart
        /\ \A k \in Sides : y.ln[k].seq_num = x.ln[k].seq_num
        /\ y.ln[l].reset = FALSE /\ y.ln[Peer(l)].reset = x.ln[Peer(l)].reset
    <3>1. Unwaited(x, y, l)
          BY <1>1, <2>1, UnwaitFields
    <3> QED
        BY <3>1, Zenon DEF Unwaited
  <2>3. ~(y.ln["A"].reset /\ y.ln["B"].reset)
    <3>1. l = "A" \/ l = "B"
          BY DEF Sides
    <3> QED
        BY <2>2, <3>1
  <2>4. WinOK(y)
        BY <1>1, <2>2 DEF WinOK
  <2>5. LineOK(y)
    <3>1. \A k \in Sides : k = l \/ k = Peer(l)
          BY DEF Peer, Sides
    <3>2. \A k \in Sides : y.ln[k].seq_num \in Nat /\ y.ln[k].reset \in BOOLEAN
          BY <2>2, <3>1, Zenon DEF LineOK
    <3> QED
        BY <2>2, <2>3, <2>4, <3>2, Zenon DEF LineOK
  <2>6. Lossless(x) => Lossless(y)
        BY <2>2 DEF Lossless
  <2> QED
      BY <1>2, <2>2, <2>5, <2>6, Zenon DEF Goes, y
<1>3. CASE ~x.ln[l].reset
  <2> DEFINE t == RestartOf(x, l, n)
             g1 == GoStale(t)
             g2 == [g1 EXCEPT !.ft.missing = 0]
  <2>1. y = IF t.ft.missing > 0 THEN g2 ELSE t
        BY <1>3, Zenon DEF LineReset, RestartOf
  <2> HIDE DEF y
  <2>2. /\ Shape(t) /\ t.ft.reset_sn = n /\ t.ft.seq_num = n /\ t.ft.win = WinInit(n)
        /\ t.ft.missing = x.ft.missing /\ t.ft.state = x.ft.state /\ t.told = x.told
        /\ t.mark = {} /\ t.pub = {} /\ t.again = FALSE /\ t.restart = TRUE
        /\ t.ln[l].seq_num = n /\ t.ln[Peer(l)].seq_num = x.ln[Peer(l)].seq_num
        /\ t.ln[l].reset = x.ln[l].reset /\ t.ln[Peer(l)].reset = TRUE
    <3>1. Restarted(x, t, l, n)
          BY <1>1, RestartFields
    <3> QED
        BY <3>1, Zenon DEF Restarted
  <2> HIDE DEF t
  <2>3. /\ Shape(g1) /\ g1.ft.state = "STALE" /\ (t.told = t.ft.state => g1.told = "STALE")
        /\ g1.ft.win = t.ft.win /\ g1.ft.reset_sn = t.ft.reset_sn
        /\ g1.ft.seq_num = t.ft.seq_num
        /\ g1.ln = t.ln
        /\ g1.mark = t.mark /\ g1.pub = t.pub /\ g1.again = t.again /\ g1.restart = t.restart
        BY <2>2, GoStaleFields
  <2> HIDE DEF g1
  <2>4. /\ Shape(g2) /\ g2.ft.missing = 0
        /\ g2.ft.win = g1.ft.win /\ g2.ft.reset_sn = g1.ft.reset_sn
        /\ g2.ft.seq_num = g1.ft.seq_num /\ g2.ft.state = g1.ft.state
        /\ g2.ln = g1.ln /\ g2.told = g1.told
        /\ g2.mark = g1.mark /\ g2.pub = g1.pub /\ g2.again = g1.again
        /\ g2.restart = g1.restart
        BY <2>3, ClearFields
  <2> HIDE DEF g2
  <2>5. x.ft.missing \in Nat /\ x.ft.state \in States /\ x.told = x.ft.state
        BY <1>1 DEF WinOK
  <2>6. /\ Shape(y) /\ y.ft.reset_sn = n /\ y.ft.seq_num = n /\ y.ft.win = WinInit(n)
        /\ y.ft.missing = 0 /\ y.ft.state \in {"STALE", x.ft.state} /\ y.told = y.ft.state
        /\ y.mark = {} /\ y.pub = {} /\ y.again = FALSE /\ y.restart = TRUE
        /\ y.ln = t.ln
    <3>1. CASE t.ft.missing > 0
          BY <2>1, <2>2, <2>3, <2>4, <2>5, <3>1
    <3>2. CASE ~(t.ft.missing > 0)
      <4>1. t.ft.missing = 0
            BY <2>2, <2>5, <3>2
      <4> QED
          BY <2>1, <2>2, <2>5, <3>2, <4>1
    <3> QED
        BY <3>1, <3>2
  <2>7. Window(WinInit(n), n, n, {}) /\ NothingOver(WinInit(n), n, n, {})
        BY RestartWindow
  <2>8. Cardinality(Missing(n, n, {})) = 0
    <3>1. Missing(n, n, {}) = {}
          BY DEF Missing
    <3> QED
        BY <3>1, FS_EmptySet
  <2>9. WinOK(y)
        BY <2>5, <2>6, <2>7, <2>8 DEF WinOK, States
  <2>10. LineOK(y)
    <3>1. Peer(l) \in Sides /\ (\A k \in Sides : k = l \/ k = Peer(l)) /\ l \in {"A", "B"}
          BY DEF Peer, Sides
    <3>2. \A k \in Sides : y.ln[k].seq_num \in Nat
          BY <2>2, <2>6, <3>1 DEF LineOK
    <3>3. ~(y.ln["A"].reset /\ y.ln["B"].reset)
          BY <1>3, <2>2, <2>6, <3>1
    <3>4. \A k \in Sides : y.ln[k].reset \in BOOLEAN
          BY <2>2, <2>6, <3>1, Zenon DEF LineOK
    <3> QED
        BY <2>6, <2>9, <3>2, <3>3, <3>4, Zenon DEF LineOK
  <2>11. Lossless(y)
        BY <2>6, <2>7 DEF Lossless
  <2>12. x.ft.state # "NONE" => y.ft.state # "NONE"
        BY <2>6
  <2>13. y.restart
        BY <2>6
  <2> QED
      BY <2>10, <2>11, <2>12, <2>13, Zenon DEF Goes, y
<1> QED
    BY <1>2, <1>3

\* Telling the listeners keeps the line.
LEMMA NotifyGoes ==
    ASSUME NEW x, LineOK(x) PROVE Goes(x, Notify(x))
<1> DEFINE y == Notify(x)
<1>1. /\ Shape(y) /\ y.ft = x.ft /\ y.ln = x.ln /\ y.told = x.ft.state
      /\ y.mark = x.mark /\ y.pub = x.pub
      /\ y.again = x.again /\ y.restart = x.restart
      BY NotifyFields DEF LineOK, WinOK
<1> HIDE DEF y
<1>2. WinOK(y)
      BY <1>1 DEF LineOK, WinOK
<1>3. LineOK(y)
      BY <1>1, <1>2, Zenon DEF LineOK
<1>4. Lossless(x) => Lossless(y)
      BY <1>1 DEF Lossless
<1> QED
    BY <1>1, <1>3, <1>4, Zenon DEF Goes, y

\* A packet ahead of its copy moves the copy's own number.
LEMMA NumberGoes ==
    ASSUME NEW x, LineOK(x), NEW l \in Sides, NEW v \in Nat,
           NEW y, y = [x EXCEPT !.ln[l].seq_num = v]
    PROVE  Goes(x, y)
<1>1. /\ Shape(y) /\ y.ft = x.ft /\ y.told = x.told
      /\ y.mark = x.mark /\ y.pub = x.pub
      /\ y.again = x.again /\ y.restart = x.restart
      /\ \A k \in Sides : /\ y.ln[k].reset = x.ln[k].reset
                          /\ y.ln[k].seq_num = IF k = l THEN v ELSE x.ln[k].seq_num
      BY DEF LineOK, WinOK, Shape
<1>2. WinOK(y)
      BY <1>1 DEF LineOK, WinOK
<1>3. \A k \in Sides : y.ln[k].seq_num \in Nat /\ y.ln[k].reset \in BOOLEAN
      BY <1>1, Zenon DEF LineOK
<1>4. ~(y.ln["A"].reset /\ y.ln["B"].reset)
      BY <1>1, Zenon DEF LineOK, Sides
<1>5. LineOK(y)
      BY <1>1, <1>2, <1>3, <1>4, Zenon DEF LineOK
<1>6. Lossless(x) => Lossless(y)
      BY <1>1 DEF Lossless
<1> QED
    BY <1>1, <1>5, <1>6, Zenon DEF Goes


\* A packet that the window keeps to its last message is decoded: its numbers
\* are new, so none is decoded again.
LEMMA PublishGoes ==
    ASSUME NEW x, LineOK(x), NEW y, NEW p, NEW n \in Nat, NEW k \in Nat,
           n = p.sn, k = p.num,
           WinOK(y), SameRest(x, y), Lossless(x) => Lossless(y), NewIn(x, y, n, k)
    PROVE  Goes(x, Publish(y, p))
<1> DEFINE new == n .. n + k - 1
           v == Publish(y, p)
<1>1. /\ x.pub \subseteq x.mark /\ y.pub = x.pub /\ x.mark \subseteq y.mark
      /\ new \subseteq y.mark /\ new \cap x.mark = {}
      BY DEF LineOK, SameRest, NewIn
<1>2. v = [y EXCEPT !.pub = @ \cup new, !.again = @ \/ new \cap y.pub # {}]
      BY Zenon DEF Publish
<1>3. new \cap y.pub = {} /\ y.pub \cup new \subseteq y.mark
      BY <1>1
<1> HIDE DEF new, v
<1>4. v = [y EXCEPT !.pub = y.pub \cup new, !.again = FALSE]
  <2>1. (y.again \/ new \cap y.pub # {}) = FALSE
        BY <1>3 DEF LineOK, SameRest
  <2> QED
      BY <1>2, <2>1, Zenon
<1>5. /\ Shape(v) /\ v.ft = y.ft /\ v.ln = y.ln /\ v.told = y.told /\ v.mark = y.mark
      /\ v.pub = y.pub \cup new /\ v.again = FALSE /\ v.restart = y.restart
      BY <1>4 DEF WinOK, Shape
<1>6. WinOK(v)
      BY <1>5 DEF WinOK
<1>7. LineOK(v)
      BY <1>3, <1>5, <1>6, Zenon DEF LineOK, SameRest
<1>8. Lossless(y) => Lossless(v)
      BY <1>5 DEF Lossless
<1>9. x.ft.state # "NONE" => v.ft.state # "NONE"
      BY <1>5 DEF SameRest
<1>10. v.restart = x.restart
      BY <1>5 DEF SameRest
<1> QED
    BY <1>7, <1>8, <1>9, <1>10, Zenon DEF Goes, v

\* The same for a packet of which the window dropped a message.
LEMMA DropGoes ==
    ASSUME NEW x, LineOK(x), NEW y, WinOK(y), SameRest(x, y), Lossless(x) => Lossless(y)
    PROVE  Goes(x, y)
<1>1. LineOK(y)
      BY DEF LineOK, SameRest
<1> QED
    BY <1>1, Zenon DEF Goes, SameRest

\* A packet in sequence, a jump, a duplicate or a gap keeps the line, and no
\* message with the number 0 gets through.
LEMMA SequencedGoes ==
    ASSUME NEW x, LineOK(x), NEW l \in Sides, NEW p, p.sn \in Nat, p.num \in Nat
    PROVE  /\ Goes(x, Sequenced(x, l, p).s)
           /\ ~Sequenced(x, l, p).drop /\ p.num > 0 => p.sn > 0
<1> DEFINE t == IF p.sn >= x.ln[l].seq_num + JumpThreshold
                THEN Notify(LineReset(x, l, p.sn - 1)) ELSE x
           u == IF p.sn > t.ln[l].seq_num
                THEN [t EXCEPT !.ln[l].seq_num = p.sn + p.num - 1] ELSE t
           w == WinUpdate(u, p.sn, p.num)
           r == Sequenced(x, l, p)
<1>1. Goes(x, t)
  <2>1. CASE p.sn >= x.ln[l].seq_num + JumpThreshold
    <3> DEFINE n == p.sn - 1
               y == LineReset(x, l, n)
    <3>1. n \in Nat
          BY <2>1, OpraLineAssumption DEF LineOK
    <3> HIDE DEF n
    <3>2. Goes(x, y)
          BY <3>1, ResetGoes
    <3> HIDE DEF y
    <3>3. Goes(y, Notify(y))
          BY <3>2, NotifyGoes DEF Goes
    <3>4. t = Notify(y)
          BY <2>1, Zenon DEF n, y
    <3> QED
        BY <3>2, <3>3, <3>4, GoesOn
  <2>2. CASE ~(p.sn >= x.ln[l].seq_num + JumpThreshold)
        BY <2>2, GoesNowhere
  <2> QED
      BY <2>1, <2>2
<1> HIDE DEF t
<1>2. Goes(t, u)
  <2>1. LineOK(t)
        BY <1>1 DEF Goes
  <2>2. CASE p.sn > t.ln[l].seq_num
    <3>1. p.sn + p.num - 1 \in Nat
          BY <2>1, <2>2 DEF LineOK
    <3> QED
        BY <2>1, <2>2, <3>1, NumberGoes
  <2>3. CASE ~(p.sn > t.ln[l].seq_num)
        BY <2>1, <2>3, GoesNowhere
  <2> QED
      BY <2>2, <2>3
<1> HIDE DEF u
<1>3. Goes(x, u) /\ LineOK(u)
      BY <1>1, <1>2, GoesOn DEF Goes
<1>4. Walked(u, w, p.sn, p.num)
      BY <1>3, WinUpdateKeeps DEF LineOK
<1>5. r = IF u.ln[l].reset THEN [s |-> u, drop |-> TRUE]
          ELSE IF w.drop THEN w ELSE [w EXCEPT !.s = Publish(@, p)]
      BY Zenon DEF Sequenced, t, u
<1> HIDE DEF w, r
<1>6. CASE u.ln[l].reset
  <2>1. r = [s |-> u, drop |-> TRUE]
        BY <1>5, <1>6, Zenon
  <2>2. r.s = u /\ r.drop
        BY <2>1, Zenon
  <2> QED
      BY <1>3, <2>2 DEF r
<1>7. CASE ~u.ln[l].reset
  <2>1. PICK y : /\ WinOK(y) /\ SameRest(u, y) /\ (Lossless(u) => Lossless(y))
                 /\ \/ w = [s |-> y, drop |-> TRUE]
                    \/ w = [s |-> y, drop |-> FALSE] /\ NewIn(u, y, p.sn, p.num)
        BY <1>4, Zenon DEF Walked
  <2>2. CASE w = [s |-> y, drop |-> TRUE]
    <3>1. r.s = y
          BY <1>5, <1>7, <2>2
    <3>2. Goes(u, y)
          BY <1>3, <2>1, DropGoes
    <3>3. r.drop
      <4>1. w.drop
            BY <2>2, Zenon
      <4> QED
          BY <1>5, <1>7, <4>1, Zenon
    <3> QED
        BY <1>3, <3>1, <3>2, <3>3, GoesOn DEF r
  <2>3. CASE w = [s |-> y, drop |-> FALSE] /\ NewIn(u, y, p.sn, p.num)
    <3>1. r.s = Publish(y, p)
          BY <1>5, <1>7, <2>3
    <3>2. Goes(u, Publish(y, p))
          BY <1>3, <2>1, <2>3, PublishGoes
    <3>3. p.num > 0 => p.sn > 0
      <4>1. p.num > 0 => p.sn \in y.mark
            BY <2>3 DEF NewIn
      <4>2. y.mark \subseteq y.ft.reset_sn + 1 .. y.ft.seq_num /\ y.ft.reset_sn \in Nat
            BY <2>1 DEF WinOK, Window
      <4> QED
          BY <4>1, <4>2
    <3> QED
        BY <1>3, <3>1, <3>2, <3>3, GoesOn DEF r
  <2> QED
      BY <2>1, <2>2, <2>3
<1> QED
    BY <1>6, <1>7


\* Going stale keeps the line and restarts no numbers.
LEMMA GoStaleGoes ==
    ASSUME NEW x, LineOK(x)
    PROVE  Goes(x, GoStale(x)) /\ GoStale(x).ft.state # "NONE" /\ GoStale(x).restart = x.restart
<1> DEFINE y == GoStale(x)
<1>1. /\ Shape(y) /\ y.ft.state = "STALE" /\ (x.told = x.ft.state => y.told = "STALE")
      /\ y.ft.win = x.ft.win /\ y.ft.reset_sn = x.ft.reset_sn
      /\ y.ft.seq_num = x.ft.seq_num /\ y.ft.missing = x.ft.missing
      /\ y.ln = x.ln
      /\ y.mark = x.mark /\ y.pub = x.pub /\ y.again = x.again /\ y.restart = x.restart
      BY GoStaleFields DEF LineOK, WinOK
<1> HIDE DEF y
<1>2. WinOK(y)
      BY <1>1 DEF LineOK, WinOK, States
<1>3. LineOK(y)
      BY <1>1, <1>2, Zenon DEF LineOK
<1>4. Lossless(y) /\ y.ft.state # "NONE"
      BY <1>1 DEF Lossless
<1> QED
    BY <1>1, <1>3, <1>4, Zenon DEF Goes, y

\* A start of day: the state becomes OK, and says so, whatever it was.
LEMMA OpenedFields ==
    ASSUME NEW x, LineOK(x), NEW y, y = Notify([x EXCEPT !.ft.state = "OK"])
    PROVE  /\ LineOK(y) /\ y.ft.state = "OK" /\ y.ln = x.ln /\ y.restart = x.restart
           /\ x.ft.state = "OK" /\ Lossless(x) => Lossless(y)
<1> DEFINE t == [x EXCEPT !.ft.state = "OK"]
<1>1. /\ Shape(t) /\ t.ft.state = "OK"
      /\ t.ft.win = x.ft.win /\ t.ft.reset_sn = x.ft.reset_sn
      /\ t.ft.seq_num = x.ft.seq_num /\ t.ft.missing = x.ft.missing
      /\ t.ln = x.ln
      /\ t.mark = x.mark /\ t.pub = x.pub /\ t.again = x.again /\ t.restart = x.restart
  <2>1. Shape(x)
        BY DEF LineOK, WinOK
  <2> QED
      BY <2>1, SetStateFields
<1> HIDE DEF t
<1>2. /\ Shape(y) /\ y.ft = t.ft /\ y.ln = t.ln /\ y.told = t.ft.state
      /\ y.mark = t.mark /\ y.pub = t.pub /\ y.again = t.again /\ y.restart = t.restart
      BY <1>1, NotifyFields DEF t
<1>3. WinOK(y)
      BY <1>1, <1>2 DEF LineOK, WinOK, States
<1>4. LineOK(y)
      BY <1>1, <1>2, <1>3, Zenon DEF LineOK
<1>5. x.ft.state = "OK" /\ Lossless(x) => Lossless(y)
      BY <1>1, <1>2 DEF Lossless
<1> QED
    BY <1>1, <1>2, <1>4, <1>5

\* Nobody waits on a line that has not seen a packet.
Fresh(x) == x.ft.state = "NONE" => ~x.ln["A"].reset /\ ~x.ln["B"].reset

\* fh_opra_lh_is_dup: what holds of the line after any packet.
LEMMA IsDupKeeps ==
    ASSUME NEW x, LineOK(x), Fresh(x), ~x.restart,
           NEW l \in Sides, NEW p, p.sn \in Nat, p.num \in Nat,
           NEW y, y = IsDup(x, l, p).s
    PROVE  /\ LineOK(y) /\ y.ft.state # "NONE"
           /\ y.restart => Lossless(y)
           /\ Lossless(x) /\ ~(p.cat = "H" /\ p.type = "C" /\ ~y.restart /\ x.ft.state = "STALE")
                  => Lossless(y)
<1> DEFINE v == IF x.ft.state = "NONE" THEN GoStale(x) ELSE x
<1>1. Goes(x, v) /\ v.ft.state # "NONE" /\ ~v.restart
  <2>1. CASE x.ft.state = "NONE"
    <3>1. v = GoStale(x)
          BY <2>1
    <3>2. Goes(x, GoStale(x)) /\ GoStale(x).ft.state # "NONE" /\ GoStale(x).restart = x.restart
          BY GoStaleGoes
    <3> QED
        BY <3>1, <3>2
  <2>2. CASE x.ft.state # "NONE"
        BY <2>2, GoesNowhere
  <2> QED
      BY <2>1, <2>2
<1>2. x.ft.state # "NONE" => v = x
      BY Zenon
<1>3. x.ft.state = "NONE" => ~v.ln["A"].reset /\ ~v.ln["B"].reset
      BY GoStaleFields DEF LineOK, WinOK, Fresh
<1>4. IsDup(x, l, p) =
          CASE p.cat = "H" /\ p.type = "C" ->
                   Decoded(LineReset(Notify([v EXCEPT !.ft.state = "OK"]), l, p.sn))
            [] p.cat = "H" /\ p.type = "K" -> Sequenced(Notify(LineReset(v, l, p.sn)), l, p)
            [] p.cat = "H" /\ p.type = "A" -> Sequenced(LineReset(v, l, p.sn), l, p)
            [] p.cat = "H" /\ p.type = "N" -> Decoded(v)
            [] p.cat = "C" -> Decoded(v)
            [] OTHER -> Sequenced(v, l, p)
      BY Zenon DEF IsDup
<1> HIDE DEF v
<1>5. LineOK(v)
      BY <1>1 DEF Goes
<1>6. SUFFICES \/ Goes(v, y)
               \/ /\ p.cat = "H" /\ p.type = "C" /\ LineOK(y) /\ y.ft.state # "NONE"
                  /\ y.restart => Lossless(y)
                  /\ v.ft.state = "OK" /\ Lossless(v) => Lossless(y)
                  /\ x.ft.state = "NONE" => y.restart
  <2>1. CASE Goes(v, y)
    <3>1. Goes(x, y)
          BY <1>1, <2>1, GoesOn
    <3>2. y.ft.state # "NONE"
          BY <1>1, <2>1 DEF Goes
    <3> QED
        BY <3>1, <3>2, Zenon DEF Goes
  <2>2. CASE /\ p.cat = "H" /\ p.type = "C" /\ LineOK(y) /\ y.ft.state # "NONE"
             /\ y.restart => Lossless(y)
             /\ v.ft.state = "OK" /\ Lossless(v) => Lossless(y)
             /\ x.ft.state = "NONE" => y.restart
    <3> SUFFICES ASSUME Lossless(x), ~y.restart, x.ft.state # "STALE" PROVE Lossless(y)
        BY <2>2, Zenon
    <3>1. x.ft.state = "OK"
          BY <2>2 DEF LineOK, WinOK, States
    <3>2. v = x
          BY <1>2, <3>1
    <3> QED
        BY <2>2, <3>1, <3>2
  <2> QED
      BY <1>6, <2>1, <2>2
<1>7. CASE p.cat = "H" /\ p.type = "C"
  <2> DEFINE t == Notify([v EXCEPT !.ft.state = "OK"])
             u == LineReset(t, l, p.sn)
  <2>1. y = u
    <3>1. IsDup(x, l, p) = Decoded(u)
          BY <1>4, <1>7
    <3> QED
        BY <3>1 DEF Decoded
  <2>2. /\ LineOK(t) /\ t.ft.state = "OK" /\ t.ln = v.ln /\ t.restart = v.restart
        /\ v.ft.state = "OK" /\ Lossless(v) => Lossless(t)
        BY <1>5, OpenedFields
  <2> HIDE DEF t
  <2>3. Goes(t, u) /\ (~t.ln[l].reset => u.restart)
        BY <2>2, ResetGoes
  <2> HIDE DEF u
  <2>4. x.ft.state = "NONE" => u.restart
        BY <1>3, <2>2, <2>3 DEF Sides
  <2>5. u.ft.state # "NONE"
        BY <2>2, <2>3 DEF Goes
  <2>6. u.restart => Lossless(u)
        BY <1>1, <2>2, <2>3, Zenon DEF Goes
  <2>7. LineOK(u) /\ (v.ft.state = "OK" /\ Lossless(v) => Lossless(u))
        BY <2>2, <2>3, Zenon DEF Goes
  <2> QED
      BY <1>7, <2>1, <2>4, <2>5, <2>6, <2>7, Zenon
<1>8. CASE ~(p.cat = "H" /\ p.type = "C") /\ p.cat = "H" /\ p.type = "K"
  <2> DEFINE t == LineReset(v, l, p.sn)
             u == Notify(t)
  <2>1. IsDup(x, l, p) = Sequenced(u, l, p)
        BY <1>4, <1>8
  <2>2. Goes(v, t)
        BY <1>5, ResetGoes
  <2> HIDE DEF t
  <2>3. Goes(t, u)
        BY <2>2, NotifyGoes DEF Goes
  <2> HIDE DEF u
  <2>4. Goes(u, y)
        BY <2>1, <2>3, SequencedGoes DEF Goes
  <2> QED
      BY <2>2, <2>3, <2>4, GoesOn
<1>9. CASE p.cat = "H" /\ p.type = "A"
  <2> DEFINE t == LineReset(v, l, p.sn)
  <2>1. IsDup(x, l, p) = Sequenced(t, l, p)
        BY <1>4, <1>9
  <2>2. Goes(v, t)
        BY <1>5, ResetGoes
  <2> HIDE DEF t
  <2>3. Goes(t, y)
        BY <2>1, <2>2, SequencedGoes DEF Goes
  <2> QED
      BY <2>2, <2>3, GoesOn
<1>10. CASE (p.cat = "H" /\ p.type = "N") \/ p.cat = "C"
  <2>1. IsDup(x, l, p) = Decoded(v)
        BY <1>4, <1>10
  <2>2. y = v
        BY <2>1 DEF Decoded
  <2> QED
      BY <1>5, <2>2, GoesNowhere
<1>11. CASE p.cat # "C" /\ ~(p.cat = "H" /\ p.type \in {"C", "K", "A", "N"})
  <2>1. IsDup(x, l, p) = Sequenced(v, l, p)
        BY <1>4, <1>11
  <2> QED
      BY <1>5, <2>1, SequencedGoes
<1> QED
    BY <1>7, <1>8, <1>9, <1>10, <1>11


-----------------------------------------------------------------------------
(* The process around the line.                                             *)

Mains == {"mgmt_start", "lh_start", "lh_wait", "mgmt_wait", "mgmt_wait_unjoined",
          "exited", "failed", "tapped", "asserted"}
Places == {"none", "begin", "select", "scan", "flush", "end"}

\* The threads, the taps and what the copies have delivered.
ProcOK ==
    /\ script \in Scripts /\ mode \in {"run", "tap"}
    /\ net \in [Sides -> Nat] /\ \A l \in Sides : net[l] <= Len(script)
    /\ DOMAIN tap = Sides
    /\ \A l \in Sides : {"pkts", "open"} \subseteq DOMAIN tap[l] /\ tap[l].pkts \in 0 .. TapPkts
    /\ main \in Mains /\ mg \in {"none", "run", "end"}
    /\ "pc" \in DOMAIN lh /\ lh.pc \in Places
    /\ faults \in 0 .. MaxFaults

\* The line is sound between two packets, and without a loss unless a late
\* start of day has reopened it.
LinesOK ==
    /\ LineOK(s) /\ Fresh(s) /\ ~s.restart
    /\ ~reopened => Lossless(s)

OpraInv == ProcOK /\ LinesOK

\* The line of a process that starts satisfies the invariant.
LEMMA OpraInit == Init => OpraInv
<1> SUFFICES ASSUME Init PROVE OpraInv
    OBVIOUS
<1>1. ProcOK
  <2>1. script \in Scripts /\ Len(script) \in Nat /\ mode \in {"run", "tap"}
        BY ScriptAssumption DEF Init
  <2>2. /\ net \in [Sides -> Nat] /\ \A l \in Sides : net[l] <= Len(script)
        BY <2>1 DEF Init
  <2>3. /\ DOMAIN tap = Sides
        /\ \A l \in Sides : {"pkts", "open"} \subseteq DOMAIN tap[l] /\ tap[l].pkts \in 0 .. TapPkts
        BY OpraAssumption DEF Init, NewTap
  <2> QED
      BY <2>1, <2>2, <2>3, OpraAssumption DEF Init, ProcOK, Mains, Places
<1>2. /\ Shape(s) /\ s.ft = FtInit /\ s.told = "NONE" /\ s.mark = {} /\ s.pub = {}
      /\ s.again = FALSE /\ s.restart = FALSE /\ \A l \in Sides : s.ln[l] = LineInit
      BY DEF Init, State0, Shape, FtInit, LineInit
<1>3. WinOK(s)
  <2>1. Window(WinInit(0), 0, 0, {})
        BY RestartWindow
  <2>2. /\ s.ft.reset_sn = 0 /\ s.ft.seq_num = 0 /\ s.ft.missing = 0
        /\ s.ft.win = WinInit(0) /\ s.ft.state = "NONE"
        BY <1>2 DEF FtInit
  <2> QED
      BY <1>2, <2>1, <2>2 DEF WinOK, States
<1>4. \A l \in Sides : s.ln[l].seq_num = 0 /\ s.ln[l].reset = FALSE
      BY <1>2 DEF LineInit
<1>5. ~s.ln["A"].reset /\ ~s.ln["B"].reset
      BY <1>4 DEF Sides
<1>6. \A l \in Sides : s.ln[l].seq_num \in Nat /\ s.ln[l].reset \in BOOLEAN
  <2>1. 0 \in Nat
        OBVIOUS
  <2> QED
      BY <1>4, <2>1, Zenon
<1>7. LineOK(s)
      BY <1>2, <1>3, <1>5, <1>6, Zenon DEF LineOK
<1>8. Lossless(s)
      BY <1>2 DEF Lossless, FtInit
<1> QED
    BY <1>1, <1>2, <1>5, <1>7, <1>8 DEF OpraInv, LinesOK, Fresh

\* A packet on a copy of the line (fh_opra_pkt_process).
LEMMA PacketKeeps ==
    ASSUME LinesOK, NEW l \in Sides, NEW p, p.sn \in Nat, p.num \in Nat, NEW u, Packet(l, p, u)
    PROVE  LinesOK'
<1> DEFINE y == IsDup(s, l, p).s
<1>1. /\ s' = [y EXCEPT !.restart = FALSE]
      /\ reopened' = ((reopened /\ ~y.restart) \/
                      (p.type = "C" /\ p.cat = "H" /\ ~y.restart /\ s.ft.state = "STALE"))
      BY Zenon DEF Packet
<1>2. /\ LineOK(y) /\ y.ft.state # "NONE"
      /\ y.restart => Lossless(y)
      /\ Lossless(s) /\ ~(p.cat = "H" /\ p.type = "C" /\ ~y.restart /\ s.ft.state = "STALE")
             => Lossless(y)
      BY IsDupKeeps DEF LinesOK
<1> HIDE DEF y
<1>3. /\ Shape(s') /\ s'.ft = y.ft /\ s'.ln = y.ln /\ s'.told = y.told /\ s'.mark = y.mark
      /\ s'.pub = y.pub /\ s'.again = y.again /\ s'.restart = FALSE
  <2>1. Shape(y)
        BY <1>2 DEF LineOK, WinOK
  <2> QED
      BY <1>1, <2>1 DEF Shape
<1>4. WinOK(s')
  <2>1. WinOK(y)
        BY <1>2 DEF LineOK
  <2> QED
      BY <1>3, <2>1 DEF WinOK
<1>5. LineOK(s')
      BY <1>2, <1>3, <1>4, Zenon DEF LineOK
<1>6. Fresh(s')
      BY <1>2, <1>3 DEF Fresh
<1>7. ~reopened' => Lossless(y)
      BY <1>1, <1>2, Zenon DEF LinesOK
<1>8. Lossless(y) => Lossless(s')
      BY <1>3 DEF Lossless
<1>9. ~s'.restart
      BY <1>3
<1> QED
    BY <1>5, <1>6, <1>7, <1>8, <1>9, Zenon DEF LinesOK


\* A read of one copy: where the thread goes, and that nothing else of it moves.
LEMMA ReadKeeps ==
    ASSUME ProcOK, NEW l \in Sides, Read(l)
    PROVE  "pc" \in DOMAIN lh' /\ lh'.pc \in Places
  BY DEF ProcOK, Read, Places

\* The copy's position stays inside the script.
LEMMA DeliverKeeps ==
    ASSUME ProcOK, NEW l \in Sides, NEW i, NEW u, Delivers(l, i, u), script' = script
    PROVE  /\ i \in 1 .. Len(script)
           /\ net' \in [Sides -> Nat] /\ \A k \in Sides : net'[k] <= Len(script')
           /\ faults' \in 0 .. MaxFaults
<1>1. i \in 1 .. Len(script) /\ net' = [net EXCEPT ![l] = IF i > @ THEN i ELSE @]
      BY DEF Delivers
<1>2. net \in [Sides -> Nat] /\ \A k \in Sides : net[k] <= Len(script)
      BY DEF ProcOK
<1>3. Len(script) \in Nat
      BY ScriptAssumption DEF ProcOK
<1>4. faults' \in 0 .. MaxFaults
      BY OpraAssumption DEF Delivers, Spend, ProcOK
<1> DEFINE v == IF i > net[l] THEN i ELSE net[l]
<1>5. v \in Nat /\ v <= Len(script)
      BY <1>1, <1>2, <1>3
<1>6. net' = [net EXCEPT ![l] = v]
      BY <1>1
<1> HIDE DEF v
<1> QED
    BY <1>1, <1>2, <1>4, <1>5, <1>6

\* The main thread, the management thread and the ends of a pass.
LEMMA ThreadsKeep ==
    ASSUME OpraInv,
           \/ MgmtStart \/ LhStart \/ LhWait \/ MgmtWait \/ Signal
           \/ MgmtStop \/ MgmtConnectionFails \/ MgmtEnd
           \/ LhBegin \/ PassEnd \/ LhEnd
           \/ UNCHANGED vars
    PROVE  OpraInv'
<1>1. LinesOK /\ UNCHANGED <<s, reopened>>
      BY DEF OpraInv, MgmtStart, LhStart, LhWait, MgmtWait, Signal, MgmtStop,
             MgmtConnectionFails, MgmtEnd, LhBegin, PassEnd, LhEnd, vars, Lines
<1>2. LinesOK'
      BY <1>1 DEF LinesOK
<1>3. UNCHANGED <<script, mode, net, tap>>
      BY DEF MgmtStart, LhStart, LhWait, MgmtWait, Signal, MgmtStop,
             MgmtConnectionFails, MgmtEnd, LhBegin, PassEnd, LhEnd, vars, Lines
<1>4. faults' \in 0 .. MaxFaults
      BY OpraAssumption
      DEF OpraInv, ProcOK, MgmtStart, LhStart, LhWait, MgmtWait, Signal, MgmtStop, Spend,
          MgmtConnectionFails, MgmtEnd, LhBegin, PassEnd, LhEnd, vars, Lines
<1>5. main' \in Mains /\ mg' \in {"none", "run", "end"}
      BY DEF OpraInv, ProcOK, Mains, MgmtStart, LhStart, LhWait, MgmtWait, Signal, MgmtStop,
             MgmtConnectionFails, MgmtEnd, LhBegin, PassEnd, LhEnd, vars, Lines
<1>6. "pc" \in DOMAIN lh' /\ lh'.pc \in Places
      BY DEF OpraInv, ProcOK, Places, MgmtStart, LhStart, LhWait, MgmtWait, Signal, MgmtStop,
             MgmtConnectionFails, MgmtEnd, LhBegin, PassEnd, LhEnd, vars, Lines
<1>7. ProcOK'
      BY <1>3, <1>4, <1>5, <1>6 DEF OpraInv, ProcOK
<1> QED
    BY <1>2, <1>7 DEF OpraInv

\* The packets of the copies, good, bad, missed and tapped.
LEMMA ReadsKeep ==
    ASSUME OpraInv, NEW l \in Sides, BadPacket(l) \/ ReceiveFails(l) \/ Receive(l) \/ Tap(l)
    PROVE  OpraInv'
<1>1. ProcOK /\ LinesOK /\ Read(l) /\ script' = script /\ mode' = mode
      BY DEF OpraInv, BadPacket, ReceiveFails, Receive, Tap, Lines
<1>2. "pc" \in DOMAIN lh' /\ lh'.pc \in Places
      BY <1>1, ReadKeeps
<1>3. mg' = mg
      BY DEF BadPacket, ReceiveFails, Receive, Tap, Lines
<1>4. CASE BadPacket(l)
  <2>1. UNCHANGED <<tap, main, s, reopened>> /\ net[l] < Len(script)
        /\ net' = [net EXCEPT ![l] = @ + 1] /\ Spend
        BY <1>4 DEF BadPacket
  <2>2. Len(script) \in Nat
        BY <1>1, ScriptAssumption DEF ProcOK
  <2>3. faults' \in 0 .. MaxFaults
        BY <1>1, <2>1, OpraAssumption DEF Spend, ProcOK
  <2>4. net' \in [Sides -> Nat] /\ \A k \in Sides : net'[k] <= Len(script')
        BY <1>1, <2>1, <2>2 DEF ProcOK
  <2>5. ProcOK'
        BY <1>1, <1>2, <1>3, <2>1, <2>3, <2>4 DEF ProcOK
  <2>6. LinesOK'
        BY <1>1, <2>1 DEF LinesOK
  <2> QED
      BY <2>5, <2>6 DEF OpraInv
<1>5. CASE ReceiveFails(l)
  <2>1. UNCHANGED <<tap, main, s, reopened, net, faults>>
        BY <1>5 DEF ReceiveFails, Lines
  <2>2. ProcOK'
        BY <1>1, <1>2, <1>3, <2>1 DEF ProcOK
  <2>3. LinesOK'
        BY <1>1, <2>1 DEF LinesOK
  <2> QED
      BY <2>2, <2>3 DEF OpraInv
<1>6. CASE Receive(l)
  <2>1. PICK i \in 1 .. Len(script) :
            \E u \in SUBSET Sends(script[i]) : Delivers(l, i, u) /\ Packet(l, script[i], u)
        BY <1>6 DEF Receive
  <2>2. UNCHANGED tap /\ main' \in {main, "asserted"}
        BY <1>6 DEF Receive
  <2>3. ProcOK'
        BY <1>1, <1>2, <1>3, <2>1, <2>2, DeliverKeeps DEF ProcOK, Mains
  <2>4. script[i].sn \in Nat /\ script[i].num \in Nat
        BY <1>1, <2>1, ScriptAssumption DEF ProcOK
  <2>5. LinesOK'
        BY <1>1, <2>1, <2>4, PacketKeeps
  <2> QED
      BY <2>3, <2>5 DEF OpraInv
<1>7. CASE Tap(l)
  <2>1. PICK i \in 1 .. Len(script) : Delivers(l, i, {}) /\ TapPacket(l)
        BY <1>7 DEF Tap
  <2>2. UNCHANGED <<s, reopened>> /\ main' \in {main, "tapped"}
        BY <1>7 DEF Tap
  <2>3. /\ DOMAIN tap' = Sides
        /\ \A k \in Sides : /\ {"pkts", "open"} \subseteq DOMAIN tap'[k]
                            /\ tap'[k].pkts \in 0 .. TapPkts
    <3>1. CASE tap[l].pkts < TapPkts /\ tap' = [tap EXCEPT ![l].pkts = @ + 1]
          BY <1>1, <3>1, OpraAssumption DEF ProcOK
    <3>2. CASE tap' = [tap EXCEPT ![l].open = FALSE]
          BY <1>1, <3>2 DEF ProcOK
    <3> QED
        BY <2>1, <3>1, <3>2 DEF TapPacket
  <2>4. ProcOK'
        BY <1>1, <1>2, <1>3, <2>1, <2>2, <2>3, DeliverKeeps DEF ProcOK, Mains
  <2>5. LinesOK'
        BY <1>1, <2>2 DEF LinesOK
  <2> QED
      BY <2>4, <2>5 DEF OpraInv
<1> QED
    BY <1>4, <1>5, <1>6, <1>7

\* The process and its line are sound in every state, whatever the copies lose,
\* repeat or deliver late (fh_opra_lh_is_dup).
THEOREM OpraInvariant == Spec => []OpraInv
<1>1. OpraInv /\ [Next]_vars => OpraInv'
      BY ThreadsKeep, ReadsKeep DEF Next
<1> QED
    BY OpraInit, <1>1, PTL DEF Spec

\* Between two restarts of the numbers fh_opra_lh_win_update lets no message be
\* decoded twice, and ftl_missing is the number of messages that are due and
\* have not arrived, for every size of the window and every day of packets.
THEOREM WindowCorrect == Spec => []DecodedOnce
<1>1. OpraInv => DecodedOnce
  <2> SUFFICES ASSUME OpraInv PROVE DecodedOnce
      OBVIOUS
  <2>1. ProcOK /\ LineOK(s) /\ WinOK(s)
        BY DEF OpraInv, LinesOK, LineOK
  <2>2. AtMostOnce
        BY <2>1, Zenon DEF AtMostOnce, LineOK
  <2>3. MissingExact
        BY <2>1 DEF MissingExact, WinOK, Missing, Numbers
  <2>4. s.ft.state \in {"NONE", "STALE", "OK"} /\ s.ft.missing \in Nat /\ s.ft.seq_num \in Nat
        BY <2>1 DEF WinOK, Window, States
  <2>5. \A l \in Sides : s.ln[l].reset \in BOOLEAN
        BY <2>1, Zenon DEF LineOK
  <2>6. \A l \in Sides : net[l] \in 0 .. Len(script)
    <3>1. Len(script) \in Nat
          BY <2>1, ScriptAssumption DEF ProcOK
    <3> QED
        BY <2>1, <3>1 DEF ProcOK
  <2>7. TypeOK
    <3>1. /\ script \in Scripts /\ mode \in {"run", "tap"}
          /\ \A l \in Sides : tap[l].pkts \in 0 .. TapPkts
          /\ main \in {"mgmt_start", "lh_start", "lh_wait", "mgmt_wait", "mgmt_wait_unjoined",
                       "exited", "failed", "tapped", "asserted"}
          /\ lh.pc \in {"none", "begin", "select", "scan", "flush", "end"}
          /\ mg \in {"none", "run", "end"}
          /\ faults \in 0 .. MaxFaults
          BY <2>1 DEF ProcOK, Mains, Places
    <3> QED
        BY <2>4, <2>5, <2>6, <3>1, Zenon DEF TypeOK
  <2> QED
      BY <2>2, <2>3, <2>7 DEF DecodedOnce
<1> QED
    BY OpraInvariant, <1>1, PTL

\* A line that says OK has given no message up unless a late start of day has
\* reopened it, whoever listens has been told its state, and a reset never
\* leaves both copies waiting.
THEOREM LineTrue == Spec => []LineTold
<1>1. OpraInv => LineTold
  <2> SUFFICES ASSUME OpraInv PROVE LineTold
      OBVIOUS
  <2>1. LineOK(s) /\ WinOK(s) /\ (~reopened => Lossless(s))
        BY DEF OpraInv, LinesOK, LineOK
  <2>2. LossTold
        BY <2>1 DEF LossTold, Lossless, NothingOver, Numbers, Slot
  <2>3. StateTold
        BY <2>1 DEF StateTold, WinOK
  <2>4. NotBothWaiting
        BY <2>1, Zenon DEF NotBothWaiting, LineOK
  <2> QED
      BY <2>2, <2>3, <2>4 DEF LineTold
<1> QED
    BY OpraInvariant, <1>1, PTL



-----------------------------------------------------------------------------
(* What a message makes of an option.                                       *)

\* An option of the table.
IsOption(o) ==
    /\ {"seq", "flags", "volume", "val", "f"} \subseteq DOMAIN o
    /\ o.seq \in Nat /\ o.flags \subseteq Fields /\ o.f = [x \in Fields |-> o.f[x]]

\* Option o became q: only the fields X may have changed, each of them flagged; an
\* expiration stays.
Grown(o, q, X) ==
    /\ IsOption(q) /\ q.seq = o.seq /\ o.flags \subseteq q.flags
    /\ \A x \in Fields : (x \notin X => q.f[x] = o.f[x]) /\ (x \notin q.flags => q.f[x] = o.f[x])
    /\ o.f["year"] # 0 => q.f["year"] = o.f["year"]

\* An option that does not change.
LEMMA GrownNot == ASSUME NEW o, IsOption(o), NEW X PROVE Grown(o, o, X)
  BY DEF Grown

\* One change after another.
LEMMA GrownFurther ==
  ASSUME NEW o, NEW p, NEW q, NEW X, NEW Y, Grown(o, p, X), Grown(p, q, Y)
  PROVE  Grown(o, q, X \cup Y)
<1>1. /\ IsOption(q) /\ q.seq = o.seq /\ o.flags \subseteq q.flags
  BY DEF Grown
<1>2. ASSUME NEW x \in Fields
      PROVE  (x \notin X \cup Y => q.f[x] = o.f[x]) /\ (x \notin q.flags => q.f[x] = o.f[x])
  BY DEF Grown
<1>3. o.f["year"] # 0 => q.f["year"] = o.f["year"]
  BY DEF Grown
<1> QED
  BY <1>1, <1>2, <1>3 DEF Grown

\* A change of a larger set of fields.
LEMMA GrownWider ==
  ASSUME NEW o, NEW q, NEW X, NEW Y, Grown(o, q, X), X \subseteq Y
  PROVE  Grown(o, q, Y)
  BY DEF Grown

\* The fields of an option after Set.
LEMMA SetFields ==
  ASSUME NEW o, IsOption(o), NEW x \in Fields, NEW v, NEW q, q = Set(o, x, v)
  PROVE  /\ IsOption(q) /\ q.seq = o.seq /\ q.flags = o.flags \cup {x}
         /\ q.f[x] = v /\ \A y \in Fields : y # x => q.f[y] = o.f[y]
<1>1. /\ DOMAIN q = DOMAIN o /\ q.seq = o.seq /\ q.flags = o.flags \cup {x}
      /\ q.f = [o.f EXCEPT ![x] = v]
  BY DEF Set, IsOption
<1>2. DOMAIN o.f = Fields
  BY DEF IsOption
<1>3. q.f[x] = v /\ \A y \in Fields : y # x => q.f[y] = o.f[y]
  BY <1>1, <1>2
<1>4. q.f = [y \in Fields |-> q.f[y]]
  BY <1>1, <1>2
<1> QED
  BY <1>1, <1>3, <1>4 DEF IsOption

\* A value that is set.
LEMMA SetGrows ==
  ASSUME NEW o, IsOption(o), NEW x \in Fields, x # "year", NEW v
  PROVE  /\ Grown(o, Set(o, x, v), {x})
         /\ Grown(o, Upd(o, x, v), {x})
         /\ Grown(o, First(o, x, v), {x})
<1> DEFINE q == Set(o, x, v)
<1>0. "year" \in Fields
  BY DEF Fields
<1>1. /\ IsOption(q) /\ q.seq = o.seq /\ q.flags = o.flags \cup {x}
      /\ q.f[x] = v /\ \A y \in Fields : y # x => q.f[y] = o.f[y]
  BY SetFields
<1> HIDE DEF q
<1>2. Grown(o, q, {x})
  BY <1>0, <1>1 DEF Grown
<1>3. Grown(o, o, {x})
  BY GrownNot
<1> QED
  BY <1>2, <1>3, Zenon DEF q, Upd, First

\* The expiration of a new option.
LEMMA ExpirationGrows ==
  ASSUME NEW o, IsOption(o)
  PROVE  Grown(o, Expiration(o), {"year", "part"}) /\ Expiration(o).f["year"] # 0
<1>0. "year" \in Fields /\ "part" \in Fields /\ "year" # "part"
  BY DEF Fields
<1>1. CASE o.f["year"] = 0
  <2> DEFINE p == Set(o, "year", 1)
             q == Set(p, "part", 1)
  <2>1. Expiration(o) = q
    BY <1>1 DEF Expiration
  <2>2. /\ IsOption(p) /\ p.seq = o.seq /\ p.flags = o.flags \cup {"year"}
        /\ p.f["year"] = 1 /\ \A y \in Fields : y # "year" => p.f[y] = o.f[y]
    BY <1>0, SetFields
  <2> HIDE DEF p
  <2>3. /\ IsOption(q) /\ q.seq = p.seq /\ q.flags = p.flags \cup {"part"}
        /\ q.f["part"] = 1 /\ \A y \in Fields : y # "part" => q.f[y] = p.f[y]
    BY <1>0, <2>2, SetFields
  <2> HIDE DEF q
  <2>4. q.f["year"] = 1
    BY <1>0, <2>2, <2>3
  <2>5. Grown(o, q, {"year", "part"})
    BY <1>0, <1>1, <2>2, <2>3 DEF Grown
  <2> QED
    BY <2>1, <2>4, <2>5
<1>2. CASE o.f["year"] # 0
  BY <1>2, GrownNot DEF Expiration
<1> QED
  BY <1>1, <1>2

\* An option under update, among the fields X.
Along(o, q, X) == Grown(o, q, X) /\ q.f["year"] # 0

\* One field more.
LEMMA AlongNext ==
  ASSUME NEW o, NEW p, NEW X, Along(o, p, X), NEW x \in X, x \in Fields, x # "year", NEW v
  PROVE  Along(o, Set(p, x, v), X) /\ Along(o, Upd(p, x, v), X) /\ Along(o, First(p, x, v), X)
<1>0. "year" \in Fields /\ X \cup {x} = X /\ IsOption(p)
  BY DEF Fields, Along, Grown
<1>1. ASSUME NEW q, Grown(p, q, {x}) PROVE Along(o, q, X)
  <2>1. Grown(o, q, X \cup {x})
    BY <1>1, GrownFurther DEF Along
  <2>2. q.f["year"] = p.f["year"]
    BY <1>0, <1>1 DEF Grown
  <2> QED
    BY <1>0, <2>1, <2>2 DEF Along
<1>2. Grown(p, Set(p, x, v), {x}) /\ Grown(p, Upd(p, x, v), {x}) /\ Grown(p, First(p, x, v), {x})
  BY <1>0, SetGrows
<1> QED
  BY <1>1, <1>2

\* The first of them.
LEMMA AlongExpiration ==
  ASSUME NEW o, IsOption(o), NEW X, "year" \in X, "part" \in X
  PROVE  Along(o, Expiration(o), X)
<1>1. {"year", "part"} \subseteq X
  OBVIOUS
<1> QED
  BY <1>1, ExpirationGrows, GrownWider DEF Along

\* What the fields C that a message carries and the fields it changes have to do
\* with each other: only expiration and participant are not carried by all.
Covers(o, q, C) ==
    /\ C \subseteq Fields \ {"part"} /\ Grown(o, q, C \cup {"year", "part"})
    /\ "year" \in C => q.f["year"] # 0

\* fh_opra_msg_ls_process.
LEMMA LastSaleCovers ==
  ASSUME NEW o, IsOption(o), NEW m
  PROVE  Covers(o, LastSale(o, m), {"year", "session", "open", "daily_high", "daily_low"})
<1> DEFINE C == {"year", "session", "open", "daily_high", "daily_low"}
           X == C \cup {"year", "part"}
           px == IsePrice(m.px)
           a == Upd(Expiration(o), "session", m.session)
           b == First(a, "open", px)
           c == IF b.f["daily_low"] = 0 \/ px < b.f["daily_low"] THEN Set(b, "daily_low", px) ELSE b
           e == IF c.f["daily_high"] < px THEN Set(c, "daily_high", px) ELSE c
           q == [e EXCEPT !.volume = @ + m.size, !.val = @ + m.size * px]
<1>1. /\ {"session", "open", "daily_high", "daily_low"} \subseteq X \cap Fields
      /\ "year" \in X /\ "part" \in X /\ C \subseteq Fields \ {"part"}
      /\ "session" # "year" /\ "open" # "year" /\ "daily_high" # "year" /\ "daily_low" # "year"
  BY DEF Fields
<1>2. LastSale(o, m) = q
  BY DEF LastSale
<1> HIDE DEF X, px
<1>3. Along(o, Expiration(o), X)
  BY <1>1, AlongExpiration
<1>4. Along(o, a, X)
  BY <1>1, <1>3, AlongNext
<1> HIDE DEF a
<1>5. Along(o, b, X)
  BY <1>1, <1>4, AlongNext
<1> HIDE DEF b
<1>6. Along(o, c, X)
  <2>1. Along(o, Set(b, "daily_low", px), X)
    BY <1>1, <1>5, AlongNext
  <2> QED
    BY <1>5, <2>1, Zenon
<1> HIDE DEF c
<1>7. Along(o, e, X)
  <2>1. Along(o, Set(c, "daily_high", px), X)
    BY <1>1, <1>6, AlongNext
  <2> QED
    BY <1>6, <2>1, Zenon
<1> HIDE DEF e
<1>8. DOMAIN q = DOMAIN e /\ q.f = e.f /\ q.flags = e.flags /\ q.seq = e.seq
  BY <1>7 DEF Along, Grown, IsOption
<1> HIDE DEF q
<1>9. IsOption(q)
  BY <1>7, <1>8 DEF Along, Grown, IsOption
<1>10. Grown(o, q, X) /\ q.f["year"] # 0
  BY <1>7, <1>8, <1>9 DEF Along, Grown
<1> QED
  BY <1>1, <1>2, <1>10 DEF Covers, X

\* fh_opra_msg_eod_process.
LEMMA EndOfDayCovers ==
  ASSUME NEW o, IsOption(o), NEW m
  PROVE  Covers(o, EndOfDay(o, m),
                {"year", "bid", "offer", "open", "high", "low", "last", "close"})
<1> DEFINE C == {"year", "bid", "offer", "open", "high", "low", "last", "close"}
           X == C \cup {"year", "part"}
           px == IsePrice(m.px)
           px2 == IsePrice(m.px2)
           a0 == Expiration(o)
           a1 == Upd(a0, "bid", px)
           a2 == Upd(a1, "offer", px2)
           a3 == Upd(a2, "open", px)
           a4 == Upd(a3, "high", px)
           a5 == Upd(a4, "low", px)
           a6 == Upd(a5, "last", px2)
           a7 == Upd(a6, "close", px2)
<1>1. /\ {"bid", "offer", "open", "high", "low", "last", "close"} \subseteq X \cap Fields
      /\ "year" \in X /\ "part" \in X /\ C \subseteq Fields \ {"part"}
      /\ "bid" # "year" /\ "offer" # "year" /\ "open" # "year" /\ "high" # "year"
      /\ "low" # "year" /\ "last" # "year" /\ "close" # "year"
  BY DEF Fields
<1>2. EndOfDay(o, m) = a7
  BY DEF EndOfDay
<1> HIDE DEF X, px, px2
<1>3. Along(o, a0, X)
  BY <1>1, AlongExpiration
<1> HIDE DEF a0
<1>4. Along(o, a1, X)
  BY <1>1, <1>3, AlongNext
<1> HIDE DEF a1
<1>5. Along(o, a2, X)
  BY <1>1, <1>4, AlongNext
<1> HIDE DEF a2
<1>6. Along(o, a3, X)
  BY <1>1, <1>5, AlongNext
<1> HIDE DEF a3
<1>7. Along(o, a4, X)
  BY <1>1, <1>6, AlongNext
<1> HIDE DEF a4
<1>8. Along(o, a5, X)
  BY <1>1, <1>7, AlongNext
<1> HIDE DEF a5
<1>9. Along(o, a6, X)
  BY <1>1, <1>8, AlongNext
<1> HIDE DEF a6
<1>10. Along(o, a7, X)
  BY <1>1, <1>9, AlongNext
<1> HIDE DEF a7
<1> QED
  BY <1>1, <1>2, <1>10 DEF Covers, X, Along

\* fh_opra_msg_quote_process: C are the fields of one of its four messages.
LEMMA QuoteCovers ==
  ASSUME NEW o, IsOption(o), NEW m, NEW C,
         C = {"year", "session", "open_bid", "open_offer"}
              \cup (IF "bo" \in m.bbo THEN {"bo_part"} ELSE {})
              \cup (IF "bb" \in m.bbo THEN {"bb_part"} ELSE {})
  PROVE  Covers(o, Quote(o, m), C)
<1> DEFINE X == C \cup {"year", "part"}
           a0 == Expiration(o)
           a1 == First(a0, "open_offer", IsePrice(m.px2))
           a2 == First(a1, "open_bid", IsePrice(m.px))
           b == Upd(a2, "session", m.session)
           c == IF "bo" \in m.bbo THEN Upd(b, "bo_part", m.part) ELSE b
           e == IF "bb" \in m.bbo THEN Upd(c, "bb_part", m.part) ELSE c
<1>1. /\ {"session", "open_bid", "open_offer"} \subseteq X \cap Fields
      /\ "year" \in X /\ "part" \in X /\ C \subseteq Fields \ {"part"}
      /\ "session" # "year" /\ "open_bid" # "year" /\ "open_offer" # "year"
      /\ "bo_part" # "year" /\ "bb_part" # "year" /\ "bo_part" \in Fields /\ "bb_part" \in Fields
      /\ "bo" \in m.bbo => "bo_part" \in X
      /\ "bb" \in m.bbo => "bb_part" \in X
  BY DEF Fields
<1>2. Quote(o, m) = e
  BY DEF Quote
<1> HIDE DEF X
<1>3. Along(o, a0, X)
  BY <1>1, AlongExpiration
<1> HIDE DEF a0
<1>4. Along(o, a1, X)
  BY <1>1, <1>3, AlongNext
<1> HIDE DEF a1
<1>5. Along(o, a2, X)
  BY <1>1, <1>4, AlongNext
<1> HIDE DEF a2
<1>6. Along(o, b, X)
  BY <1>1, <1>5, AlongNext
<1> HIDE DEF b
<1>7. Along(o, c, X)
  <2>1. "bo" \in m.bbo => Along(o, Upd(b, "bo_part", m.part), X)
    BY <1>1, <1>6, AlongNext
  <2> QED
    BY <1>6, <2>1, Zenon
<1> HIDE DEF c
<1>8. Along(o, e, X)
  <2>1. "bb" \in m.bbo => Along(o, Upd(c, "bb_part", m.part), X)
    BY <1>1, <1>7, AlongNext
  <2> QED
    BY <1>7, <2>1, Zenon
<1> HIDE DEF e
<1> QED
  BY <1>1, <1>2, <1>8 DEF Covers, X, Along

\* fh_opra_msg_oi_process: no field of the message is the option's.
LEMMA OpenInterestCovers ==
  ASSUME NEW o, IsOption(o), NEW m
  PROVE  Covers(o, OpenInterest(o, m), {})
<1>1. {} \cup {"year", "part"} = {"year", "part"}
  OBVIOUS
<1> QED
  BY <1>1, ExpirationGrows DEF Covers, OpenInterest

\* The value of an index.
LEMMA IndexValueCovers ==
  ASSUME NEW o, IsOption(o), NEW m
  PROVE  Covers(o, IndexValue(o, m), {"last"})
<1>1. "last" \in Fields /\ "last" # "year" /\ "last" # "part"
  BY DEF Fields
<1>2. Grown(o, IndexValue(o, m), {"last"})
  BY <1>1, SetGrows DEF IndexValue
<1>3. Grown(o, IndexValue(o, m), {"last"} \cup {"year", "part"})
  BY <1>2, GrownWider
<1> QED
  BY <1>1, <1>3 DEF Covers

\* The bid and the offer of an index.
LEMMA IndexBidOfferCovers ==
  ASSUME NEW o, IsOption(o), NEW m
  PROVE  Covers(o, IndexBidOffer(o, m), {"bid", "offer"})
<1> DEFINE p == Upd(o, "bid", IsePrice(m.px))
           q == Upd(p, "offer", IsePrice(m.px2))
<1>1. /\ {"bid", "offer"} \subseteq Fields \ {"part"}
      /\ "bid" # "year" /\ "offer" # "year"
  BY DEF Fields
<1>2. IndexBidOffer(o, m) = q
  BY DEF IndexBidOffer
<1>3. Grown(o, p, {"bid"})
  BY <1>1, SetGrows
<1>4. IsOption(p)
  BY <1>3 DEF Grown
<1> HIDE DEF p
<1>5. Grown(p, q, {"offer"})
  BY <1>1, <1>4, SetGrows
<1> HIDE DEF q
<1>6. Grown(o, q, {"bid"} \cup {"offer"})
  BY <1>3, <1>5, GrownFurther
<1>7. Grown(o, q, {"bid", "offer"} \cup {"year", "part"})
  BY <1>6, GrownWider
<1> QED
  BY <1>1, <1>2, <1>7 DEF Covers

\* The participants of the best prices.
Bests == {"bo_part", "bb_part"}

\* The fields a message carries, those it has zeros for, and what it changes.
Carries(m, C, Z) ==
    /\ \A e, k : Send(e, m, k) = MlSend(e, k, C, Z)
    /\ Z \subseteq Bests
    /\ \A o : IsOption(o) => Covers(o, Update(o, m), C)

\* The messages that are for options.
ForOptions(m) ==
    /\ m.bbo \subseteq {"bb", "bo"}
    /\ m.cat \in {"d", "a", "f", "k"} \/ (m.cat = "Y" /\ m.type \in {" ", "I"})

\* A quote with or without the best prices.
LEMMA QuoteCarries ==
  ASSUME NEW m, m.cat = "k", NEW C, NEW Z, Z \subseteq Bests,
         \A e, k : Send(e, m, k) = MlSend(e, k, C, Z),
         C = {"year", "session", "open_bid", "open_offer"}
              \cup (IF "bo" \in m.bbo THEN {"bo_part"} ELSE {})
              \cup (IF "bb" \in m.bbo THEN {"bb_part"} ELSE {})
  PROVE  Carries(m, C, Z)
<1>1. ASSUME NEW o PROVE Update(o, m) = Quote(o, m)
  BY DEF Update
<1>2. ASSUME NEW o, IsOption(o) PROVE Covers(o, Update(o, m), C)
  BY <1>1, <1>2, QuoteCovers
<1> QED
  BY <1>2 DEF Carries

\* Every message carries what it changes.
LEMMA MessageCarries ==
  ASSUME NEW m, ForOptions(m)
  PROVE  \E C, Z : Carries(m, C, Z)
<1>1. CASE m.cat = "d"
  <2>1. \A e, k : Send(e, m, k) = MlSend(e, k, {}, {})
    BY <1>1 DEF Send, OiSend
  <2>2. \A o : IsOption(o) => Covers(o, Update(o, m), {})
    BY <1>1, OpenInterestCovers DEF Update
  <2> QED
    BY <2>1, <2>2 DEF Carries
<1>2. CASE m.cat = "a"
  <2> DEFINE C == {"year", "session", "open", "daily_high", "daily_low"}
  <2>1. \A e, k : Send(e, m, k) = MlSend(e, k, C, {})
    BY <1>2 DEF Send, LsSend
  <2>2. \A o : IsOption(o) => Covers(o, Update(o, m), C)
    BY <1>2, LastSaleCovers DEF Update
  <2> QED
    BY <2>1, <2>2 DEF Carries
<1>3. CASE m.cat = "f"
  <2> DEFINE C == {"year", "bid", "offer", "open", "high", "low", "last", "close"}
  <2>1. \A e, k : Send(e, m, k) = MlSend(e, k, C, {})
    BY <1>3 DEF Send, EodSend
  <2>2. \A o : IsOption(o) => Covers(o, Update(o, m), C)
    BY <1>3, EndOfDayCovers DEF Update
  <2> QED
    BY <2>1, <2>2 DEF Carries
<1>4. CASE m.cat = "k"
  <2> DEFINE C == {"year", "session", "open_bid", "open_offer"}
  <2>1. CASE m.bbo = {}
    <3>1. \A e, k : Send(e, m, k) = MlSend(e, k, C, {})
      BY <1>4, <2>1 DEF Send, QuoteSend
    <3>2. C = C \cup (IF "bo" \in m.bbo THEN {"bo_part"} ELSE {})
                \cup (IF "bb" \in m.bbo THEN {"bb_part"} ELSE {})
      BY <2>1
    <3> QED
      BY <1>4, <3>1, <3>2, QuoteCarries DEF Bests
  <2>2. CASE m.bbo = {"bo"}
    <3> DEFINE B == {"year", "session", "open_bid", "open_offer", "bo_part"}
    <3>1. \A e, k : Send(e, m, k) = MlSend(e, k, B, {"bb_part"})
      BY <1>4, <2>2 DEF Send, QuoteBoSend
    <3>2. B = C \cup (IF "bo" \in m.bbo THEN {"bo_part"} ELSE {})
                \cup (IF "bb" \in m.bbo THEN {"bb_part"} ELSE {})
      BY <2>2
    <3> QED
      BY <1>4, <3>1, <3>2, QuoteCarries DEF Bests
  <2>3. CASE m.bbo = {"bb"}
    <3> DEFINE B == {"year", "session", "open_bid", "open_offer", "bb_part"}
    <3>1. \A e, k : Send(e, m, k) = MlSend(e, k, B, {"bo_part"})
      BY <1>4, <2>3 DEF Send, QuoteBbSend
    <3>2. B = C \cup (IF "bo" \in m.bbo THEN {"bo_part"} ELSE {})
                \cup (IF "bb" \in m.bbo THEN {"bb_part"} ELSE {})
      BY <2>3
    <3> QED
      BY <1>4, <3>1, <3>2, QuoteCarries DEF Bests
  <2>4. CASE m.bbo = {"bb", "bo"}
    <3> DEFINE B == {"year", "session", "open_bid", "open_offer", "bo_part", "bb_part"}
    <3>1. \A e, k : Send(e, m, k) = MlSend(e, k, B, {})
      BY <1>4, <2>4 DEF Send, QuoteBboSend
    <3>2. B = C \cup (IF "bo" \in m.bbo THEN {"bo_part"} ELSE {})
                \cup (IF "bb" \in m.bbo THEN {"bb_part"} ELSE {})
      BY <2>4
    <3> QED
      BY <1>4, <3>1, <3>2, QuoteCarries DEF Bests
  <2>5. m.bbo = {} \/ m.bbo = {"bo"} \/ m.bbo = {"bb"} \/ m.bbo = {"bb", "bo"}
    BY DEF ForOptions
  <2> QED
    BY <2>1, <2>2, <2>3, <2>4, <2>5
<1>5. CASE m.cat = "Y" /\ m.type = " "
  <2>1. \A e, k : Send(e, m, k) = MlSend(e, k, {"last"}, {})
    BY <1>5 DEF Send, UvLsSend
  <2>2. \A o : IsOption(o) => Covers(o, Update(o, m), {"last"})
    BY <1>5, IndexValueCovers DEF Update
  <2> QED
    BY <2>1, <2>2 DEF Carries
<1>6. CASE m.cat = "Y" /\ m.type = "I"
  <2>1. \A e, k : Send(e, m, k) = MlSend(e, k, {"bid", "offer"}, {})
    BY <1>6 DEF Send, UvBoSend
  <2>2. \A o : IsOption(o) => Covers(o, Update(o, m), {"bid", "offer"})
    BY <1>6, IndexBidOfferCovers DEF Update
  <2> QED
    BY <2>1, <2>2 DEF Carries
<1> QED
  BY <1>1, <1>2, <1>3, <1>4, <1>5, <1>6 DEF ForOptions

-----------------------------------------------------------------------------
(* The option table.                                                        *)

\* What the tables are made of.
Parts == {"lo", "wire", "used", "opt", "pending", "exited", "sub", "seen", "missed", "unread"}

\* What a subscriber has read from the messages of option o, of which those about the
\* fields U were not sent.
WireOK(o, w, U) ==
    /\ DOMAIN w \subseteq Fields \ {"part"}
    /\ \A x \in DOMAIN w \ U : w[x] = o.f[x] \/ (x \in Bests /\ w[x] = 0)
    /\ "year" \in DOMAIN w => o.f["year"] # 0

\* What a subscriber that follows the flags has, of which he missed the fields U.
FlagsOK(o, v, U) == \A x \in Fields \ U : v[x] = o.f[x]

\* There will never be an option of key k.
Unaddable(e, k) == k \in TooLong \/ e.used = TableSize \/ k \in BlankKeys

\* The tables as a whole.
TablesFit(e) ==
    /\ Parts \subseteq DOMAIN e
    /\ DOMAIN e.opt \subseteq Keys /\ IsFiniteSet(DOMAIN e.opt)
    /\ DOMAIN e.sub = DOMAIN e.opt /\ DOMAIN e.wire = Keys /\ DOMAIN e.seen = Keys
    /\ DOMAIN e.missed = Keys /\ DOMAIN e.unread = Keys /\ e.exited \in BOOLEAN
    /\ e.used \in Nat /\ e.used = Cardinality(DOMAIN e.opt) /\ e.used <= TableSize

\* One key: a subscriber that follows the flags has the option as it is, one that
\* reads the messages nothing else, but for what was not sent, and the option's
\* number is the highest offered.  A key without an option has never been told of.
KeyOK(e, k) ==
    /\ e.seen[k] \in Nat /\ (k \in IndexKeys => e.seen[k] = 0)
    /\ k \in DOMAIN e.opt =>
         /\ IsOption(e.opt[k]) /\ FlagsOK(e.opt[k], e.sub[k], e.missed[k]) /\ e.seen[k] <= e.opt[k].seq
         /\ Root[k] \in e.lo /\ WireOK(e.opt[k], e.wire[k], e.unread[k])
    /\ k \notin DOMAIN e.opt => DOMAIN e.wire[k] = {} /\ (e.seen[k] > 0 => Unaddable(e, k))

TableOK(e) == TablesFit(e) /\ \A k \in Keys : KeyOK(e, k)

\* Tables r are tables e but for key k.
SameBut(e, r, k) ==
    /\ Parts \subseteq DOMAIN r
    /\ r.lo = e.lo /\ r.used = e.used
    /\ DOMAIN r.opt = DOMAIN e.opt /\ DOMAIN r.sub = DOMAIN e.sub
    /\ DOMAIN r.wire = DOMAIN e.wire /\ DOMAIN r.seen = DOMAIN e.seen
    /\ DOMAIN r.missed = DOMAIN e.missed /\ DOMAIN r.unread = DOMAIN e.unread
    /\ r.exited = e.exited
    /\ \A j \in DOMAIN e.opt : j # k => r.opt[j] = e.opt[j] /\ r.sub[j] = e.sub[j]
    /\ \A j \in Keys : j # k => /\ r.wire[j] = e.wire[j] /\ r.seen[j] = e.seen[j]
                               /\ r.missed[j] = e.missed[j] /\ r.unread[j] = e.unread[j]

\* Only that key has to be looked at.
LEMMA OtherKeys ==
  ASSUME NEW e, TableOK(e), NEW r, NEW k \in Keys, SameBut(e, r, k), KeyOK(r, k)
  PROVE  TableOK(r)
<1>1. TablesFit(r)
  BY DEF TableOK, TablesFit, SameBut
<1>2. ASSUME NEW j \in Keys, j # k PROVE KeyOK(r, j)
  <2>1. KeyOK(e, j)
    BY DEF TableOK
  <2>2. /\ r.seen[j] = e.seen[j] /\ r.wire[j] = e.wire[j] /\ r.lo = e.lo
        /\ r.missed[j] = e.missed[j] /\ r.unread[j] = e.unread[j]
        /\ DOMAIN r.opt = DOMAIN e.opt
        /\ j \in DOMAIN e.opt => r.opt[j] = e.opt[j] /\ r.sub[j] = e.sub[j]
    BY <1>2 DEF SameBut
  <2>3. Unaddable(e, j) => Unaddable(r, j)
    BY DEF SameBut, Unaddable
  <2> QED
    BY <2>1, <2>2, <2>3 DEF KeyOK
<1> QED
  BY <1>1, <1>2 DEF TableOK

\* A number that is only noted.
LEMMA SeenKeeps ==
  ASSUME NEW e, TableOK(e), NEW k \in Keys, NEW v \in Nat, k \in IndexKeys => v = 0,
         k \in DOMAIN e.opt => v <= e.opt[k].seq,
         k \notin DOMAIN e.opt => Unaddable(e, k)
  PROVE  TableOK([e EXCEPT !.seen[k] = v])
<1> DEFINE r == [e EXCEPT !.seen[k] = v]
<1>1. TablesFit(e) /\ KeyOK(e, k)
  BY DEF TableOK
<1>2. /\ DOMAIN r = DOMAIN e /\ r.lo = e.lo /\ r.used = e.used /\ r.opt = e.opt /\ r.sub = e.sub
      /\ r.wire = e.wire /\ r.missed = e.missed /\ r.unread = e.unread /\ r.exited = e.exited
      /\ r.seen = [e.seen EXCEPT ![k] = v]
  BY <1>1 DEF TablesFit
<1> HIDE DEF r
<1>3. /\ r.seen[k] = v /\ DOMAIN r.seen = DOMAIN e.seen
      /\ \A j \in Keys : j # k => r.seen[j] = e.seen[j]
  BY <1>1, <1>2 DEF TablesFit
<1>4. SameBut(e, r, k)
  BY <1>1, <1>2, <1>3 DEF SameBut, TablesFit
<1>5. Unaddable(e, k) => Unaddable(r, k)
  BY <1>2 DEF Unaddable
<1>6. KeyOK(r, k)
  BY <1>1, <1>2, <1>3, <1>5 DEF KeyOK
<1>7. TableOK(r)
  BY <1>4, <1>6, OtherKeys
<1> QED
  BY <1>7 DEF r

\* An option that begins to take a message.
LEMMA BeginFields ==
  ASSUME NEW o, IsOption(o), NEW n \in Nat, NEW b, b = Begin(o, n)
  PROVE  IsOption(b) /\ b.seq = n /\ b.flags = {} /\ b.f = o.f
<1>1. DOMAIN b = DOMAIN o /\ b.seq = n /\ b.flags = {} /\ b.f = o.f
  BY DEF Begin, IsOption
<1> QED
  BY <1>1 DEF IsOption

\* What the two subscribers have after option q has gone out with the fields C and with
\* zeros for Z.
FlagView(q, v) == [x \in Fields |-> IF x \in q.flags THEN q.f[x] ELSE v[x]]
WireView(q, C, Z, w) ==
    [x \in DOMAIN w \cup C \cup Z |->
        IF x \in C THEN q.f[x] ELSE IF x \in Z THEN 0 ELSE w[x]]

\* The flags tell a subscriber what has changed, and he misses what is not sent.
LEMMA FlagsSay ==
  ASSUME NEW o, NEW b, b.f = o.f, NEW q, NEW C, Covers(b, q, C), NEW v, NEW U, FlagsOK(o, v, U)
  PROVE  FlagsOK(q, FlagView(q, v), U \ q.flags) /\ FlagsOK(q, v, U \cup q.flags)
<1>1. \A x \in Fields : x \notin q.flags => q.f[x] = o.f[x]
  BY DEF Covers, Grown
<1>2. \A x \in Fields \ U : v[x] = o.f[x]
  BY DEF FlagsOK
<1>3. \A x \in Fields : FlagView(q, v)[x] = IF x \in q.flags THEN q.f[x] ELSE v[x]
  BY DEF FlagView
<1> QED
  BY <1>1, <1>2, <1>3 DEF FlagsOK

\* What he has read from the messages stays true when a message is sent.
LEMMA WireSays ==
  ASSUME NEW o, NEW b, b.f = o.f, NEW q, NEW C, Covers(b, q, C), NEW Z, Z \subseteq Bests,
         NEW w, NEW U, WireOK(o, w, U), NEW z, z = WireView(q, C, Z, w)
  PROVE  WireOK(q, z, U \ C)
<1>1. /\ DOMAIN w \subseteq Fields \ {"part"}
      /\ \A x \in DOMAIN w \ U : w[x] = o.f[x] \/ (x \in Bests /\ w[x] = 0)
      /\ "year" \in DOMAIN w => o.f["year"] # 0
  BY DEF WireOK
<1>2. C \subseteq Fields \ {"part"} /\ ("year" \in C => q.f["year"] # 0)
  BY DEF Covers
<1>3. ASSUME NEW x \in Fields, x \notin C, x # "year", x # "part" PROVE q.f[x] = o.f[x]
  BY <1>3 DEF Covers, Grown
<1>4. o.f["year"] # 0 => q.f["year"] = o.f["year"]
  BY DEF Covers, Grown
<1>5. /\ DOMAIN z = DOMAIN w \cup C \cup Z
      /\ \A x \in DOMAIN z : z[x] = IF x \in C THEN q.f[x] ELSE IF x \in Z THEN 0 ELSE w[x]
  BY DEF WireView
<1>6. ASSUME NEW x \in DOMAIN z \ (U \ C) PROVE z[x] = q.f[x] \/ (x \in Bests /\ z[x] = 0)
  <2>1. CASE x \in C
    BY <1>5, <1>6, <2>1
  <2>2. CASE x \notin C /\ x \in Z
    BY <1>5, <1>6, <2>2
  <2>3. CASE x \notin C /\ x \notin Z
    <3>1. x \in DOMAIN w \ U /\ z[x] = w[x] /\ x \in Fields /\ x # "part"
      BY <1>1, <1>5, <1>6, <2>3
    <3>2. CASE x = "year"
      BY <1>1, <1>4, <3>1, <3>2 DEF Bests
    <3>3. CASE x # "year"
      BY <1>1, <1>3, <2>3, <3>1, <3>3
    <3> QED
      BY <3>2, <3>3
  <2> QED
    BY <2>1, <2>2, <2>3
<1>7. "year" \in DOMAIN z => q.f["year"] # 0
  BY <1>1, <1>2, <1>4, <1>5 DEF Bests
<1>8. DOMAIN z \subseteq Fields \ {"part"}
  BY <1>1, <1>2, <1>5 DEF Bests, Fields
<1> QED
  BY <1>6, <1>7, <1>8 DEF WireOK

\* And when one is not, but for what it would have told.
LEMMA WireMisses ==
  ASSUME NEW o, NEW b, b.f = o.f, NEW q, NEW C, Covers(b, q, C), NEW w, NEW U, WireOK(o, w, U)
  PROVE  WireOK(q, w, U \cup q.flags)
<1>1. /\ DOMAIN w \subseteq Fields \ {"part"}
      /\ \A x \in DOMAIN w \ U : w[x] = o.f[x] \/ (x \in Bests /\ w[x] = 0)
      /\ "year" \in DOMAIN w => o.f["year"] # 0
  BY DEF WireOK
<1>2. \A x \in Fields : x \notin q.flags => q.f[x] = o.f[x]
  BY DEF Covers, Grown
<1>3. o.f["year"] # 0 => q.f["year"] = o.f["year"]
  BY DEF Covers, Grown
<1> QED
  BY <1>1, <1>2, <1>3 DEF WireOK

\* Tables d are tables e with number v noted for key k.
NotedAs(e, d1, k, v) ==
    /\ Parts \subseteq DOMAIN d1
    /\ d1.lo = e.lo /\ d1.used = e.used /\ d1.opt = e.opt /\ d1.sub = e.sub /\ d1.wire = e.wire
    /\ d1.missed = e.missed /\ d1.unread = e.unread /\ d1.exited = e.exited
    /\ DOMAIN d1.seen = Keys /\ d1.seen[k] = v
    /\ \A j \in Keys : j # k => d1.seen[j] = e.seen[j]

\* Tables r are tables d1 with option q, and with what the two subscribers have of it
\* and miss of it.
Published(e, d1, r, k, q, sb, w, M, U) ==
    /\ DOMAIN r = DOMAIN d1 /\ r.lo = e.lo /\ r.used = e.used /\ r.exited = e.exited
    /\ r.opt = [e.opt EXCEPT ![k] = q] /\ r.seen = d1.seen
    /\ DOMAIN r.sub = DOMAIN e.sub /\ r.sub[k] = sb /\ DOMAIN r.wire = DOMAIN e.wire /\ r.wire[k] = w
    /\ \A j \in DOMAIN e.sub : j # k => r.sub[j] = e.sub[j]
    /\ \A j \in Keys : j # k => r.wire[j] = e.wire[j]
    /\ r.missed = [e.missed EXCEPT ![k] = M] /\ r.unread = [e.unread EXCEPT ![k] = U]

\* The fields of the tables after a message has gone out.
LEMMA SendFields ==
  ASSUME NEW e, TablesFit(e), NEW k \in DOMAIN e.opt, NEW v, NEW d1, NotedAs(e, d1, k, v),
         NEW C, NEW Z, NEW q, NEW r, r = MlSend([d1 EXCEPT !.opt[k] = q], k, C, Z)
  PROVE  Published(e, d1, r, k, q, FlagView(q, e.sub[k]), WireView(q, C, Z, e.wire[k]),
                   e.missed[k] \ q.flags, e.unread[k] \ C)
<1> DEFINE t == [d1 EXCEPT !.opt[k] = q]
<1>1. /\ DOMAIN t = DOMAIN d1 /\ t.lo = e.lo /\ t.used = e.used /\ t.sub = e.sub
      /\ t.wire = e.wire /\ t.seen = d1.seen /\ t.opt = [e.opt EXCEPT ![k] = q]
      /\ t.missed = e.missed /\ t.unread = e.unread /\ t.exited = e.exited
  BY DEF NotedAs, Parts
<1>2. t.opt[k] = q
  BY <1>1
<1>3. Parts \subseteq DOMAIN t
  BY <1>1 DEF NotedAs
<1>4. r = MlSend(t, k, C, Z)
  OBVIOUS
<1> HIDE DEF t
<1> DEFINE f == [x \in Fields |-> IF x \in t.opt[k].flags THEN t.opt[k].f[x] ELSE t.sub[k][x]]
           g == [x \in DOMAIN t.wire[k] \cup C \cup Z |->
                    IF x \in C THEN t.opt[k].f[x] ELSE IF x \in Z THEN 0 ELSE t.wire[k][x]]
           M == t.missed[k] \ t.opt[k].flags
           U == t.unread[k] \ C
<1>5. r = [t EXCEPT !.pending = TRUE, !.sub[k] = f, !.wire[k] = g, !.missed[k] = M, !.unread[k] = U]
  BY <1>4, Zenon DEF MlSend
<1>6. /\ f = FlagView(q, e.sub[k]) /\ g = WireView(q, C, Z, e.wire[k])
      /\ M = e.missed[k] \ q.flags /\ U = e.unread[k] \ C
  BY <1>1, <1>2, Zenon DEF FlagView, WireView
<1> HIDE DEF f, g, M, U
<1>7. /\ DOMAIN r = DOMAIN t /\ r.lo = t.lo /\ r.used = t.used /\ r.opt = t.opt /\ r.seen = t.seen
      /\ r.exited = t.exited
      /\ r.sub = [t.sub EXCEPT ![k] = f] /\ r.wire = [t.wire EXCEPT ![k] = g]
      /\ r.missed = [t.missed EXCEPT ![k] = M] /\ r.unread = [t.unread EXCEPT ![k] = U]
  BY <1>3, <1>5 DEF Parts
<1>8. k \in Keys /\ DOMAIN e.sub = DOMAIN e.opt /\ DOMAIN e.wire = Keys
  BY DEF TablesFit
<1>9. /\ DOMAIN r.sub = DOMAIN e.sub /\ r.sub[k] = f /\ DOMAIN r.wire = DOMAIN e.wire /\ r.wire[k] = g
      /\ \A j \in DOMAIN e.sub : j # k => r.sub[j] = e.sub[j]
      /\ \A j \in Keys : j # k => r.wire[j] = e.wire[j]
  BY <1>1, <1>7, <1>8
<1> QED
  BY <1>1, <1>6, <1>7, <1>9, Zenon DEF Published

\* The fields of the tables after a message has not gone out.
LEMMA UnsentFields ==
  ASSUME NEW e, TablesFit(e), NEW k \in DOMAIN e.opt, NEW v, NEW d1, NotedAs(e, d1, k, v),
         NEW q, NEW r, r = Unsent([d1 EXCEPT !.opt[k] = q], k)
  PROVE  Published(e, d1, r, k, q, e.sub[k], e.wire[k],
                   e.missed[k] \cup q.flags, e.unread[k] \cup q.flags)
<1> DEFINE t == [d1 EXCEPT !.opt[k] = q]
<1>1. /\ DOMAIN t = DOMAIN d1 /\ t.lo = e.lo /\ t.used = e.used /\ t.sub = e.sub
      /\ t.wire = e.wire /\ t.seen = d1.seen /\ t.opt = [e.opt EXCEPT ![k] = q]
      /\ t.missed = e.missed /\ t.unread = e.unread /\ t.exited = e.exited
  BY DEF NotedAs, Parts
<1>2. t.opt[k] = q
  BY <1>1
<1>3. Parts \subseteq DOMAIN t
  BY <1>1 DEF NotedAs
<1>4. r = Unsent(t, k)
  OBVIOUS
<1> HIDE DEF t
<1> DEFINE M == t.missed[k] \cup t.opt[k].flags
           U == t.unread[k] \cup t.opt[k].flags
<1>5. r = [t EXCEPT !.missed[k] = M, !.unread[k] = U]
  BY <1>4, Zenon DEF Unsent
<1>6. M = e.missed[k] \cup q.flags /\ U = e.unread[k] \cup q.flags
  BY <1>1, <1>2, Zenon
<1> HIDE DEF M, U
<1>7. /\ DOMAIN r = DOMAIN t /\ r.lo = t.lo /\ r.used = t.used /\ r.opt = t.opt /\ r.seen = t.seen
      /\ r.exited = t.exited /\ r.sub = t.sub /\ r.wire = t.wire
      /\ r.missed = [t.missed EXCEPT ![k] = M] /\ r.unread = [t.unread EXCEPT ![k] = U]
  BY <1>3, <1>5 DEF Parts
<1> QED
  BY <1>1, <1>6, <1>7, Zenon DEF Published

\* A message for an option keeps the tables, whether or not it goes out.
LEMMA PublishedKeeps ==
  ASSUME NEW e, TableOK(e), NEW k \in DOMAIN e.opt, NEW n \in Nat, NEW v \in Nat, v <= n,
         k \in IndexKeys => v = 0, NEW d1, NotedAs(e, d1, k, v),
         NEW q, IsOption(q), q.seq = n, NEW sb, NEW w, NEW M, NEW U,
         FlagsOK(q, sb, M), WireOK(q, w, U), NEW r, Published(e, d1, r, k, q, sb, w, M, U)
  PROVE  TableOK(r)
<1>1. TablesFit(e) /\ KeyOK(e, k) /\ k \in Keys
  BY DEF TableOK, TablesFit
<1>2. SameBut(e, r, k)
  BY <1>1 DEF Published, SameBut, TablesFit, NotedAs
<1>3. /\ r.opt[k] = q /\ r.sub[k] = sb /\ r.wire[k] = w /\ r.seen[k] = v
      /\ r.missed[k] = M /\ r.unread[k] = U
      /\ DOMAIN r.opt = DOMAIN e.opt /\ r.lo = e.lo
  BY <1>1 DEF Published, TablesFit, NotedAs
<1>4. Root[k] \in e.lo
  BY <1>1 DEF KeyOK
<1>5. KeyOK(r, k)
  BY <1>3, <1>4 DEF KeyOK
<1> QED
  BY <1>1, <1>2, <1>5, OtherKeys

\* The two ways a message may take.
LEMMA PublishKeeps ==
  ASSUME NEW e, TableOK(e), NEW k \in DOMAIN e.opt, NEW n \in Nat, NEW v \in Nat, v <= n,
         k \in IndexKeys => v = 0, NEW d1, NotedAs(e, d1, k, v), NEW m, ForOptions(m), NEW u
  PROVE  TableOK(OptPublish([d1 EXCEPT !.opt[k] = Update(Begin(@, n), m)], m, n, k, u))
<1> DEFINE o == e.opt[k]
           b == Begin(o, n)
           q == Update(b, m)
           t == [d1 EXCEPT !.opt[k] = q]
<1>1. TablesFit(e) /\ KeyOK(e, k) /\ k \in Keys
  BY DEF TableOK, TablesFit
<1>2. /\ IsOption(o) /\ FlagsOK(o, e.sub[k], e.missed[k]) /\ WireOK(o, e.wire[k], e.unread[k])
  BY <1>1 DEF KeyOK
<1>3. IsOption(b) /\ b.seq = n /\ b.f = o.f
  BY <1>2, BeginFields
<1>4. PICK C, Z : Carries(m, C, Z)
  BY MessageCarries
<1> HIDE DEF b
<1>5. Covers(b, q, C) /\ Z \subseteq Bests
  BY <1>3, <1>4 DEF Carries
<1>6. [d1 EXCEPT !.opt[k] = Update(Begin(@, n), m)] = t
  BY Zenon DEF NotedAs, b
<1>7. IsOption(q) /\ q.seq = n
  BY <1>3, <1>5 DEF Covers, Grown
<1> HIDE DEF q
<1>8. TableOK(Send(t, m, k))
  <2> DEFINE r == Send(t, m, k)
             sb == FlagView(q, e.sub[k])
             w == WireView(q, C, Z, e.wire[k])
  <2>1. r = MlSend(t, k, C, Z)
    BY <1>4 DEF Carries
  <2> HIDE DEF r
  <2>2. Published(e, d1, r, k, q, sb, w, e.missed[k] \ q.flags, e.unread[k] \ C)
    BY <1>1, <2>1, SendFields
  <2>3. FlagsOK(q, sb, e.missed[k] \ q.flags)
    BY <1>2, <1>3, <1>5, FlagsSay
  <2>4. WireOK(q, w, e.unread[k] \ C)
    BY <1>2, <1>3, <1>5, WireSays
  <2> HIDE DEF sb, w, o, t
  <2>5. TableOK(r)
    BY <1>7, <2>2, <2>3, <2>4, PublishedKeeps
  <2> QED
    BY <2>5 DEF r
<1>9. TableOK(Unsent(t, k))
  <2> DEFINE r == Unsent(t, k)
  <2>1. r = Unsent(t, k)
    OBVIOUS
  <2> HIDE DEF r
  <2>2. Published(e, d1, r, k, q, e.sub[k], e.wire[k],
                  e.missed[k] \cup q.flags, e.unread[k] \cup q.flags)
    BY <1>1, <2>1, UnsentFields
  <2>3. FlagsOK(q, e.sub[k], e.missed[k] \cup q.flags)
    BY <1>2, <1>3, <1>5, FlagsSay
  <2>4. WireOK(q, e.wire[k], e.unread[k] \cup q.flags)
    BY <1>2, <1>3, <1>5, WireMisses
  <2> HIDE DEF o, t
  <2>5. TableOK(r)
    BY <1>7, <2>2, <2>3, <2>4, PublishedKeeps
  <2> QED
    BY <2>1, <2>5, Zenon
<1> HIDE DEF t
<1> QED
  BY <1>6, <1>8, <1>9, Zenon DEF OptPublish

\* A new option.
LEMMA NewOptionOK ==
  /\ IsOption(NewOption) /\ NewOption.seq = 0
  /\ \A w, U : DOMAIN w = {} => WireOK(NewOption, w, U)
<1>1. IsOption(NewOption) /\ NewOption.seq = 0
  BY DEF IsOption, NewOption
<1>2. \A w, U : DOMAIN w = {} => WireOK(NewOption, w, U)
  BY DEF WireOK
<1> QED
  BY <1>1, <1>2

\* fh_opra_lo_lookup finds or adds the root of a key, or ends the process.
LEMMA RootKeeps ==
  ASSUME NEW e, TableOK(e), NEW k \in Keys, NEW t, t = LoLookup(e, k)
  PROVE  /\ TableOK(t) /\ t.opt = e.opt
         /\ k \in BlankKeys => t.exited = TRUE
         /\ k \notin BlankKeys => Root[k] \in t.lo /\ t.exited = e.exited
<1>1. TablesFit(e)
  BY DEF TableOK
<1>2. /\ DOMAIN t = DOMAIN e /\ t.used = e.used /\ t.opt = e.opt /\ t.sub = e.sub
      /\ t.wire = e.wire /\ t.seen = e.seen /\ t.missed = e.missed /\ t.unread = e.unread
      /\ e.lo \subseteq t.lo /\ t.exited \in BOOLEAN
      /\ k \in BlankKeys => t.exited = TRUE
      /\ k \notin BlankKeys => Root[k] \in t.lo /\ t.exited = e.exited
  <2>1. CASE k \in BlankKeys
    <3>1. t = [e EXCEPT !.exited = TRUE]
      BY <2>1 DEF LoLookup
    <3> QED
      BY <1>1, <2>1, <3>1 DEF TablesFit, Parts
  <2>2. CASE k \notin BlankKeys
    <3>1. t = [e EXCEPT !.lo = e.lo \cup {Root[k]}]
      BY <2>2 DEF LoLookup
    <3> QED
      BY <1>1, <2>2, <3>1 DEF TablesFit, Parts
  <2> QED
    BY <2>1, <2>2
<1>3. TablesFit(t)
  BY <1>1, <1>2 DEF TablesFit
<1>4. ASSUME NEW j \in Keys PROVE KeyOK(t, j)
  <2>1. KeyOK(e, j)
    BY DEF TableOK
  <2>2. Unaddable(e, j) => Unaddable(t, j)
    BY <1>2 DEF Unaddable
  <2> QED
    BY <1>2, <2>1, <2>2 DEF KeyOK
<1> QED
  BY <1>2, <1>3, <1>4 DEF TableOK

\* One chunk more is out.
LEMMA AddKeeps ==
  ASSUME NEW t, TableOK(t), NEW k \in Keys, k \notin DOMAIN t.opt, Root[k] \in t.lo,
         t.used # TableSize, k \notin TooLong, k \notin BlankKeys, NEW r,
         r = [t EXCEPT !.used = @ + 1,
                       !.opt = [x \in DOMAIN @ \cup {k} |-> IF x = k THEN NewOption ELSE @[x]],
                       !.sub = [x \in DOMAIN @ \cup {k} |-> IF x = k THEN NewOption.f ELSE @[x]]]
  PROVE  TableOK(r) /\ k \in DOMAIN r.opt
<1> DEFINE f == [x \in DOMAIN t.opt \cup {k} |-> IF x = k THEN NewOption ELSE t.opt[x]]
           g == [x \in DOMAIN t.sub \cup {k} |-> IF x = k THEN NewOption.f ELSE t.sub[x]]
<1>1. TablesFit(t) /\ KeyOK(t, k)
  BY DEF TableOK
<1>2. r = [t EXCEPT !.used = t.used + 1, !.opt = f, !.sub = g]
  BY Zenon
<1>3. /\ DOMAIN f = DOMAIN t.opt \cup {k} /\ f[k] = NewOption
      /\ \A j \in DOMAIN t.opt : j # k => f[j] = t.opt[j]
  OBVIOUS
<1>4. /\ DOMAIN g = DOMAIN t.sub \cup {k} /\ g[k] = NewOption.f
      /\ \A j \in DOMAIN t.sub : j # k => g[j] = t.sub[j]
  OBVIOUS
<1> HIDE DEF f, g
<1>5. /\ DOMAIN r = DOMAIN t /\ r.lo = t.lo /\ r.used = t.used + 1 /\ r.opt = f /\ r.sub = g
      /\ r.wire = t.wire /\ r.seen = t.seen /\ r.missed = t.missed /\ r.unread = t.unread
      /\ r.exited = t.exited
  BY <1>1, <1>2 DEF TablesFit, Parts
<1>6. TablesFit(r)
  <2>1. IsFiniteSet(DOMAIN t.opt) /\ DOMAIN r.opt = DOMAIN t.opt \cup {k}
    BY <1>1, <1>3, <1>5 DEF TablesFit
  <2>2. IsFiniteSet(DOMAIN r.opt) /\ Cardinality(DOMAIN r.opt) = Cardinality(DOMAIN t.opt) + 1
    <3> DEFINE S == DOMAIN t.opt
    <3>1. IsFiniteSet(S) /\ k \notin S /\ DOMAIN r.opt = S \cup {k}
      BY <2>1
    <3> HIDE DEF S
    <3>2. IsFiniteSet(S \cup {k}) /\ Cardinality(S \cup {k}) = Cardinality(S) + 1
      BY <3>1, FS_AddElement
    <3> QED
      BY <3>1, <3>2 DEF S
  <2>3. r.used \in Nat /\ r.used <= TableSize /\ r.used = Cardinality(DOMAIN r.opt)
    BY <1>1, <1>5, <2>2, OpraOptionAssumption DEF TablesFit
  <2>4. DOMAIN r.opt \subseteq Keys /\ DOMAIN r.sub = DOMAIN r.opt
    BY <1>1, <1>3, <1>4, <1>5 DEF TablesFit
  <2> QED
    BY <1>1, <1>5, <2>2, <2>3, <2>4 DEF TablesFit
<1>7. KeyOK(r, k)
  <2>1. ~Unaddable(t, k)
    BY <1>1 DEF Unaddable, TablesFit
  <2>2. t.seen[k] = 0 /\ DOMAIN t.wire[k] = {}
    BY <1>1, <2>1 DEF KeyOK
  <2>3. r.opt[k] = NewOption /\ r.sub[k] = NewOption.f /\ k \in DOMAIN r.opt
    BY <1>3, <1>4, <1>5
  <2>4. r.seen[k] = 0 /\ WireOK(NewOption, r.wire[k], r.unread[k]) /\ Root[k] \in r.lo
    BY <1>5, <2>2, NewOptionOK
  <2>5. IsOption(NewOption) /\ NewOption.seq = 0
    BY NewOptionOK
  <2> HIDE DEF NewOption
  <2>6. FlagsOK(NewOption, NewOption.f, r.missed[k])
    BY DEF FlagsOK
  <2> QED
    BY <2>3, <2>4, <2>5, <2>6 DEF KeyOK
<1>8. ASSUME NEW j \in Keys, j # k PROVE KeyOK(r, j)
  <2>1. KeyOK(t, j)
    BY DEF TableOK
  <2>2. Unaddable(t, j) => Unaddable(r, j)
    BY DEF Unaddable
  <2>3. /\ j \in DOMAIN r.opt <=> j \in DOMAIN t.opt
        /\ j \in DOMAIN t.opt => r.opt[j] = t.opt[j] /\ r.sub[j] = t.sub[j]
    BY <1>1, <1>3, <1>4, <1>5, <1>8 DEF TablesFit
  <2> QED
    BY <1>5, <2>1, <2>2, <2>3 DEF KeyOK
<1> QED
  BY <1>3, <1>5, <1>6, <1>7, <1>8 DEF TableOK

\* opra_opt_lookup finds the option of a key or there will be none.
LEMMA LookupKeeps ==
  ASSUME NEW e, TableOK(e), e.exited = FALSE, NEW k \in Keys, NEW t, t = OptLookup(e, k)
  PROVE  TableOK(t) /\ (k \notin DOMAIN t.opt => Unaddable(t, k))
<1>1. CASE k \in DOMAIN e.opt
  BY <1>1 DEF OptLookup, Tabled
<1>2. CASE k \notin DOMAIN e.opt
  <2> DEFINE u == LoLookup(e, k)
             r == [u EXCEPT !.used = @ + 1,
                       !.opt = [x \in DOMAIN @ \cup {k} |-> IF x = k THEN NewOption ELSE @[x]],
                       !.sub = [x \in DOMAIN @ \cup {k} |-> IF x = k THEN NewOption.f ELSE @[x]]]
  <2>1. /\ TableOK(u) /\ u.opt = e.opt
        /\ k \in BlankKeys => u.exited = TRUE
        /\ k \notin BlankKeys => Root[k] \in u.lo /\ u.exited = FALSE
    BY RootKeeps
  <2>2. t = IF u.exited \/ u.used = TableSize \/ k \in TooLong THEN u ELSE r
    BY <1>2, Zenon DEF OptLookup, OptAdd, Tabled
  <2> HIDE DEF u
  <2>3. CASE u.exited \/ u.used = TableSize \/ k \in TooLong
    <3>1. t = u
      BY <2>2, <2>3, Zenon
    <3>2. k \notin DOMAIN u.opt => Unaddable(u, k)
      BY <2>1, <2>3, Zenon DEF Unaddable
    <3> QED
      BY <2>1, <3>1, <3>2
  <2>4. CASE ~(u.exited \/ u.used = TableSize \/ k \in TooLong)
    <3>1. t = r
      BY <2>2, <2>4, Zenon
    <3>2. k \notin BlankKeys /\ Root[k] \in u.lo
      BY <2>1, <2>4, Zenon
    <3>3. TableOK(r) /\ k \in DOMAIN r.opt
      BY <1>2, <2>1, <2>4, <3>2, AddKeeps, Zenon
    <3> QED
      BY <3>1, <3>3, Zenon
  <2> QED
    BY <2>3, <2>4
<1> QED
  BY <1>1, <1>2

\* The number of a message for an option.
Numbered(m, n) == n \in Nat /\ (m.cat # "Y" => n > 0)

\* One message for one option, which is on time or late.
LEMMA OneKeeps ==
  ASSUME NEW e, TableOK(e), NEW k \in Keys, NEW m, ForOptions(m), NEW n, Numbered(m, n),
         e.exited = FALSE, NEW u, m.cat = "Y" => k \in IndexKeys, m.cat # "Y" => k \notin IndexKeys
  PROVE  TableOK(One(e, m, n, k, u))
<1> DEFINE t == OptLookup(e, k)
           v == IF n > t.seen[k] /\ m.cat # "Y" THEN n ELSE t.seen[k]
           d1 == [t EXCEPT !.seen[k] = v]
           r == OptPublish([d1 EXCEPT !.opt[k] = Update(Begin(@, n), m)], m, n, k, u)
<1>1. TableOK(t) /\ (k \notin DOMAIN t.opt => Unaddable(t, k))
  BY LookupKeeps
<1>2. [t EXCEPT !.seen[k] = IF n > @ /\ m.cat # "Y" THEN n ELSE @] = d1
  BY Zenon
<1>3. One(e, m, n, k, u) = IF k \notin Tabled(d1) THEN d1
                        ELSE IF m.cat # "Y" /\ n > 0 /\ d1.opt[k].seq > n THEN d1
                        ELSE r
  BY <1>2, Zenon DEF One
<1> HIDE DEF t
<1>4. TablesFit(t) /\ KeyOK(t, k)
  BY <1>1 DEF TableOK
<1>5. v \in Nat /\ (k \in IndexKeys => v = 0)
  BY <1>4 DEF KeyOK, Numbered
<1> HIDE DEF v
<1>6. /\ DOMAIN d1 = DOMAIN t /\ d1.lo = t.lo /\ d1.used = t.used /\ d1.opt = t.opt
      /\ d1.sub = t.sub /\ d1.wire = t.wire /\ d1.missed = t.missed /\ d1.unread = t.unread
      /\ d1.exited = t.exited /\ d1.seen = [t.seen EXCEPT ![k] = v]
  BY <1>4 DEF TablesFit
<1>7. NotedAs(t, d1, k, v)
  BY <1>4, <1>6 DEF NotedAs, TablesFit
<1>8. CASE k \notin DOMAIN t.opt
  <2>1. TableOK(d1)
    BY <1>1, <1>5, <1>8, SeenKeeps
  <2>2. One(e, m, n, k, u) = d1
    BY <1>3, <1>6, <1>8, Zenon DEF Tabled
  <2> QED
    BY <2>1, <2>2, Zenon
<1>9. CASE k \in DOMAIN t.opt /\ m.cat # "Y" /\ n > 0 /\ t.opt[k].seq > n
  <2>1. v <= t.opt[k].seq
    BY <1>4, <1>9 DEF KeyOK, IsOption, Numbered, v
  <2>2. TableOK(d1)
    BY <1>1, <1>5, <1>9, <2>1, SeenKeeps
  <2>3. One(e, m, n, k, u) = d1
    BY <1>3, <1>6, <1>9, Zenon DEF Tabled
  <2> QED
    BY <2>2, <2>3, Zenon
<1>10. CASE k \in DOMAIN t.opt /\ ~(m.cat # "Y" /\ n > 0 /\ t.opt[k].seq > n)
  <2>1. v <= n
    BY <1>4, <1>5, <1>10 DEF KeyOK, IsOption, Numbered, v
  <2>2. One(e, m, n, k, u) = r
    BY <1>3, <1>6, <1>10, Zenon DEF Tabled
  <2>3. n \in Nat
    BY DEF Numbered
  <2> HIDE DEF d1
  <2>4. TableOK(r)
    BY <1>1, <1>5, <1>7, <1>10, <2>1, <2>3, PublishKeeps
  <2> QED
    BY <2>2, <2>4, Zenon
<1> QED
  BY <1>8, <1>9, <1>10

-----------------------------------------------------------------------------
(* The messages of a packet.                                                *)

UvValues == INSTANCE LeftFold WITH Op <- UvValue
UvBidOffers == INSTANCE LeftFold WITH Op <- UvBidOffer
Messages == INSTANCE LeftFold WITH Op <- DecodeNext

\* The walk over the indices of message m.
WalkOK(w, m, n) ==
    /\ {"d", "m", "sn", "u", "stop"} \subseteq DOMAIN w /\ TableOK(w.d) /\ w.m = m /\ w.sn = n

\* The walk replaces the tables.
LEMMA WalkGoes ==
  ASSUME NEW w, NEW m, NEW n, WalkOK(w, m, n), NEW e, TableOK(e)
  PROVE  WalkOK([w EXCEPT !.d = e], m, n) /\ WalkOK([w EXCEPT !.d = e, !.stop = TRUE], m, n)
<1>1. WalkOK([w EXCEPT !.d = e], m, n)
  BY DEF WalkOK
<1> DEFINE z == [w EXCEPT !.d = e, !.stop = TRUE]
<1>2. DOMAIN z = DOMAIN w /\ z.d = e /\ z.m = w.m /\ z.sn = w.sn
  BY DEF WalkOK
<1> HIDE DEF z
<1>3. WalkOK(z, m, n)
  BY <1>2 DEF WalkOK
<1> QED
  BY <1>1, <1>3 DEF z

\* A message about indices.
Indices(m) == m.cat = "Y" /\ ForOptions(m)

\* The value of one index.
LEMMA UvValueKeeps ==
  ASSUME NEW w, NEW m, NEW n \in Nat, WalkOK(w, m, n), Indices(m), NEW k \in IndexKeys
  PROVE  WalkOK(UvValue(w, k), m, n)
<1>1. k \in Keys /\ Numbered(m, n) /\ m.cat = "Y" /\ ForOptions(m)
  BY OpraOptionAssumption DEF Numbered, Indices
<1>2. TableOK(w.d) /\ w.m = m /\ w.sn = n /\ w.d.exited \in BOOLEAN
  BY DEF WalkOK, TableOK, TablesFit
<1> DEFINE r == One(w.d, m, n, k, w.u)
<1>3. w.d.exited = FALSE => TableOK(r)
  BY <1>1, <1>2, OneKeeps
<1>4. UvValue(w, k) = IF w.d.exited THEN w ELSE [w EXCEPT !.d = r]
  BY <1>2, Zenon DEF UvValue
<1> HIDE DEF r
<1>5. w.d.exited = FALSE => WalkOK([w EXCEPT !.d = r], m, n)
  BY <1>3, WalkGoes, Zenon
<1> QED
  BY <1>2, <1>4, <1>5, Zenon

\* The bid and the offer of one index.
LEMMA UvBidOfferKeeps ==
  ASSUME NEW w, NEW m, NEW n \in Nat, WalkOK(w, m, n), Indices(m), NEW k \in IndexKeys
  PROVE  WalkOK(UvBidOffer(w, k), m, n)
<1> DEFINE t == OptLookup(w.d, k)
           r == OptPublish([t EXCEPT !.opt[k] = Update(Begin(@, n), m)], m, n, k, w.u)
<1>1. k \in Keys /\ ForOptions(m)
  BY OpraOptionAssumption DEF Indices
<1>2. TableOK(w.d) /\ w.m = m /\ w.sn = n /\ w.d.exited \in BOOLEAN
  BY DEF WalkOK, TableOK, TablesFit
<1> SUFFICES ASSUME w.d.exited = FALSE PROVE WalkOK(UvBidOffer(w, k), m, n)
  <2>1. w.d.exited = TRUE => UvBidOffer(w, k) = w
    BY Zenon DEF UvBidOffer
  <2> QED
    BY <1>2, <2>1, Zenon
<1>3. TableOK(t)
  BY <1>1, <1>2, LookupKeeps
<1>4. \/ UvBidOffer(w, k) = w
      \/ UvBidOffer(w, k) = [w EXCEPT !.d = t]
      \/ UvBidOffer(w, k) = [w EXCEPT !.d = t, !.stop = TRUE]
      \/ k \in DOMAIN t.opt /\ UvBidOffer(w, k) = [w EXCEPT !.d = r]
  BY <1>2, Zenon DEF UvBidOffer, Tabled
<1> HIDE DEF t
<1>5. ASSUME k \in DOMAIN t.opt PROVE TableOK(r)
  <2>1. TablesFit(t) /\ KeyOK(t, k)
    BY <1>1, <1>3 DEF TableOK
  <2>2. t.seen[k] = 0
    BY <2>1 DEF KeyOK
  <2>3. NotedAs(t, t, k, 0)
    BY <2>1, <2>2 DEF NotedAs, TablesFit
  <2>4. 0 \in Nat /\ 0 <= n
    OBVIOUS
  <2> QED
    BY <1>1, <1>3, <1>5, <2>3, <2>4, PublishKeeps
<1> HIDE DEF r
<1>6. /\ WalkOK([w EXCEPT !.d = t], m, n) /\ WalkOK([w EXCEPT !.d = t, !.stop = TRUE], m, n)
      /\ k \in DOMAIN t.opt => WalkOK([w EXCEPT !.d = r], m, n)
  BY <1>3, <1>5, WalkGoes, Zenon
<1> QED
  BY <1>4, <1>6, Zenon

\* fh_opra_msg_uv_process.
LEMMA UvKeeps ==
  ASSUME NEW e, TableOK(e), NEW m, OpraMsg(m), m.cat = "Y", NEW n \in Nat, NEW u
  PROVE  TableOK(Uv(e, m, n, u))
<1> DEFINE w == [d |-> e, m |-> m, sn |-> n, u |-> u, stop |-> FALSE]
           ks == m.keys
           N == Len(ks)
<1>1. /\ N \in Nat /\ DOMAIN ks = 1 .. N /\ \A i \in 1 .. N : ks[i] \in IndexKeys
      /\ m.bbo \subseteq {"bb", "bo"}
  BY DEF OpraMsg
<1>2. WalkOK(w, m, n)
  <2>1. DOMAIN w = {"d", "m", "sn", "u", "stop"} /\ w.d = e /\ w.m = m /\ w.sn = n
    OBVIOUS
  <2> QED
    BY <2>1, Zenon DEF WalkOK
<1> HIDE DEF w, N, ks
<1>3. CASE m.type = " "
  <2>0. Indices(m)
    BY <1>1, <1>3 DEF Indices, ForOptions
  <2>1. PICK F : /\ F[0] = w
                 /\ \A j \in 1 .. N : F[j] = UvValue(F[j - 1], ks[j])
                 /\ UvValues!Fold(w, ks) = F[N]
    BY <1>1, UvValues!FoldRuns
  <2> DEFINE S == {j \in Nat : j <= N => WalkOK(F[j], m, n)}
  <2>2. 0 \in S
    BY <1>2, <2>1
  <2>3. ASSUME NEW j \in Nat, j \in S PROVE j + 1 \in S
    <3> SUFFICES ASSUME j + 1 <= N PROVE WalkOK(F[j + 1], m, n)
      OBVIOUS
    <3>1. WalkOK(F[j], m, n) /\ j + 1 \in 1 .. N /\ (j + 1) - 1 = j
      BY <1>1, <2>3
    <3>2. F[j + 1] = UvValue(F[j], ks[j + 1]) /\ ks[j + 1] \in IndexKeys
      BY <1>1, <2>1, <3>1
    <3> QED
      BY <2>0, <3>1, <3>2, UvValueKeeps
  <2> HIDE DEF S
  <2>4. Nat \subseteq S
    BY <2>2, <2>3, UvValues!Induction
  <2>5. WalkOK(F[N], m, n)
    BY <1>1, <2>4 DEF S
  <2>6. Uv(e, m, n, u) = UvValues!Fold(w, ks).d
    BY <1>3, Zenon DEF Uv, w, ks, UvValues!Fold, FoldLeft, MapThenFoldSet, Max,
                       UvValues!FoldLeft, UvValues!MapThenFoldSet, UvValues!Max
  <2> QED
    BY <2>1, <2>5, <2>6 DEF WalkOK
<1>4. CASE m.type = "I"
  <2>0. Indices(m)
    BY <1>1, <1>4 DEF Indices, ForOptions
  <2>1. PICK F : /\ F[0] = w
                 /\ \A j \in 1 .. N : F[j] = UvBidOffer(F[j - 1], ks[j])
                 /\ UvBidOffers!Fold(w, ks) = F[N]
    BY <1>1, UvBidOffers!FoldRuns
  <2> DEFINE S == {j \in Nat : j <= N => WalkOK(F[j], m, n)}
  <2>2. 0 \in S
    BY <1>2, <2>1
  <2>3. ASSUME NEW j \in Nat, j \in S PROVE j + 1 \in S
    <3> SUFFICES ASSUME j + 1 <= N PROVE WalkOK(F[j + 1], m, n)
      OBVIOUS
    <3>1. WalkOK(F[j], m, n) /\ j + 1 \in 1 .. N /\ (j + 1) - 1 = j
      BY <1>1, <2>3
    <3>2. F[j + 1] = UvBidOffer(F[j], ks[j + 1]) /\ ks[j + 1] \in IndexKeys
      BY <1>1, <2>1, <3>1
    <3> QED
      BY <2>0, <3>1, <3>2, UvBidOfferKeeps
  <2> HIDE DEF S
  <2>4. Nat \subseteq S
    BY <2>2, <2>3, UvBidOffers!Induction
  <2>5. WalkOK(F[N], m, n)
    BY <1>1, <2>4 DEF S
  <2>6. Uv(e, m, n, u) = UvBidOffers!Fold(w, ks).d
    <3>1. m.type # " "
      BY <1>4
    <3> QED
      BY <1>4, <3>1, Zenon DEF Uv, w, ks, UvBidOffers!Fold, FoldLeft, MapThenFoldSet, Max,
                       UvBidOffers!FoldLeft, UvBidOffers!MapThenFoldSet, UvBidOffers!Max
  <2> QED
    BY <2>1, <2>5, <2>6 DEF WalkOK
<1>5. CASE m.type # " " /\ m.type # "I"
  BY <1>5, Zenon DEF Uv
<1> QED
  BY <1>3, <1>4, <1>5

\* What waits to be flushed is no part of the tables.
LEMMA PendingKeeps ==
  ASSUME NEW e, TableOK(e), NEW v
  PROVE  TableOK([e EXCEPT !.pending = v])
<1> DEFINE r == [e EXCEPT !.pending = v]
<1>1. TablesFit(e)
  BY DEF TableOK
<1>2. /\ DOMAIN r = DOMAIN e /\ r.lo = e.lo /\ r.used = e.used /\ r.opt = e.opt /\ r.sub = e.sub
      /\ r.wire = e.wire /\ r.seen = e.seen /\ r.missed = e.missed /\ r.unread = e.unread
      /\ r.exited = e.exited
  BY <1>1 DEF TablesFit, Parts
<1> HIDE DEF r
<1>3. TablesFit(r)
  BY <1>1, <1>2 DEF TablesFit
<1>4. ASSUME NEW k \in Keys PROVE KeyOK(r, k)
  <2>1. KeyOK(e, k)
    BY DEF TableOK
  <2>2. Unaddable(e, k) => Unaddable(r, k)
    BY <1>2 DEF Unaddable
  <2> QED
    BY <1>2, <2>1, <2>2 DEF KeyOK
<1> QED
  BY <1>3, <1>4 DEF TableOK, r

\* A message of any category; only control messages may come without a number.
LEMMA MessageKeeps ==
  ASSUME NEW e, TableOK(e), NEW m, OpraMsg(m), NEW n \in Nat, m.cat \notin {"C", "H"} => n > 0,
         e.exited = FALSE, NEW u
  PROVE  TableOK(Message(e, m, n, u))
<1>1. CASE m.cat \in {"C", "H"}
  BY <1>1, PendingKeeps DEF Message, Ctrl
<1>2. CASE m.cat = "Y"
  <2>1. Message(e, m, n, u) = Uv(e, m, n, u)
    BY <1>2 DEF Message
  <2> QED
    BY <1>2, <2>1, UvKeeps
<1>3. CASE m.cat \in {"d", "a", "f", "k"}
  <2> DEFINE k == m.keys[1]
  <2>1. Message(e, m, n, u) = One(e, m, n, k, u)
    BY <1>3 DEF Message
  <2>2. k \in Keys /\ k \notin IndexKeys
    <3>1. m.keys \in Seq(Keys) /\ m.keys # <<>> /\ k \notin IndexKeys
      BY <1>3 DEF OpraMsg
    <3> QED
      BY <3>1
  <2>3. ForOptions(m) /\ Numbered(m, n) /\ m.cat # "Y"
    BY <1>3 DEF ForOptions, Numbered, OpraMsg
  <2> HIDE DEF k
  <2> QED
    BY <2>1, <2>2, <2>3, OneKeeps
<1>4. CASE m.cat \notin {"C", "H", "Y", "d", "a", "f", "k"}
  BY <1>4 DEF Message
<1> QED
  BY <1>1, <1>2, <1>3, <1>4

\* A packet that is decoded.
Decodable(p) ==
    /\ p.sn \in Nat /\ Len(p.msgs) \in Nat /\ DOMAIN p.msgs = 1 .. Len(p.msgs)
    /\ \A j \in 1 .. Len(p.msgs) :
         OpraMsg(p.msgs[j]) /\ (p.msgs[j].cat \notin {"C", "H"} => p.sn > 0)

\* The tables and the number after j messages of packet p.
DecodeOK(p, a, j) ==
    /\ {"d", "sn", "u"} \subseteq DOMAIN a /\ TableOK(a.d)
    /\ a.d.exited = FALSE => a.sn = p.sn + j

\* F runs through the messages.
DecodeRun(F, w, ms, N) ==
    /\ F[0] = w
    /\ \A j \in 1 .. N : F[j] = DecodeNext(F[j - 1], ms[j])
    /\ Messages!Fold(w, ms) = F[N]

\* The messages are taken one after the other.
LEMMA MessagesRun ==
  ASSUME NEW w, NEW ms, NEW N \in Nat, DOMAIN ms = 1 .. N
  PROVE  \E F : DecodeRun(F, w, ms, N)
<1>1. \E F : /\ F[0] = w
             /\ \A j \in 1 .. N : F[j] = DecodeNext(F[j - 1], ms[j])
             /\ Messages!Fold(w, ms) = F[N]
  BY Messages!FoldRuns, SMTT(60)
<1> QED
  BY <1>1 DEF DecodeRun

\* fast_opra_decode keeps the tables.
LEMMA DecodeKeeps ==
  ASSUME NEW e, TableOK(e), NEW p, Decodable(p), NEW u
  PROVE  TableOK(Decode(e, p, u))
<1> DEFINE w == [d |-> e, sn |-> p.sn, u |-> u]
           ms == p.msgs
           N == Len(ms)
<1>1. /\ p.sn \in Nat /\ N \in Nat /\ DOMAIN ms = 1 .. N
      /\ \A j \in 1 .. N : OpraMsg(ms[j]) /\ (ms[j].cat \notin {"C", "H"} => p.sn > 0)
  BY DEF Decodable
<1>2. DecodeOK(p, w, 0)
  BY <1>1 DEF DecodeOK
<1>3. Decode(e, p, u) = Messages!Fold(w, ms).d
  BY Zenon DEF Decode, Messages!Fold, FoldLeft, MapThenFoldSet, Max,
               Messages!FoldLeft, Messages!MapThenFoldSet, Messages!Max
<1> HIDE DEF w, ms, N
<1>4. PICK F : DecodeRun(F, w, ms, N)
  <2>1. N \in Nat /\ DOMAIN ms = 1 .. N
    BY <1>1
  <2> QED
    BY <2>1, MessagesRun
<1> DEFINE S == {j \in Nat : j <= N => DecodeOK(p, F[j], j)}
<1>5. 0 \in S
  BY <1>2, <1>4 DEF DecodeRun
<1>6. ASSUME NEW j \in Nat, j \in S PROVE j + 1 \in S
  <2> SUFFICES ASSUME j + 1 <= N PROVE DecodeOK(p, F[j + 1], j + 1)
    OBVIOUS
  <2>1. DecodeOK(p, F[j], j) /\ j + 1 \in 1 .. N /\ (j + 1) - 1 = j
    BY <1>1, <1>6
  <2> DEFINE a == F[j]
             m == ms[j + 1]
             z == Message(a.d, m, a.sn, a.u)
             c == F[j + 1]
  <2>2. c = IF a.d.exited THEN a ELSE [a EXCEPT !.d = z, !.sn = a.sn + 1]
    BY <1>4, <2>1, Zenon DEF DecodeNext, DecodeRun
  <2>3. OpraMsg(m) /\ (m.cat \notin {"C", "H"} => p.sn > 0)
    BY <1>1, <2>1
  <2>4. /\ {"d", "sn", "u"} \subseteq DOMAIN a /\ TableOK(a.d)
        /\ a.d.exited = FALSE => a.sn = p.sn + j
    BY <2>1 DEF DecodeOK
  <2>5. a.d.exited \in BOOLEAN
    BY <2>4 DEF TableOK, TablesFit
  <2> HIDE DEF m, a, c
  <2>6. CASE a.d.exited = TRUE
    <3>1. c = a
      BY <2>2, <2>6, Zenon
    <3> QED
      BY <2>4, <2>6, <3>1 DEF DecodeOK, c
  <2>7. CASE a.d.exited = FALSE
    <3>1. a.sn \in Nat /\ (p.sn > 0 => a.sn > 0) /\ a.sn + 1 = p.sn + (j + 1)
      BY <1>1, <2>4, <2>7
    <3>2. TableOK(z)
      BY <2>3, <2>4, <2>7, <3>1, MessageKeeps
    <3> HIDE DEF z
    <3>3. c = [a EXCEPT !.d = z, !.sn = a.sn + 1]
      BY <2>2, <2>7, Zenon
    <3>4. DOMAIN c = DOMAIN a /\ c.d = z /\ c.sn = a.sn + 1
      BY <2>4, <3>3
    <3> QED
      BY <2>4, <3>1, <3>2, <3>4 DEF DecodeOK, c
  <2> QED
    BY <2>5, <2>6, <2>7, Zenon
<1> HIDE DEF S
<1>7. Nat \subseteq S
  BY <1>5, <1>6, Messages!Induction
<1>8. DecodeOK(p, F[N], N)
  BY <1>1, <1>7 DEF S
<1> QED
  BY <1>3, <1>4, <1>8 DEF DecodeOK, DecodeRun

\* The history of numbers begins anew.
LEMMA RestartKeeps ==
  ASSUME NEW e, TableOK(e)
  PROVE  TableOK(Restart(e))
<1> DEFINE z == [k \in Keys |-> 0]
           r == Restart(e)
<1>1. TablesFit(e)
  BY DEF TableOK
<1>2. r = [e EXCEPT !.seen = z]
  BY Zenon DEF Restart
<1>3. DOMAIN z = Keys /\ \A k \in Keys : z[k] = 0
  OBVIOUS
<1> HIDE DEF z, r
<1>4. /\ DOMAIN r = DOMAIN e /\ r.lo = e.lo /\ r.used = e.used /\ r.opt = e.opt /\ r.sub = e.sub
      /\ r.wire = e.wire /\ r.seen = z /\ r.missed = e.missed /\ r.unread = e.unread
      /\ r.exited = e.exited
  BY <1>1, <1>2 DEF TablesFit, Parts
<1>5. TablesFit(r)
  BY <1>1, <1>3, <1>4 DEF TablesFit
<1>6. ASSUME NEW k \in Keys PROVE KeyOK(r, k)
  <2>1. KeyOK(e, k) /\ r.seen[k] = 0
    BY <1>3, <1>4 DEF TableOK
  <2> QED
    BY <1>4, <2>1 DEF KeyOK, IsOption
<1> QED
  BY <1>5, <1>6 DEF TableOK, r

\* The tables of a process that starts.
LEMMA Db0OK == TableOK(Db0)
<1> DEFINE W == [k \in Keys |-> <<>>]
           Z == [k \in Keys |-> 0]
           E == [k \in Keys |-> {}]
<1>1. /\ DOMAIN W = Keys /\ \A k \in Keys : DOMAIN W[k] = {}
      /\ DOMAIN Z = Keys /\ \A k \in Keys : Z[k] = 0
      /\ DOMAIN E = Keys
  OBVIOUS
<1>2. Db0 = [lo |-> LoInit, wire |-> W, used |-> 0, opt |-> <<>>, pending |-> FALSE,
             exited |-> FALSE, sub |-> <<>>, seen |-> Z, missed |-> E, unread |-> E]
  BY Zenon DEF Db0
<1> HIDE DEF W, Z, E
<1>3. /\ DOMAIN Db0 = Parts
      /\ Db0.wire = W /\ Db0.used = 0 /\ Db0.opt = <<>> /\ Db0.sub = <<>>
      /\ Db0.seen = Z /\ Db0.missed = E /\ Db0.unread = E /\ Db0.exited = FALSE
  BY <1>2 DEF Parts
<1>4. DOMAIN <<>> = {}
  OBVIOUS
<1>5. TablesFit(Db0)
  <2>1. /\ IsFiniteSet(DOMAIN Db0.opt) /\ Cardinality(DOMAIN Db0.opt) = 0
        /\ DOMAIN Db0.opt = {} /\ DOMAIN Db0.sub = {}
    BY <1>3, <1>4, FS_EmptySet
  <2>2. Db0.used = 0 /\ 0 <= TableSize
    BY <1>3, OpraOptionAssumption
  <2>3. /\ DOMAIN Db0.wire = Keys /\ DOMAIN Db0.seen = Keys
        /\ DOMAIN Db0.missed = Keys /\ DOMAIN Db0.unread = Keys
    BY <1>1, <1>3
  <2>4. Parts \subseteq DOMAIN Db0 /\ Db0.exited \in BOOLEAN /\ 0 \in Nat
    BY <1>3
  <2> HIDE DEF Db0
  <2> QED
    BY <2>1, <2>2, <2>3, <2>4, Zenon DEF TablesFit
<1>6. \A k \in Keys : KeyOK(Db0, k)
  BY <1>1, <1>3, <1>4 DEF KeyOK
<1> QED
  BY <1>5, <1>6 DEF TableOK

-----------------------------------------------------------------------------
(* The tables of the process.                                               *)

\* A packet that the line lets through is decodable: the window takes no message with
\* the number 0, and control messages, which the window is not asked about, are for no
\* option.
LEMMA DecodableKept ==
  ASSUME NEW x, LineOK(x), NEW l \in Sides, NEW i \in 1 .. Len(script), script \in Scripts,
         ~IsDup(x, l, script[i]).drop
  PROVE  Decodable(script[i])
<1> DEFINE p == script[i]
           N == Len(p.msgs)
<1>1. /\ p.sn \in Nat /\ p.num \in Nat /\ N \in 0 .. p.num /\ DOMAIN p.msgs = 1 .. N
      /\ \A j \in 1 .. N : /\ OpraMsg(p.msgs[j])
                           /\ p.cat \in {"C", "H"} => p.msgs[j].cat \in {"C", "H"}
  BY ScriptAssumption
<1> HIDE DEF p
<1>2. ASSUME p.cat \notin {"C", "H"}, p.num > 0 PROVE p.sn > 0
  <2> DEFINE v == IF x.ft.state = "NONE" THEN GoStale(x) ELSE x
  <2>1. LineOK(v)
    <3>1. Goes(x, GoStale(x))
      BY GoStaleGoes
    <3> QED
      BY <3>1, Zenon DEF Goes
  <2>2. IsDup(x, l, p) = Sequenced(v, l, p)
    BY <1>2 DEF IsDup
  <2> HIDE DEF v
  <2>3. ~Sequenced(v, l, p).drop
    BY <2>2 DEF p
  <2> QED
    BY <1>1, <1>2, <2>1, <2>3, SequencedGoes
<1>3. ASSUME NEW j \in 1 .. N, p.msgs[j].cat \notin {"C", "H"} PROVE p.sn > 0
  <2>1. p.cat \notin {"C", "H"} /\ p.num > 0
    BY <1>1, <1>3
  <2> QED
    BY <1>2, <2>1
<1>4. N \in Nat
  BY <1>1
<1>5. Decodable(p)
  BY <1>1, <1>3, <1>4 DEF Decodable
<1> QED
  BY <1>5 DEF p

\* fh_opra_pkt_process keeps the tables.
LEMMA PacketTables ==
  ASSUME OpraInv, TableOK(d), NEW l \in Sides, NEW i \in 1 .. Len(script), NEW u,
         Packet(l, script[i], u)
  PROVE  TableOK(d')
<1> DEFINE r == IsDup(s, l, script[i])
           t == IF r.s.restart THEN Restart(d) ELSE d
<1>1. d' = IF r.drop THEN t ELSE Decode(t, script[i], u)
  BY Zenon DEF Packet
<1>2. TableOK(t)
  <2>1. TableOK(Restart(d))
    BY RestartKeeps
  <2> QED
    BY <2>1, Zenon
<1>3. ~r.drop => Decodable(script[i])
  BY DecodableKept DEF OpraInv, LinesOK, ProcOK
<1> HIDE DEF r, t
<1>4. Decodable(script[i]) => TableOK(Decode(t, script[i], u))
  BY <1>2, DecodeKeeps
<1> QED
  BY <1>1, <1>2, <1>3, <1>4, Zenon

\* The places where a pass has not begun or is over.
Idle == {"none", "begin", "select", "end"}

\* The tables agree, nothing is pending between two passes, and main has joined only a
\* thread that has ended.  There is no thread before main starts it.
TablesInv ==
    /\ TableOK(d)
    /\ lh.pc \in Idle => ~d.pending
    /\ main = "mgmt_wait" => lh.pc = "end"
    /\ main \in {"mgmt_start", "lh_start"} => lh.pc = "none"

\* The process starts with empty tables.
LEMMA TablesInit == Init => TablesInv
<1> SUFFICES ASSUME Init PROVE TablesInv
  OBVIOUS
<1>1. d = Db0 /\ main = "mgmt_start" /\ lh.pc = "none"
  BY DEF Init
<1>2. Db0.pending = FALSE
  BY DEF Db0
<1> QED
  BY <1>1, <1>2, Db0OK DEF TablesInv

\* The main thread, the management thread and the ends of a pass.
LEMMA ThreadsTables ==
  ASSUME OpraInv, TablesInv,
         \/ MgmtStart \/ LhStart \/ LhWait \/ MgmtWait \/ Signal
         \/ MgmtStop \/ MgmtConnectionFails \/ MgmtEnd
         \/ LhBegin \/ PassEnd \/ LhEnd
         \/ UNCHANGED vars
  PROVE  TablesInv'
<1>1. "pc" \in DOMAIN lh /\ lh.pc \in Places
  BY DEF OpraInv, ProcOK
<1>2. CASE PassEnd
  <2>1. lh.pc = "flush" /\ d' = [d EXCEPT !.pending = FALSE] /\ main' = main
    BY <1>2 DEF PassEnd
  <2>2. TableOK(d')
    BY <2>1, PendingKeeps, Zenon DEF TablesInv
  <2>3. ~d'.pending
    <3>1. "pending" \in DOMAIN d
      BY DEF TablesInv, TableOK, TablesFit, Parts
    <3>2. d'.pending = FALSE
      BY <2>1, <3>1
    <3> QED
      BY <3>2
  <2>4. main' \notin {"mgmt_wait", "mgmt_start", "lh_start"}
    BY <2>1 DEF TablesInv
  <2> QED
    BY <2>2, <2>3, <2>4 DEF TablesInv
<1>3. CASE MgmtStart \/ LhStart \/ LhWait \/ MgmtWait \/ Signal \/ MgmtStop
           \/ MgmtConnectionFails \/ MgmtEnd \/ LhBegin \/ LhEnd \/ UNCHANGED vars
  <2>1. d' = d
    BY <1>3 DEF MgmtStart, LhStart, LhWait, MgmtWait, Signal, MgmtStop,
                MgmtConnectionFails, MgmtEnd, LhBegin, LhEnd, vars
  <2>2. lh'.pc \in Idle => lh.pc \in Idle
    BY <1>1, <1>3 DEF TablesInv, Idle, MgmtStart, LhStart, LhWait, MgmtWait, Signal, MgmtStop,
                MgmtConnectionFails, MgmtEnd, LhBegin, LhEnd, vars
  <2>3. main' = "mgmt_wait" => lh'.pc = "end"
    BY <1>1, <1>3 DEF TablesInv, MgmtStart, LhStart, LhWait, MgmtWait, Signal, MgmtStop,
                MgmtConnectionFails, MgmtEnd, LhBegin, LhEnd, vars
  <2>4. main' \in {"mgmt_start", "lh_start"} => lh'.pc = "none"
    BY <1>1, <1>3 DEF TablesInv, MgmtStart, LhStart, LhWait, MgmtWait, Signal, MgmtStop,
                MgmtConnectionFails, MgmtEnd, LhBegin, LhEnd, vars
  <2> QED
    BY <2>1, <2>2, <2>3, <2>4 DEF TablesInv
<1> QED
  BY <1>2, <1>3

\* The packets of the copies.
LEMMA ReadsTables ==
  ASSUME OpraInv, TablesInv, NEW l \in Sides,
         BadPacket(l) \/ ReceiveFails(l) \/ Receive(l) \/ Tap(l)
  PROVE  TablesInv'
<1>1. "pc" \in DOMAIN lh /\ TableOK(d)
  BY DEF OpraInv, ProcOK, TablesInv
<1>2. Reads(l) /\ Read(l)
  BY DEF BadPacket, ReceiveFails, Receive, Tap
<1>3. lh'.pc \notin Idle
  BY <1>1, <1>2 DEF Read, Idle
<1>4. main \notin {"mgmt_wait", "mgmt_start", "lh_start"}
  BY <1>2 DEF Reads, TablesInv
<1>5. main' \notin {"mgmt_wait", "mgmt_start", "lh_start"}
  BY <1>4 DEF BadPacket, ReceiveFails, Receive, Tap
<1>6. TableOK(d')
  <2>1. CASE Receive(l)
    <3>1. PICK i \in 1 .. Len(script) : \E u \in SUBSET Sends(script[i]) : Packet(l, script[i], u)
      BY <2>1 DEF Receive
    <3> QED
      BY <1>1, <3>1, PacketTables
  <2>2. CASE BadPacket(l) \/ ReceiveFails(l) \/ Tap(l)
    <3>1. d' = d
      BY <2>2 DEF BadPacket, ReceiveFails, Tap
    <3> QED
      BY <1>1, <3>1
  <2> QED
    BY <2>1, <2>2
<1> QED
  BY <1>3, <1>5, <1>6 DEF TablesInv

\* The option table, the pool, the listed roots and what subscribers know agree in
\* every state.
THEOREM TablesInvariant == Spec => []TablesInv
<1>1. OpraInv /\ TablesInv /\ [Next]_vars => TablesInv'
  BY ThreadsTables, ReadsTables DEF Next
<1> QED
  BY OpraInvariant, TablesInit, <1>1, PTL DEF Spec

\* Whatever the copies of the line lose, repeat or bring late, an option holds the newest
\* of the messages offered to it since the numbers restarted (FH_OPRA_DROP_DUPS), there is
\* a chunk out for each option and for nothing else, and each option has its root, for
\* every table size and every day of packets.
THEOREM OptionsAreCurrent == Spec => []OptionsCurrent
<1>1. TablesInv => OptionsCurrent
  <2> SUFFICES ASSUME TablesInv PROVE OptionsCurrent
    OBVIOUS
  <2>1. TablesFit(d) /\ \A k \in Keys : KeyOK(d, k)
    BY DEF TablesInv, TableOK
  <2>2. ASSUME NEW k \in Tabled(d) PROVE d.opt[k].seq >= d.seen[k] /\ Root[k] \in d.lo
    <3>1. k \in Keys /\ k \in DOMAIN d.opt
      BY <2>1 DEF Tabled, TablesFit
    <3> QED
      BY <2>1, <3>1 DEF KeyOK, IsOption
  <2>3. d.used = Cardinality(Tabled(d)) /\ d.used <= TableSize
    BY <2>1 DEF Tabled, TablesFit
  <2> QED
    BY <2>2, <2>3 DEF OptionsCurrent, Newest, TableAgrees
<1> QED
  BY TablesInvariant, <1>1, PTL

\* Whichever messages the pack hooks or the messaging layer refuse, a subscriber that
\* follows the flags has every option exactly but for the fields of the refused messages
\* that no later flag told, one that reads only the messages has no field of an option
\* that is old but for those no later message carried, and when main has joined the line
\* handler the flush has been called after the last message.
THEOREM SubscribersDoAgree == Spec => []SubscribersAgree
<1>1. TablesInv => SubscribersAgree
  <2> SUFFICES ASSUME TablesInv PROVE SubscribersAgree
    OBVIOUS
  <2>1. TablesFit(d) /\ \A k \in Keys : KeyOK(d, k)
    BY DEF TablesInv, TableOK
  <2>2. ASSUME NEW k \in Tabled(d)
        PROVE  /\ \A x \in Fields \ d.missed[k] : d.sub[k][x] = d.opt[k].f[x]
               /\ \A x \in DOMAIN d.wire[k] \ d.unread[k] :
                     d.wire[k][x] = d.opt[k].f[x] \/ (x \in Bests /\ d.wire[k][x] = 0)
    <3>1. k \in Keys /\ k \in DOMAIN d.opt
      BY <2>1 DEF Tabled, TablesFit
    <3> QED
      BY <2>1, <3>1 DEF KeyOK, WireOK, FlagsOK
  <2>3. FlushedAtExit
    BY DEF FlushedAtExit, TablesInv, Idle
  <2> QED
    BY <2>2, <2>3 DEF SubscribersAgree, FlagsTell, WireTells, Bests
<1> QED
  BY TablesInvariant, <1>1, PTL

=============================================================================
