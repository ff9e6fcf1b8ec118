---------------------------- MODULE OrdersProofs ----------------------------
(***************************************************************************)
(* Proofs about the order table behind a line, for every size of the       *)
(* table, set of order numbers and number of messages: the pools agree,    *)
(* the table says of an order what the exchange's book says of it, it is   *)
(* complete while it is large enough, and its subtractions never wrap.     *)
(***************************************************************************)
EXTENDS Orders, FiniteSetTheorems, TLAPS

-----------------------------------------------------------------------------
(* The table as its operations see it: the orders held, and the entry of    *)
(* each.                                                                    *)

Look(T, o) == T.entry[T.hash[o]]

\* An entry with other shares, and a message with its symbol entry.
Resized(e, n) == [e EXCEPT !.shares = n]
WithSym(w, x) == [w EXCEPT !.sym = x]

TableEntry == [order_no : Nat, shares : Nat, stock : Nat, sym : Nat]

TableType == [entry : [Chunk -> TableEntry], free : Seq(Chunk),
              hash : [OrderNo -> Chunk \cup {NULL}], elts : Nat, count : Nat]

\* What the three pools keep between them.
TableInv(T) ==
  /\ T \in TableType
  /\ \A o \in Held(T) : Look(T, o).order_no = o
  /\ \A i, j \in 1..Len(T.free) : T.free[i] = T.free[j] => i = j
  /\ \A o \in Held(T), i \in 1..Len(T.free) : T.hash[o] # T.free[i]
  /\ \A c \in Chunk : (\E o \in Held(T) : T.hash[o] = c) \/ \E i \in 1..Len(T.free) : T.free[i] = c
  /\ IsFiniteSet(Held(T)) /\ T.count = Cardinality(Held(T))
  /\ T.elts = Len(T.free) /\ T.count + Len(T.free) = TableSize

\* An order held has a chunk of its own.
LEMMA HeldChunks ==
  ASSUME NEW T, TableInv(T)
  PROVE  /\ \A o \in Held(T) : o \in OrderNo /\ T.hash[o] \in Chunk /\ Look(T, o) \in TableEntry
         /\ \A o, p \in Held(T) : T.hash[o] = T.hash[p] => o = p
         /\ \A o \in OrderNo : o \in Held(T) <=> T.hash[o] # NULL
  BY DEF TableInv, TableType, Held, Look

\* fh_shr_lkp_ord_init leaves every chunk free and no order held.
LEMMA NewTableInv == TableInv(NewTable) /\ Held(NewTable) = {}
<1> DEFINE T == NewTable
<1>1. T \in TableType
  <2>1. T.free \in Seq(Chunk)
    BY TableAssumption DEF NewTable, Chunk
  <2>2. T.entry \in [Chunk -> TableEntry]
    BY DEF NewTable, Entry, TableEntry
  <2> QED
    BY <2>1, <2>2, TableAssumption DEF NewTable, TableType, NULL
<1>2. Held(T) = {}
  BY DEF Held, NewTable, NULL
<1>3. Len(T.free) = TableSize /\ \A i \in 1..TableSize : T.free[i] = TableSize + 1 - i
  BY TableAssumption DEF NewTable
<1>4. \A c \in Chunk : TableSize + 1 - c \in 1..TableSize /\ T.free[TableSize + 1 - c] = c
  BY <1>3, TableAssumption DEF Chunk
<1>5. T.elts = TableSize /\ T.count = 0
  BY DEF NewTable
<1> HIDE DEF T
<1>6. IsFiniteSet(Held(T)) /\ Cardinality(Held(T)) = 0
  BY <1>2, FS_EmptySet
<1>7. \A i, j \in 1..Len(T.free) : T.free[i] = T.free[j] => i = j
  BY <1>3, TableAssumption
<1>8. TableInv(T)
  BY <1>1, <1>2, <1>3, <1>4, <1>5, <1>6, <1>7, TableAssumption DEF TableInv
<1> QED
  BY <1>2, <1>8 DEF T

\* fh_shr_lkp_ord_add: a full table and a key that is taken change nothing a
\* lookup can see; otherwise the order is held with the entry it came with.
LEMMA AddInv ==
  ASSUME NEW T, TableInv(T), NEW e \in TableEntry, e.order_no \in OrderNo
  PROVE  LET U == OrdAdd(T, e) IN
         /\ TableInv(U)
         /\ e.order_no \in Held(T) \/ T.free = <<>> =>
              Held(U) = Held(T) /\ \A o \in Held(T) : Look(U, o) = Look(T, o)
         /\ e.order_no \notin Held(T) /\ T.free # <<>> =>
              /\ Held(U) = Held(T) \cup {e.order_no}
              /\ Look(U, e.order_no) = e
              /\ \A o \in Held(T) : Look(U, o) = Look(T, o)
<1> DEFINE U == OrdAdd(T, e)
           c == Head(T.free)
           k == e.order_no
<1>1. CASE T.free = <<>>
  BY <1>1 DEF OrdAdd
<1>2. ASSUME T.free # <<>>, k \in Held(T)
      PROVE  TableInv(U) /\ Held(U) = Held(T) /\ \A o \in Held(T) : Look(U, o) = Look(T, o)
  <2>1. U = [T EXCEPT !.entry[c] = e]
    BY <1>2 DEF OrdAdd, Held
  <2>2. c = T.free[1] /\ c \in Chunk /\ 1 \in 1..Len(T.free)
    BY <1>2 DEF TableInv, TableType
  <2>3. /\ U.free = T.free /\ U.hash = T.hash /\ U.elts = T.elts /\ U.count = T.count
        /\ U.entry = [T.entry EXCEPT ![c] = e] /\ U \in TableType
    <3>1. U = [entry |-> [T.entry EXCEPT ![c] = e], free |-> T.free, hash |-> T.hash,
               elts |-> T.elts, count |-> T.count]
      BY <2>1 DEF TableInv, TableType
    <3>2. [T.entry EXCEPT ![c] = e] \in [Chunk -> TableEntry]
      BY <2>2 DEF TableInv, TableType
    <3> QED
      BY <3>1, <3>2 DEF TableInv, TableType
  <2> HIDE DEF U, c
  <2>4. Held(U) = Held(T)
    BY <2>3 DEF Held
  <2>5. \A o \in Held(T) : Look(U, o) = Look(T, o)
    BY <2>2, <2>3, HeldChunks DEF TableInv, TableType, Look
  <2> QED
    BY <2>3, <2>4, <2>5 DEF TableInv
<1>3. ASSUME T.free # <<>>, k \notin Held(T)
      PROVE  TableInv(U) /\ Held(U) = Held(T) \cup {k} /\ Look(U, k) = e
             /\ \A o \in Held(T) : Look(U, o) = Look(T, o)
  <2>1. U = [[T EXCEPT !.entry[c] = e, !.free = Tail(@), !.count = @ + 1]
                EXCEPT !.hash[k] = c, !.elts = @ - 1]
    <3>1. T.elts # 0
      BY <1>3 DEF TableInv, TableType
    <3> QED
      BY <1>3, <3>1 DEF OrdAdd, Held
  <2>2. /\ c = T.free[1] /\ c \in Chunk /\ 1 \in 1..Len(T.free) /\ c # NULL
        /\ Tail(T.free) \in Seq(Chunk) /\ Len(Tail(T.free)) = Len(T.free) - 1
        /\ \A i \in 1..Len(Tail(T.free)) : Tail(T.free)[i] = T.free[i + 1]
    BY <1>3 DEF TableInv, TableType, Chunk, NULL
  <2>3. /\ U.free = Tail(T.free) /\ U.hash = [T.hash EXCEPT ![k] = c]
        /\ U.elts = T.elts - 1 /\ U.count = T.count + 1
        /\ U.entry = [T.entry EXCEPT ![c] = e]
    BY <2>1 DEF TableInv, TableType
  <2>4. U \in TableType
    <3>1. T.elts - 1 \in Nat /\ T.count + 1 \in Nat
      BY <1>3 DEF TableInv, TableType
    <3>2. U = [entry |-> [T.entry EXCEPT ![c] = e], free |-> Tail(T.free),
               hash |-> [T.hash EXCEPT ![k] = c], elts |-> T.elts - 1, count |-> T.count + 1]
      BY <2>1 DEF TableInv, TableType
    <3>3. /\ [T.entry EXCEPT ![c] = e] \in [Chunk -> TableEntry]
          /\ [T.hash EXCEPT ![k] = c] \in [OrderNo -> Chunk \cup {NULL}]
      BY <2>2 DEF TableInv, TableType
    <3> HIDE DEF U, c, k
    <3> QED
      BY <2>2, <3>1, <3>2, <3>3 DEF TableInv, TableType
  <2> HIDE DEF U, c
  <2>5. Held(U) = Held(T) \cup {k}
    BY <2>2, <2>3 DEF TableInv, TableType, Held
  <2>6. Look(U, k) = e
    BY <2>2, <2>3 DEF TableInv, TableType, Look
  <2>7. \A o \in Held(T) : Look(U, o) = Look(T, o) /\ U.hash[o] = T.hash[o]
    BY <1>3, <2>2, <2>3, HeldChunks DEF TableInv, TableType, Look
  <2>8. IsFiniteSet(Held(U)) /\ Cardinality(Held(U)) = Cardinality(Held(T)) + 1
    BY <1>3, <2>5, FS_AddElement DEF TableInv
  <2>9. \A o \in Held(U) : Look(U, o).order_no = o
    BY <2>5, <2>6, <2>7 DEF TableInv
  <2>10. \A i, j \in 1..Len(U.free) : U.free[i] = U.free[j] => i = j
    <3> SUFFICES ASSUME NEW i \in 1..Len(U.free), NEW j \in 1..Len(U.free), U.free[i] = U.free[j]
                 PROVE  i = j
      OBVIOUS
    <3>1. /\ i + 1 \in 1..Len(T.free) /\ j + 1 \in 1..Len(T.free)
          /\ T.free[i + 1] = T.free[j + 1]
      BY <2>2, <2>3 DEF TableInv, TableType
    <3>2. i + 1 = j + 1
      BY <3>1 DEF TableInv
    <3> QED
      BY <3>2
  <2>11. \A o \in Held(U), i \in 1..Len(U.free) : U.hash[o] # U.free[i]
    <3> SUFFICES ASSUME NEW o \in Held(U), NEW i \in 1..Len(U.free) PROVE U.hash[o] # U.free[i]
      OBVIOUS
    <3>1. i + 1 \in 1..Len(T.free) /\ i + 1 # 1 /\ U.free[i] = T.free[i + 1]
      BY <2>2, <2>3 DEF TableInv, TableType
    <3>2. T.free[i + 1] # T.free[1]
      BY <2>2, <3>1 DEF TableInv
    <3>3. CASE o = k
      BY <2>2, <2>3, <3>1, <3>2, <3>3 DEF TableInv, TableType
    <3>4. CASE o \in Held(T)
      BY <2>7, <3>1, <3>4 DEF TableInv
    <3> QED
      BY <2>5, <3>3, <3>4
  <2>12. ASSUME NEW d \in Chunk
         PROVE  (\E o \in Held(U) : U.hash[o] = d) \/ \E i \in 1..Len(U.free) : U.free[i] = d
    <3>1. CASE \E o \in Held(T) : T.hash[o] = d
      BY <2>5, <2>7, <3>1
    <3>2. CASE \E i \in 1..Len(T.free) : T.free[i] = d
      <4>1. PICK i \in 1..Len(T.free) : T.free[i] = d
        BY <3>2
      <4>2. CASE i = 1
        BY <2>2, <2>3, <2>5, <4>1, <4>2 DEF TableInv, TableType
      <4>3. CASE i # 1
        <5>1. i - 1 \in 1..Len(U.free) /\ U.free[i - 1] = d
          BY <2>2, <2>3, <4>1, <4>3
        <5> QED
          BY <5>1
      <4> QED
        BY <4>2, <4>3
    <3> QED
      BY <3>1, <3>2 DEF TableInv
  <2>13. U.elts = Len(U.free) /\ U.count = Cardinality(Held(U)) /\ U.count + Len(U.free) = TableSize
    BY <2>2, <2>3, <2>8, TableAssumption DEF TableInv, TableType
  <2> QED
    BY <2>4, <2>5, <2>6, <2>7, <2>8, <2>9, <2>10, <2>11, <2>12, <2>13 DEF TableInv
<1> HIDE DEF U
<1> QED
  BY <1>1, <1>2, <1>3 DEF U

\* fh_shr_lkp_ord_del: the order is gone and its chunk is free.
LEMMA DelInv ==
  ASSUME NEW T, TableInv(T), NEW o \in OrderNo
  PROVE  LET U == OrdDel(T, o) IN
         /\ TableInv(U)
         /\ Held(U) = Held(T) \ {o}
         /\ \A p \in Held(U) : Look(U, p) = Look(T, p)
         /\ o \in Held(T) => U.free # <<>>
         /\ o \notin Held(T) => U = T
<1> DEFINE U == OrdDel(T, o)
           c == T.hash[o]
<1>1. CASE o \notin Held(T)
  BY <1>1 DEF OrdDel, Held
<1>2. ASSUME o \in Held(T)
      PROVE  TableInv(U) /\ Held(U) = Held(T) \ {o} /\ U.free # <<>>
             /\ \A p \in Held(U) : Look(U, p) = Look(T, p)
  <2>1. U = [T EXCEPT !.hash[o] = NULL, !.elts = @ + 1, !.free = <<c>> \o @, !.count = @ - 1]
    BY <1>2 DEF OrdDel, Held
  <2>2. c \in Chunk /\ c # NULL
    BY <1>2, HeldChunks DEF Chunk, NULL
  <2> DEFINE f == <<c>> \o T.free
  <2>3. /\ f \in Seq(Chunk) /\ Len(f) = Len(T.free) + 1 /\ Len(T.free) \in Nat
        /\ f[1] = c /\ \A i \in 2..Len(f) : f[i] = T.free[i - 1]
    BY <2>2 DEF TableInv, TableType
  <2>21. U = [T EXCEPT !.hash[o] = NULL, !.elts = @ + 1, !.free = f, !.count = @ - 1]
    BY <2>1
  <2> HIDE DEF f
  <2>4. /\ U.free = f /\ U.hash = [T.hash EXCEPT ![o] = NULL]
        /\ U.elts = T.elts + 1 /\ U.count = T.count - 1 /\ U.entry = T.entry
    BY <2>21 DEF TableInv, TableType
  <2>5. U = [entry |-> T.entry, free |-> f, hash |-> [T.hash EXCEPT ![o] = NULL],
             elts |-> T.elts + 1, count |-> T.count - 1]
    <3> HIDE DEF c, U
    <3> DEFINE h == [T.hash EXCEPT ![o] = NULL]
    <3>1. U = [T EXCEPT !.hash = h, !.elts = @ + 1, !.free = f, !.count = @ - 1]
      BY <2>21
    <3> HIDE DEF h
    <3>2. U = [entry |-> T.entry, free |-> f, hash |-> h, elts |-> T.elts + 1, count |-> T.count - 1]
      BY <3>1 DEF TableInv, TableType
    <3> QED
      BY <3>2 DEF h
  <2> HIDE DEF U, c
  <2>6. Held(U) = Held(T) \ {o}
    BY <2>4 DEF TableInv, TableType, Held
  <2>7. \A p \in Held(U) : Look(U, p) = Look(T, p) /\ U.hash[p] = T.hash[p]
    BY <2>4, <2>6, HeldChunks DEF TableInv, TableType, Look
  <2>8. IsFiniteSet(Held(U)) /\ Cardinality(Held(U)) = Cardinality(Held(T)) - 1
        /\ Cardinality(Held(U)) \in Nat
    BY <1>2, <2>6, FS_RemoveElement, FS_CardinalityType DEF TableInv
  <2>9. U \in TableType
    <3>1. T.elts + 1 \in Nat /\ T.count - 1 \in Nat
      BY <2>8 DEF TableInv, TableType
    <3>2. [T.hash EXCEPT ![o] = NULL] \in [OrderNo -> Chunk \cup {NULL}]
      BY DEF TableInv, TableType
    <3> QED
      BY <2>3, <2>5, <3>1, <3>2 DEF TableInv, TableType
  <2>10. \A p \in Held(U) : Look(U, p).order_no = p
    BY <2>6, <2>7 DEF TableInv
  <2>11. \A i \in 1..Len(T.free) : T.free[i] # c
    BY <1>2 DEF TableInv, c
  <2>12. \A i, j \in 1..Len(U.free) : U.free[i] = U.free[j] => i = j
    <3> SUFFICES ASSUME NEW i \in 1..Len(f), NEW j \in 1..Len(f), f[i] = f[j] PROVE i = j
      BY <2>4
    <3>1. i # 1 => i - 1 \in 1..Len(T.free) /\ f[i] = T.free[i - 1] /\ f[i] # c
      BY <2>3, <2>11
    <3>2. j # 1 => j - 1 \in 1..Len(T.free) /\ f[j] = T.free[j - 1] /\ f[j] # c
      BY <2>3, <2>11
    <3>3. i # 1 /\ j # 1 => i - 1 = j - 1
      BY <3>1, <3>2 DEF TableInv
    <3> QED
      BY <2>3, <3>1, <3>2, <3>3
  <2>13. \A p \in Held(U), i \in 1..Len(U.free) : U.hash[p] # U.free[i]
    <3> SUFFICES ASSUME NEW p \in Held(U), NEW i \in 1..Len(f) PROVE T.hash[p] # f[i]
      BY <2>4, <2>7
    <3>1. p \in Held(T) /\ p # o
      BY <2>6
    <3>2. i # 1 => i - 1 \in 1..Len(T.free) /\ f[i] = T.free[i - 1]
      BY <2>3
    <3>3. T.hash[p] # c
      BY <1>2, <3>1, HeldChunks DEF c
    <3>4. i # 1 => T.hash[p] # f[i]
      BY <3>1, <3>2 DEF TableInv
    <3> QED
      BY <2>3, <3>3, <3>4
  <2>14. ASSUME NEW d \in Chunk
         PROVE  (\E p \in Held(U) : U.hash[p] = d) \/ \E i \in 1..Len(U.free) : U.free[i] = d
    <3>1. CASE d = c
      BY <2>3, <2>4, <3>1
    <3>2. CASE d # c /\ \E p \in Held(T) : T.hash[p] = d
      BY <2>6, <2>7, <3>2 DEF c
    <3>3. CASE \E i \in 1..Len(T.free) : T.free[i] = d
      <4>1. PICK i \in 1..Len(T.free) : T.free[i] = d
        BY <3>3
      <4>2. i + 1 \in 1..Len(f) /\ f[i + 1] = d
        BY <2>3, <4>1
      <4> QED
        BY <2>4, <4>2
    <3> QED
      BY <3>1, <3>2, <3>3 DEF TableInv
  <2>15. U.elts = Len(U.free) /\ U.count = Cardinality(Held(U)) /\ U.count + Len(U.free) = TableSize
    BY <2>3, <2>4, <2>8, TableAssumption DEF TableInv, TableType
  <2>16. U.free # <<>>
    BY <2>3, <2>4
  <2> QED
    BY <2>6, <2>7, <2>8, <2>9, <2>10, <2>12, <2>13, <2>14, <2>15, <2>16 DEF TableInv
<1> HIDE DEF U
<1> QED
  BY <1>1, <1>2 DEF U

\* Changing the shares of an order held changes nothing else.
LEMMA SetInv ==
  ASSUME NEW T, TableInv(T), NEW o \in Held(T), NEW n \in Nat
  PROVE  LET U == SetShares(T, o, n) IN
         /\ TableInv(U)
         /\ Held(U) = Held(T)
         /\ Look(U, o) = Resized(Look(T, o), n)
         /\ \A p \in Held(T) : p # o => Look(U, p) = Look(T, p)
<1> DEFINE U == SetShares(T, o, n)
           c == T.hash[o]
           e == Resized(Look(T, o), n)
<1>1. c \in Chunk /\ Look(T, o) \in TableEntry /\ o \in OrderNo /\ Look(T, o).order_no = o
  BY HeldChunks DEF TableInv
<1>2. e \in TableEntry /\ e.order_no = o
  BY <1>1 DEF TableEntry, Resized
<1>3. U = [entry |-> [T.entry EXCEPT ![c] = e], free |-> T.free, hash |-> T.hash,
           elts |-> T.elts, count |-> T.count]
  BY <1>1 DEF SetShares, TableInv, TableType, Look, Resized
<1>4. [T.entry EXCEPT ![c] = e] \in [Chunk -> TableEntry]
  BY <1>1, <1>2 DEF TableInv, TableType
<1> HIDE DEF U, e
<1>5. /\ U.entry = [T.entry EXCEPT ![c] = e] /\ U.free = T.free /\ U.hash = T.hash
      /\ U.elts = T.elts /\ U.count = T.count
  BY <1>3
<1>6. U \in TableType
  BY <1>3, <1>4 DEF TableInv, TableType
<1>7. Held(U) = Held(T)
  BY <1>5 DEF Held
<1>8. Look(U, o) = e
  BY <1>1, <1>5 DEF Look, TableInv, TableType
<1>9. ASSUME NEW p \in Held(T), p # o PROVE Look(U, p) = Look(T, p)
  <2>1. T.hash[p] \in Chunk /\ T.hash[p] # c
    BY <1>9, HeldChunks
  <2> QED
    BY <1>1, <1>5, <2>1 DEF Look, TableInv, TableType
<1>10. \A p \in Held(U) : Look(U, p).order_no = p
  BY <1>2, <1>7, <1>8, <1>9 DEF TableInv
<1>11. TableInv(U)
  BY <1>5, <1>6, <1>7, <1>10 DEF TableInv
<1> QED
  BY <1>7, <1>8, <1>9, <1>11 DEF U, e

\* What is said of the pools follows.
LEMMA PoolsFollow == TableInv(table) => PoolsAgree
<1> SUFFICES ASSUME TableInv(table) PROVE PoolsAgree
  OBVIOUS
<1> DEFINE H == Held(table)
           reached == {table.hash[o] : o \in H}
           f == [o \in H |-> table.hash[o]]
<1>1. ToSet(table.free) = {table.free[i] : i \in 1..Len(table.free)}
  BY DEF ToSet, TableInv, TableType
<1>2. \A o \in H : table.hash[o] \in Chunk
  BY HeldChunks
<1>3. reached \cap ToSet(table.free) = {}
  BY <1>1 DEF TableInv
<1>4. reached \cup ToSet(table.free) = Chunk
  <2>1. \A i \in 1..Len(table.free) : table.free[i] \in Chunk
    BY DEF TableInv, TableType
  <2> QED
    BY <1>1, <1>2, <2>1 DEF TableInv
<1>5. Cardinality(reached) = Cardinality(H)
  <2>1. f \in Bijection(H, reached)
    <3>1. \A o, p \in H : f[o] = f[p] => o = p
      BY HeldChunks
    <3> QED
      BY <3>1 DEF Bijection, Injection, Surjection, IsInjective
  <2>2. ExistsBijection(H, reached) /\ IsFiniteSet(H)
    BY <2>1 DEF ExistsBijection, TableInv
  <2> HIDE DEF H, reached
  <2> QED
    BY <2>2, FS_Bijection
<1>6. Cardinality(reached) + Len(table.free) = TableSize
  <2> HIDE DEF reached
  <2> QED
    BY <1>5 DEF TableInv
<1>7. \A o \in H : table.entry[table.hash[o]].order_no = o
  BY DEF TableInv, Look
<1> QED
  BY <1>3, <1>4, <1>6, <1>7 DEF PoolsAgree, TableInv

-----------------------------------------------------------------------------
(* The messages.                                                            *)

MsgTypes == {"add", "execute", "cancel", "delete", "replace", "modify", "price"}

\* A message that takes an order away, and one that says how many shares it has now:
\* an execution at a price is the one or the other.
Removes(m) == m.type = "delete" \/ (m.type = "price" /\ m.shares = 0)
Sets(m) == m.type = "modify" \/ (m.type = "price" /\ m.shares # 0)

\* What a feed's exchange sends, before anything is said of its book.
WireMsg == [type : MsgTypes, order_no : OrderNo, shares : Nat,
            new_order_no : OrderNo \cup {0}, stock : OrderNo \cup {0}, sym : {NULL}]

OfDialect(d, m) ==
  /\ m.type = "delete" => d # "edge"
  /\ m.type = "replace" => d = "itch" /\ m.new_order_no \in OrderNo
  /\ m.type \in {"modify", "price"} => d = "bats"

\* Which messages do neither, and that both show in the type and the shares.
LEMMA Kinds ==
  \A m, w :
    /\ m.type \in {"add", "execute", "cancel", "replace"} => ~Removes(m) /\ ~Sets(m)
    /\ Removes(m) => m.type \in {"delete", "price"} /\ ~Sets(m)
    /\ Sets(m) => m.type \in {"modify", "price"}
    /\ m.type = w.type /\ m.shares = w.shares => (Removes(m) <=> Removes(w)) /\ (Sets(m) <=> Sets(w))
  BY DEF Removes, Sets

\* The same message on its way to the order table, with its symbol entry.
Handled(d, m) ==
  /\ m.type \in MsgTypes /\ m.order_no \in OrderNo
  /\ m.shares \in Nat /\ m.stock \in Nat /\ m.sym \in Nat
  /\ OfDialect(d, m)

\* The message a handler gets has the fields of the one on the wire and the symbol it looked up.
LEMMA HandledFields ==
  ASSUME NEW w \in WireMsg, NEW x \in OrderNo \cup {0}, NEW d, OfDialect(d, w)
  PROVE  LET m == WithSym(w, x) IN
         /\ m.type = w.type /\ m.order_no = w.order_no /\ m.shares = w.shares
         /\ m.new_order_no = w.new_order_no /\ m.stock = w.stock /\ m.sym = x
         /\ Handled(d, m)
<1> DEFINE m == WithSym(w, x)
<1>1. /\ m.type = w.type /\ m.order_no = w.order_no /\ m.shares = w.shares
      /\ m.new_order_no = w.new_order_no /\ m.stock = w.stock /\ m.sym = x
  BY DEF WireMsg, WithSym
<1> HIDE DEF m
<1>2. Handled(d, m)
  <2>1. /\ w.type \in MsgTypes /\ w.order_no \in OrderNo /\ w.shares \in Nat
        /\ w.stock \in Nat /\ x \in Nat
    <3>1. /\ w.type \in MsgTypes /\ w.order_no \in OrderNo /\ w.shares \in Nat
          /\ w.stock \in OrderNo \cup {0}
      BY DEF WireMsg
    <3>2. OrderNo \cup {0} \subseteq Nat
      BY TableAssumption
    <3> QED
      BY <3>1, <3>2
  <2>2. OfDialect(d, m)
    BY <1>1 DEF OfDialect
  <2> QED
    BY <1>1, <2>1, <2>2 DEF Handled
<1> QED
  BY <1>1, <1>2 DEF m

\* What is left of 32 bits after a subtraction, and what is left without a
\* borrow.
LEMMA Remainder ==
  /\ \A x \in Int : x % ShareMod \in Nat
  /\ \A x \in 0..(ShareMod - 1) : x % ShareMod = x
  BY TableAssumption

\* An execution or a cancel of no more than the order has: nothing happens to
\* an order that is not held; one that is loses the shares, and goes with the
\* last of them unless the feed is BATS.
LEMMA TakeView ==
  ASSUME NEW T, TableInv(T), NEW d \in {"itch", "bats", "edge"}, NEW m, Handled(d, m),
         m.type \in {"execute", "cancel"}
  PROVE  LET o == m.order_no
             U == Apply(d, T, m)
             left == Look(T, o).shares - m.shares
         IN  /\ TableInv(U)
             /\ o \notin Held(T) => U = T
             /\ o \in Held(T) /\ left \in 0..(ShareMod - 1) =>
                  /\ \A p \in Held(T) \ {o} : p \in Held(U) /\ Look(U, p) = Look(T, p)
                  /\ Held(U) = IF left = 0 /\ d # "bats" THEN Held(T) \ {o} ELSE Held(T)
                  /\ o \in Held(U) => Look(U, o) = Resized(Look(T, o), left)
<1> DEFINE o == m.order_no
           U == Apply(d, T, m)
           left == Look(T, o).shares - m.shares
           low == left % ShareMod
<1>1. CASE o \notin Held(T)
  <2>1. T.hash[o] = NULL
    BY <1>1 DEF Held, Handled
  <2>2. U = T
    BY <2>1 DEF Apply, ItchExecute, ItchCancel, BatsExecute, BatsReduce, EdgeExecute, EdgeCancel, OrdGet
  <2> QED
    BY <1>1, <2>2
<1>2. CASE o \in Held(T)
  <2>1. T.hash[o] # NULL /\ o \in OrderNo
    BY <1>2 DEF Held
  <2>2. Shares(T, o) = Look(T, o).shares /\ Look(T, o) \in TableEntry /\ m.shares \in Nat
    BY <1>2, HeldChunks DEF Shares, Look, Handled
  <2>3. left \in Int /\ low \in Nat /\ (left \in 0..(ShareMod - 1) => low = left)
    BY <2>2, Remainder DEF TableEntry
  <2>4. U = IF d = "itch"
            THEN IF low = 0 THEN OrdDel(SetShares(T, o, low), o) ELSE SetShares(T, o, low)
            ELSE IF d = "bats" /\ m.type = "cancel" THEN SetShares(T, o, low)
            ELSE IF left < 0 THEN T
            ELSE IF d = "edge" /\ left = 0 THEN OrdDel(SetShares(T, o, left), o)
            ELSE SetShares(T, o, left)
    <3>1. m.shares > Shares(T, o) <=> left < 0
      BY <2>2 DEF TableEntry
    <3>2. CASE d = "itch"
      BY <2>1, <2>2, <3>2 DEF Apply, ItchExecute, ItchCancel, OrdGet
    <3>3. CASE d = "bats"
      BY <2>1, <2>2, <3>1, <3>3 DEF Apply, BatsExecute, BatsReduce, OrdGet
    <3>4. CASE d = "edge"
      BY <2>1, <2>2, <3>4 DEF Apply, EdgeExecute, EdgeCancel, OrdGet
    <3> QED
      BY <3>2, <3>3, <3>4
  <2> HIDE DEF left, low, U, o
  <2>5. ASSUME NEW n \in Nat
        PROVE  LET V == SetShares(T, o, n)
                   D == OrdDel(V, o)
               IN  /\ TableInv(V) /\ Held(V) = Held(T)
                   /\ Look(V, o) = Resized(Look(T, o), n)
                   /\ \A p \in Held(T) \ {o} : Look(V, p) = Look(T, p)
                   /\ TableInv(D) /\ Held(D) = Held(T) \ {o}
                   /\ \A p \in Held(T) \ {o} : Look(D, p) = Look(T, p)
    <3> DEFINE V == SetShares(T, o, n)
    <3>1. /\ TableInv(V) /\ Held(V) = Held(T)
          /\ Look(V, o) = Resized(Look(T, o), n)
          /\ \A p \in Held(T) : p # o => Look(V, p) = Look(T, p)
      BY <1>2, SetInv
    <3> HIDE DEF V
    <3>2. /\ TableInv(OrdDel(V, o)) /\ Held(OrdDel(V, o)) = Held(V) \ {o}
          /\ \A p \in Held(OrdDel(V, o)) : Look(OrdDel(V, o), p) = Look(V, p)
      BY <2>1, <3>1, DelInv
    <3> QED
      BY <3>1, <3>2 DEF V
  <2>6. TableInv(U)
    <3>1. left >= 0 => left \in Nat
      BY <2>3
    <3> QED
      BY <2>3, <2>4, <2>5, <3>1
  <2>7. ASSUME left \in 0..(ShareMod - 1)
        PROVE  /\ \A p \in Held(T) \ {o} : p \in Held(U) /\ Look(U, p) = Look(T, p)
               /\ Held(U) = IF left = 0 /\ d # "bats" THEN Held(T) \ {o} ELSE Held(T)
               /\ o \in Held(U) => Look(U, o) = Resized(Look(T, o), left)
    <3>1. left \in Nat /\ ~ left < 0 /\ low = left
      BY <2>3, <2>7
    <3>2. CASE left = 0 /\ d # "bats"
      <4>1. U = OrdDel(SetShares(T, o, left), o)
        BY <2>4, <3>1, <3>2
      <4>2. Held(U) = Held(T) \ {o} /\ \A p \in Held(T) \ {o} : Look(U, p) = Look(T, p)
        BY <2>5, <3>1, <4>1
      <4> QED
        BY <3>2, <4>2
    <3>3. CASE ~(left = 0 /\ d # "bats")
      <4>1. U = SetShares(T, o, left)
        BY <2>4, <3>1, <3>3
      <4>2. /\ Held(U) = Held(T) /\ Look(U, o) = Resized(Look(T, o), left)
            /\ \A p \in Held(T) \ {o} : Look(U, p) = Look(T, p)
        BY <2>5, <3>1, <4>1
      <4> QED
        BY <3>3, <4>2
    <3> QED
      BY <3>2, <3>3
  <2> QED
    BY <1>2, <2>6, <2>7 DEF left, U, o
<1> QED
  BY <1>1, <1>2

\* The other messages: an order is added, removed, given other shares, or
\* removed and added under its new number with what its entry said.
Carried(T, m) ==
  LET from == IF m.order_no \in Held(T) THEN Look(T, m.order_no) ELSE Entry(0, 0, NULL, NULL)
  IN  [from EXCEPT !.order_no = m.new_order_no, !.shares = m.shares]

\* What add, delete, modify and replace do to the table, one line each.
LEMMA OtherViews ==
  ASSUME NEW T, TableInv(T), NEW d \in {"itch", "bats", "edge"}, NEW m, Handled(d, m)
  PROVE  LET U == Apply(d, T, m)
             new == Entry(m.order_no, m.shares, m.stock, m.sym)
         IN
         /\ m.type = "add" => U = OrdAdd(T, new) /\ new \in TableEntry /\ new.order_no = m.order_no
         /\ Removes(m) => U = OrdDel(T, m.order_no)
         /\ Sets(m) =>
              U = IF m.order_no \in Held(T) THEN SetShares(T, m.order_no, m.shares) ELSE T
         /\ m.type = "replace" =>
              /\ U = OrdAdd(OrdDel(T, m.order_no), Carried(T, m))
              /\ Carried(T, m) \in TableEntry /\ Carried(T, m).order_no = m.new_order_no
              /\ Carried(T, m).shares = m.shares
<1> DEFINE U == Apply(d, T, m)
           new == Entry(m.order_no, m.shares, m.stock, m.sym)
           o == m.order_no
<1>1. o \in OrderNo /\ o \in Nat /\ m.shares \in Nat /\ m.stock \in Nat /\ m.sym \in Nat
  BY TableAssumption DEF Handled
<1>2. o \in Held(T) <=> T.hash[o] # NULL
  BY <1>1 DEF Held
<1>3. ASSUME m.type = "add" PROVE U = OrdAdd(T, new) /\ new \in TableEntry /\ new.order_no = o
  BY <1>1, <1>3 DEF Apply, ItchAdd, BatsAdd, EdgeAdd, Entry, TableEntry
<1>4. ASSUME Removes(m) PROVE U = OrdDel(T, o)
  BY <1>4 DEF Apply, ItchDelete, BatsDelete, BatsExecutePrice, OrdGet, OrdDel, Handled, OfDialect,
              Removes
<1>5. ASSUME Sets(m)
      PROVE  U = IF o \in Held(T) THEN SetShares(T, o, m.shares) ELSE T
  BY <1>2, <1>5 DEF Apply, BatsModify, BatsExecutePrice, OrdGet, Handled, OfDialect, Sets
<1>6. ASSUME m.type = "replace"
      PROVE  /\ U = OrdAdd(OrdDel(T, m.order_no), Carried(T, m))
             /\ Carried(T, m) \in TableEntry /\ Carried(T, m).order_no = m.new_order_no
             /\ Carried(T, m).shares = m.shares
  <2>1. U = ItchReplace(T, m) /\ m.new_order_no \in Nat
    BY <1>6, TableAssumption DEF Apply, Handled, OfDialect
  <2>2. U = OrdAdd(OrdDel(T, o), Carried(T, m))
    BY <1>2, <2>1 DEF ItchReplace, OrdGet, Carried, Look
  <2> DEFINE from == IF o \in Held(T) THEN Look(T, o) ELSE Entry(0, 0, NULL, NULL)
  <2>3. from \in TableEntry
    BY HeldChunks DEF Entry, TableEntry, NULL
  <2>4. Carried(T, m) = [from EXCEPT !.order_no = m.new_order_no, !.shares = m.shares]
    BY DEF Carried
  <2> HIDE DEF from
  <2> QED
    BY <1>1, <2>1, <2>2, <2>3, <2>4 DEF TableEntry
<1> QED
  BY <1>3, <1>4, <1>5, <1>6

\* Every message keeps the pools.
LEMMA ApplyInv ==
  ASSUME NEW T, TableInv(T), NEW d \in {"itch", "bats", "edge"}, NEW m, Handled(d, m)
  PROVE  TableInv(Apply(d, T, m))
<1>1. CASE m.type = "add"
  BY <1>1, OtherViews, AddInv DEF Handled
<1>2. CASE m.type \in {"execute", "cancel"}
  BY <1>2, TakeView
<1>3. CASE Removes(m)
  BY <1>3, OtherViews, DelInv DEF Handled
<1>4. CASE Sets(m)
  BY <1>4, OtherViews, SetInv DEF Handled
<1>5. CASE m.type = "replace"
  <2>1. TableInv(OrdDel(T, m.order_no))
    BY DelInv DEF Handled
  <2>2. m.new_order_no \in OrderNo
    BY <1>5 DEF Handled, OfDialect
  <2> QED
    BY <1>5, <2>1, <2>2, OtherViews, AddInv
<1> QED
  BY <1>1, <1>2, <1>3, <1>4, <1>5 DEF Handled, MsgTypes, Removes, Sets

-----------------------------------------------------------------------------
(* The exchange's book.                                                     *)

Books == [OrderNo -> [shares : 0..(ShareMod - 1), stock : OrderNo \cup {0}]]

\* A message the exchange may send when its book is b.
Legal(d, b, m) ==
  /\ OfDialect(d, m)
  /\ ~Removes(m) => m.shares \in Quantities
  /\ m.type = "add" => m.stock = m.order_no
  /\ m.type # "add" => b[m.order_no].shares > 0
  /\ m.type \in {"execute", "cancel"} => m.shares <= b[m.order_no].shares

\* The order that is new with a message.
Introduces(m, o) ==
  \/ m.type = "add" /\ o = m.order_no
  \/ m.type = "replace" /\ o = m.new_order_no

\* What a legal message does to the exchange's book.
LEMMA TradeView ==
  ASSUME NEW b \in Books, NEW m \in WireMsg, NEW d, Legal(d, b, m),
         \A p \in OrderNo : Introduces(m, p) => b[p].shares = 0
  PROVE  LET c == Trade(b, m)
             o == m.order_no
         IN
         /\ c \in Books
         /\ \A p \in OrderNo : p # o /\ ~Introduces(m, p) => c[p] = b[p]
         /\ m.type = "add" => c[o].shares = m.shares /\ c[o].stock = o
         /\ Sets(m) => c[o].shares = m.shares /\ c[o].stock = b[o].stock
         /\ m.type \in {"execute", "cancel"} =>
              /\ c[o].shares = b[o].shares - m.shares
              /\ c[o].shares > 0 => c[o].stock = b[o].stock
         /\ (Removes(m) \/ m.type = "replace") => c[o].shares = 0
         /\ m.type = "replace" =>
              /\ m.new_order_no \in OrderNo /\ m.new_order_no # o
              /\ c[m.new_order_no].shares = m.shares /\ c[m.new_order_no].stock = b[o].stock
<1> DEFINE c == Trade(b, m)
           o == m.order_no
           left == b[o].shares - m.shares
<1>1. /\ o \in OrderNo /\ m.type \in MsgTypes /\ m.stock \in OrderNo \cup {0}
      /\ b[o].shares \in 0..(ShareMod - 1) /\ b[o].stock \in OrderNo \cup {0} /\ m.shares \in Nat
      /\ b[o] = [shares |-> b[o].shares, stock |-> b[o].stock]
  BY DEF WireMsg, Books
<1>2. ~Removes(m) => m.shares \in 1..(ShareMod - 1)
  BY OrdersAssumption DEF Legal
<1> DEFINE Quote == [shares : 0..(ShareMod - 1), stock : OrderNo \cup {0}]
<1>3. CASE m.type = "add"
  <2> DEFINE q == [shares |-> m.shares, stock |-> m.stock]
  <2>1. c = [b EXCEPT ![o] = q]
    BY <1>3 DEF Trade
  <2>2. q \in Quote
    BY <1>1, <1>2, <1>3, Kinds
  <2>3. m.stock = o
    BY <1>3 DEF Legal
  <2> QED
    BY <1>1, <1>3, <2>1, <2>2, <2>3, Kinds DEF Books, Introduces
<1>4. CASE Sets(m)
  <2> DEFINE q == [shares |-> m.shares, stock |-> b[o].stock]
  <2>1. c = [b EXCEPT ![o] = q]
    <3>1. CASE m.type = "modify"
      <4>1. [b[o] EXCEPT !.shares = m.shares] = q
        BY <1>1
      <4> QED
        BY <1>1, <3>1, <4>1 DEF Trade, Books
    <3>2. CASE m.type = "price"
      BY <1>1, <1>4, <3>2 DEF Trade, Books, Sets
    <3> QED
      BY <1>4, <3>1, <3>2, Kinds
  <2>2. q \in Quote /\ q.shares = m.shares /\ q.stock = b[o].stock
    BY <1>1, <1>2, <1>4, Kinds
  <2>3. m.type \in {"modify", "price"} /\ ~Removes(m)
    BY <1>4, Kinds
  <2> HIDE DEF q
  <2> QED
    BY <1>1, <1>4, <2>1, <2>2, <2>3 DEF Books, Introduces
<1>5. CASE m.type \in {"execute", "cancel"}
  <2> DEFINE q == [shares |-> left, stock |-> IF left = 0 THEN 0 ELSE b[o].stock]
  <2>1. c = [b EXCEPT ![o] = q]
    BY <1>1, <1>5 DEF Trade, Books
  <2>2. left \in 0..(ShareMod - 1)
    BY <1>1, <1>5, TableAssumption DEF Legal
  <2>3. q \in Quote /\ q.shares = left /\ (left > 0 => q.stock = b[o].stock)
    BY <1>1, <2>2
  <2> HIDE DEF q
  <2> QED
    BY <1>1, <1>5, <2>1, <2>2, <2>3, Kinds DEF Books, Introduces
<1>6. CASE Removes(m)
  <2> DEFINE q == [shares |-> 0, stock |-> 0]
  <2>1. c = [b EXCEPT ![o] = q]
    <3>1. CASE m.type = "delete"
      BY <1>1, <3>1 DEF Trade, Books
    <3>2. CASE m.type = "price"
      <4>1. m.shares = 0
        BY <1>6, <3>2 DEF Removes
      <4> QED
        BY <1>1, <3>2, <4>1 DEF Trade, Books
    <3> QED
      BY <1>6, <3>1, <3>2, Kinds
  <2>2. q \in Quote /\ q.shares = 0
    BY TableAssumption
  <2>3. m.type \in {"delete", "price"} /\ ~Sets(m)
    BY <1>6, Kinds
  <2> HIDE DEF q
  <2> QED
    BY <1>1, <1>6, <2>1, <2>2, <2>3 DEF Books, Introduces
<1>7. CASE m.type = "replace"
  <2> DEFINE q == [shares |-> 0, stock |-> 0]
             r == [shares |-> m.shares, stock |-> b[o].stock]
             p == m.new_order_no
  <2>1. c = [[b EXCEPT ![o] = q] EXCEPT ![p] = r]
    BY <1>1, <1>7 DEF Trade, Books
  <2>2. q \in Quote /\ q.shares = 0 /\ r \in Quote /\ r.shares = m.shares /\ r.stock = b[o].stock
    BY <1>1, <1>2, <1>7, Kinds, TableAssumption
  <2>3. p \in OrderNo /\ p # o
    BY <1>1, <1>7 DEF Legal, OfDialect, Introduces
  <2> HIDE DEF q, r
  <2> QED
    BY <1>1, <1>7, <2>1, <2>2, <2>3, Kinds DEF Books, Introduces
<1> QED
  BY <1>1, <1>3, <1>4, <1>5, <1>6, <1>7 DEF MsgTypes, Removes, Sets

-----------------------------------------------------------------------------
(* What a message does to the orders held.                                  *)

\* The stock and the symbol an introduced order comes with.
NewStock(T, w) == IF w.type = "add" THEN w.stock
                  ELSE IF w.order_no \in Held(T) THEN Look(T, w.order_no).stock ELSE NULL

NewSym(T, w, x) == IF w.type = "add" THEN x
                   ELSE IF w.order_no \in Held(T) THEN Look(T, w.order_no).sym ELSE NULL

\* What one message does to the entries of the table, whichever handler takes it.
LEMMA StepView ==
  ASSUME NEW T, TableInv(T), NEW d \in {"itch", "bats", "edge"},
         NEW w \in WireMsg, OfDialect(d, w), NEW x \in OrderNo \cup {0},
         w.type = "replace" => w.new_order_no # w.order_no
  PROVE  LET U == Apply(d, T, WithSym(w, x))
             o == w.order_no
         IN
         /\ TableInv(U)
         /\ \A p \in Held(U) : p # o /\ ~Introduces(w, p) => p \in Held(T) /\ Look(U, p) = Look(T, p)
         /\ \A p \in Held(T) : p # o => p \in Held(U)
         /\ \A p \in Held(U) : Introduces(w, p) =>
              \/ p \in Held(T) /\ Look(U, p) = Look(T, p)
              \/ /\ p \notin Held(T) /\ Look(U, p).shares = w.shares
                 /\ Look(U, p).stock = NewStock(T, w) /\ Look(U, p).sym = NewSym(T, w, x)
         /\ w.type = "add" => /\ o \in Held(T) => o \in Held(U)
                              /\ T.free # <<>> => o \in Held(U)
         /\ (Removes(w) \/ w.type = "replace") => o \notin Held(U)
         /\ w.type = "replace" /\ o \in Held(T) => w.new_order_no \in Held(U)
         /\ Sets(w) /\ o \in Held(U) =>
              o \in Held(T) /\ Look(U, o) = Resized(Look(T, o), w.shares)
<1> DEFINE m == WithSym(w, x)
           U == Apply(d, T, m)
           o == w.order_no
<1>1. /\ m.type = w.type /\ m.order_no = o /\ m.shares = w.shares
      /\ m.new_order_no = w.new_order_no /\ m.stock = w.stock /\ m.sym = x
      /\ Handled(d, m)
  BY HandledFields
<1>2. o \in OrderNo /\ w.shares \in Nat /\ w.type \in MsgTypes
  BY DEF WireMsg
<1>8. (Removes(m) <=> Removes(w)) /\ (Sets(m) <=> Sets(w))
  BY <1>1, Kinds
<1> HIDE DEF m
<1>3. CASE w.type = "add"
  <2> DEFINE e == Entry(o, w.shares, w.stock, x)
  <2>1. U = OrdAdd(T, e) /\ e \in TableEntry /\ e.order_no = o
    BY <1>1, <1>3, OtherViews
  <2>2. e.shares = w.shares /\ e.stock = w.stock /\ e.sym = x
    BY DEF Entry
  <2> HIDE DEF e
  <2>3. /\ TableInv(U)
        /\ o \in Held(T) \/ T.free = <<>> =>
             Held(U) = Held(T) /\ \A p \in Held(T) : Look(U, p) = Look(T, p)
        /\ o \notin Held(T) /\ T.free # <<>> =>
             /\ Held(U) = Held(T) \cup {o}
             /\ Look(U, o) = e
             /\ \A p \in Held(T) : Look(U, p) = Look(T, p)
    BY <1>2, <2>1, AddInv
  <2> HIDE DEF U
  <2>4. /\ \A p : Introduces(w, p) <=> p = o
        /\ NewStock(T, w) = w.stock /\ NewSym(T, w, x) = x
    BY <1>3 DEF Introduces, NewStock, NewSym
  <2>5. \A p \in Held(U) : p # o => p \in Held(T) /\ Look(U, p) = Look(T, p)
    BY <2>3
  <2>6. Held(T) \subseteq Held(U)
    BY <2>3
  <2>7. o \in Held(U) =>
          \/ o \in Held(T) /\ Look(U, o) = Look(T, o)
          \/ o \notin Held(T) /\ Look(U, o) = e
    BY <2>3
  <2>8. T.free # <<>> => o \in Held(U)
    BY <2>3
  <2> QED
    BY <1>3, <2>2, <2>3, <2>4, <2>5, <2>6, <2>7, <2>8, Kinds DEF U, m
<1>4. CASE w.type \in {"execute", "cancel"}
  <2>1. TableInv(U) /\ \A p : ~Introduces(w, p)
    BY <1>1, <1>4, TakeView DEF Introduces
  <2>2. \A p : p # o => (p \in Held(U) <=> p \in Held(T)) /\ (p \in Held(T) => Look(U, p) = Look(T, p))
    <3>1. CASE o \notin Held(T)
      BY <1>1, <1>4, <3>1, TakeView
    <3>2. CASE o \in Held(T)
      <4> DEFINE n == Look(T, o).shares - w.shares
                 low == n % ShareMod
      <4>1. T.hash[o] # NULL /\ Shares(T, o) = Look(T, o).shares /\ Look(T, o) \in TableEntry
        BY <3>2, HeldChunks DEF Held, Shares, Look
      <4>2. n \in Int /\ low \in Nat
        BY <1>2, <4>1, Remainder DEF TableEntry
      <4>3. \/ U = T
            \/ U = SetShares(T, o, low) \/ U = OrdDel(SetShares(T, o, low), o)
            \/ n >= 0 /\ (U = SetShares(T, o, n) \/ U = OrdDel(SetShares(T, o, n), o))
        <5>1. m.shares > Shares(T, o) <=> n < 0
          BY <1>1, <1>2, <4>1 DEF TableEntry
        <5>2. CASE d = "itch"
          BY <1>1, <1>4, <4>1, <5>2 DEF Apply, ItchExecute, ItchCancel, OrdGet
        <5>3. CASE d = "bats"
          BY <1>1, <1>4, <4>1, <4>2, <5>1, <5>3 DEF Apply, BatsExecute, BatsReduce, OrdGet
        <5>4. CASE d = "edge"
          BY <1>1, <1>4, <4>1, <4>2, <5>4 DEF Apply, EdgeExecute, EdgeCancel, OrdGet
        <5> QED
          BY <5>2, <5>3, <5>4
      <4> HIDE DEF n, low, U
      <4>4. ASSUME NEW k \in Nat, NEW p, p # o
            PROVE  LET V == SetShares(T, o, k)
                       D == OrdDel(V, o)
                   IN  /\ p \in Held(V) <=> p \in Held(T)
                       /\ p \in Held(D) <=> p \in Held(T)
                       /\ p \in Held(T) => Look(V, p) = Look(T, p) /\ Look(D, p) = Look(T, p)
        <5> DEFINE V == SetShares(T, o, k)
        <5>1. TableInv(V) /\ Held(V) = Held(T) /\ \A q \in Held(T) : q # o => Look(V, q) = Look(T, q)
          BY <3>2, SetInv
        <5> HIDE DEF V
        <5>2. /\ Held(OrdDel(V, o)) = Held(V) \ {o}
              /\ \A q \in Held(OrdDel(V, o)) : Look(OrdDel(V, o), q) = Look(V, q)
          BY <1>2, <5>1, DelInv
        <5> QED
          BY <4>4, <5>1, <5>2 DEF V
      <4>5. n >= 0 => n \in Nat
        BY <4>2
      <4> QED
        BY <4>2, <4>3, <4>4, <4>5
    <3> QED
      BY <3>1, <3>2
  <2> QED
    BY <1>4, <2>1, <2>2, Kinds DEF m
<1>5. CASE Removes(w)
  <2>1. U = OrdDel(T, o)
    BY <1>1, <1>5, <1>8, OtherViews
  <2>2. TableInv(U) /\ Held(U) = Held(T) \ {o} /\ \A p \in Held(U) : Look(U, p) = Look(T, p)
    BY <1>2, <2>1, DelInv
  <2>3. \A p : ~Introduces(w, p)
    BY <1>5, Kinds DEF Introduces
  <2> QED
    BY <1>5, <2>2, <2>3, Kinds DEF m
<1>6. CASE Sets(w)
  <2>1. U = IF o \in Held(T) THEN SetShares(T, o, w.shares) ELSE T
    BY <1>1, <1>6, <1>8, OtherViews
  <2>2. \A p : ~Introduces(w, p)
    BY <1>6, Kinds DEF Introduces
  <2>3. CASE o \in Held(T)
    <3>1. /\ TableInv(U) /\ Held(U) = Held(T)
          /\ Look(U, o) = Resized(Look(T, o), w.shares)
          /\ \A p \in Held(T) : p # o => Look(U, p) = Look(T, p)
      BY <1>2, <2>1, <2>3, SetInv
    <3> QED
      BY <1>6, <2>2, <3>1, Kinds DEF m
  <2> QED
    BY <1>6, <2>1, <2>2, <2>3, Kinds DEF m
<1>7. CASE w.type = "replace"
  <2> DEFINE D == OrdDel(T, o)
             e == Carried(T, m)
             k == w.new_order_no
  <2>1. U = OrdAdd(D, e) /\ e \in TableEntry /\ e.order_no = k /\ e.shares = w.shares
    BY <1>1, <1>7, OtherViews
  <2>2. k \in OrderNo /\ k # o
    BY <1>7 DEF OfDialect
  <2>3. e.stock = NewStock(T, w) /\ e.sym = NewSym(T, w, x)
    <3> DEFINE from == IF o \in Held(T) THEN Look(T, o) ELSE Entry(0, 0, NULL, NULL)
    <3>1. from \in TableEntry
      BY HeldChunks DEF Entry, TableEntry, NULL
    <3>2. e = [from EXCEPT !.order_no = m.new_order_no, !.shares = m.shares]
      BY <1>1 DEF Carried
    <3>3. from.stock = NewStock(T, w) /\ from.sym = NewSym(T, w, x)
      BY <1>7 DEF NewStock, NewSym, Entry
    <3> HIDE DEF from, e
    <3> QED
      BY <3>1, <3>2, <3>3 DEF TableEntry
  <2>4. /\ TableInv(D) /\ Held(D) = Held(T) \ {o} /\ \A p \in Held(D) : Look(D, p) = Look(T, p)
        /\ o \in Held(T) => D.free # <<>>
    BY <1>2, DelInv
  <2> HIDE DEF D, e
  <2>5. /\ TableInv(U)
        /\ k \in Held(D) \/ D.free = <<>> =>
             Held(U) = Held(D) /\ \A p \in Held(D) : Look(U, p) = Look(D, p)
        /\ k \notin Held(D) /\ D.free # <<>> =>
             /\ Held(U) = Held(D) \cup {k}
             /\ Look(U, k) = e
             /\ \A p \in Held(D) : Look(U, p) = Look(D, p)
    BY <2>1, <2>2, <2>4, AddInv
  <2> HIDE DEF U
  <2>6. \A p : Introduces(w, p) <=> p = k
    BY <1>7 DEF Introduces
  <2>7. \A p \in Held(U) : p # k => p \in Held(T) /\ p # o /\ Look(U, p) = Look(T, p)
    BY <2>4, <2>5
  <2>8. \A p \in Held(T) : p # o => p \in Held(U)
    BY <2>4, <2>5
  <2>9. k \in Held(U) =>
          \/ k \in Held(T) /\ Look(U, k) = Look(T, k)
          \/ k \notin Held(T) /\ Look(U, k) = e
    BY <2>2, <2>4, <2>5
  <2>10. o \in Held(T) => k \in Held(U)
    BY <2>4, <2>5
  <2> QED
    BY <1>7, <2>1, <2>2, <2>3, <2>5, <2>6, <2>7, <2>8, <2>9, <2>10,
       Kinds DEF U, m
<1> QED
  BY <1>2, <1>3, <1>4, <1>5, <1>6, <1>7 DEF MsgTypes, Removes, Sets

-----------------------------------------------------------------------------
(* The table against a book.                                                *)

Sound(T, b) ==
  \A o \in Held(T) :
    /\ Look(T, o).shares = b[o].shares
    /\ b[o].shares > 0 => Look(T, o).stock \in {b[o].stock, NULL}
                          /\ Look(T, o).sym \in {b[o].stock, NULL}

LiveIn(b) == {o \in OrderNo : b[o].shares > 0}

Complete(T, b) ==
  /\ LiveIn(b) = Held(T)
  /\ \A o \in Held(T) : Look(T, o).stock = b[o].stock

\* A message that is legal for the book keeps the table true to it.
LEMMA SoundStep ==
  ASSUME NEW T, TableInv(T), NEW d \in {"itch", "bats", "edge"}, NEW b \in Books,
         NEW w \in WireMsg, Legal(d, b, w), NEW x \in {w.stock, NULL},
         \A p \in OrderNo : Introduces(w, p) => b[p].shares = 0 /\ p \notin Held(T),
         Sound(T, b)
  PROVE  Sound(Apply(d, T, WithSym(w, x)), Trade(b, w))
<1> DEFINE U == Apply(d, T, WithSym(w, x))
           c == Trade(b, w)
           o == w.order_no
<1>1. /\ c \in Books
      /\ \A p \in OrderNo : p # o /\ ~Introduces(w, p) => c[p] = b[p]
      /\ w.type = "add" => c[o].shares = w.shares /\ c[o].stock = o
      /\ Sets(w) => c[o].shares = w.shares /\ c[o].stock = b[o].stock
      /\ w.type \in {"execute", "cancel"} =>
           /\ c[o].shares = b[o].shares - w.shares
           /\ c[o].shares > 0 => c[o].stock = b[o].stock
      /\ (Removes(w) \/ w.type = "replace") => c[o].shares = 0
      /\ w.type = "replace" =>
           /\ w.new_order_no \in OrderNo /\ w.new_order_no # o
           /\ c[w.new_order_no].shares = w.shares /\ c[w.new_order_no].stock = b[o].stock
  BY TradeView
<1>2. /\ o \in OrderNo /\ w.shares \in Nat /\ w.type \in MsgTypes /\ OfDialect(d, w)
      /\ x \in OrderNo \cup {0}
  BY DEF WireMsg, Legal, NULL
<1>3. /\ TableInv(U)
      /\ \A p \in Held(U) : p # o /\ ~Introduces(w, p) => p \in Held(T) /\ Look(U, p) = Look(T, p)
      /\ \A p \in Held(U) : Introduces(w, p) =>
           \/ p \in Held(T) /\ Look(U, p) = Look(T, p)
           \/ /\ p \notin Held(T) /\ Look(U, p).shares = w.shares
              /\ Look(U, p).stock = NewStock(T, w) /\ Look(U, p).sym = NewSym(T, w, x)
      /\ (Removes(w) \/ w.type = "replace") => o \notin Held(U)
      /\ Sets(w) /\ o \in Held(U) =>
           o \in Held(T) /\ Look(U, o) = Resized(Look(T, o), w.shares)
  <2>1. (w.type = "replace" => w.new_order_no # o) /\ d \in {"itch", "bats", "edge"}
    BY <1>1
  <2> QED
    BY <1>2, <2>1, StepView
<1>4. w.type \in {"execute", "cancel"} /\ o \in Held(T) =>
        /\ Look(T, o).shares - w.shares \in 0..(ShareMod - 1)
        /\ o \in Held(U) => Look(U, o) = Resized(Look(T, o), Look(T, o).shares - w.shares)
  <2> SUFFICES ASSUME w.type \in {"execute", "cancel"}, o \in Held(T)
               PROVE  /\ Look(T, o).shares - w.shares \in 0..(ShareMod - 1)
                      /\ o \in Held(U) => Look(U, o) = Resized(Look(T, o), Look(T, o).shares - w.shares)
    OBVIOUS
  <2> DEFINE m == WithSym(w, x)
  <2>1. m.type = w.type /\ m.order_no = o /\ m.shares = w.shares /\ Handled(d, m)
    BY <1>2, HandledFields
  <2>2. Look(T, o).shares = b[o].shares /\ b[o].shares \in 0..(ShareMod - 1) /\ w.shares <= b[o].shares
    BY <1>2 DEF Sound, Books, Legal
  <2>3. Look(T, o).shares - w.shares \in 0..(ShareMod - 1)
    BY <1>2, <2>2, TableAssumption
  <2> HIDE DEF m
  <2>4. o \in Held(Apply(d, T, m)) =>
          Look(Apply(d, T, m), o) = Resized(Look(T, o), Look(T, o).shares - w.shares)
    BY <2>1, <2>3, TakeView
  <2> QED
    BY <2>3, <2>4 DEF m
<1>5. w.type \in {"execute", "cancel"} /\ o \in Held(U) => o \in Held(T)
  <2> DEFINE m == WithSym(w, x)
  <2>1. m.type = w.type /\ m.order_no = o /\ Handled(d, m)
    BY <1>2, HandledFields
  <2> HIDE DEF m
  <2>2. ASSUME w.type \in {"execute", "cancel"}, o \notin Held(T) PROVE Apply(d, T, m) = T
    BY <2>1, <2>2, TakeView
  <2> QED
    BY <2>2 DEF m
<1> SUFFICES ASSUME NEW p \in Held(U)
             PROVE  /\ Look(U, p).shares = c[p].shares
                    /\ c[p].shares > 0 => Look(U, p).stock \in {c[p].stock, NULL}
                                          /\ Look(U, p).sym \in {c[p].stock, NULL}
  BY DEF Sound
<1>6. p \in OrderNo
  BY DEF Held
<1> HIDE DEF U, c
<1>7. CASE p # o /\ ~Introduces(w, p)
  BY <1>1, <1>3, <1>6, <1>7 DEF Sound
<1>8. CASE Introduces(w, p)
  <2>1. /\ Look(U, p).shares = w.shares
        /\ Look(U, p).stock = NewStock(T, w) /\ Look(U, p).sym = NewSym(T, w, x)
    BY <1>3, <1>6, <1>8
  <2>2. CASE w.type = "add"
    <3>1. p = o /\ w.stock = o /\ NewStock(T, w) = o /\ NewSym(T, w, x) \in {o, NULL}
      BY <1>8, <2>2 DEF Introduces, Legal, NewStock, NewSym
    <3> QED
      BY <1>1, <2>1, <2>2, <3>1
  <2>3. CASE w.type = "replace"
    <3>1. p = w.new_order_no /\ b[o].shares > 0
      BY <1>8, <2>3 DEF Introduces, Legal
    <3>2. NewStock(T, w) \in {b[o].stock, NULL} /\ NewSym(T, w, x) \in {b[o].stock, NULL}
      BY <2>3, <3>1 DEF NewStock, NewSym, Sound
    <3> QED
      BY <1>1, <2>1, <2>3, <3>1, <3>2
  <2> QED
    BY <1>8, <2>2, <2>3 DEF Introduces
<1>9. CASE p = o /\ ~Introduces(w, p)
  <2>1. CASE w.type \in {"execute", "cancel"}
    <3>1. p \in Held(T) /\ Look(T, p) \in TableEntry
      BY <1>5, <1>9, <2>1, HeldChunks
    <3>2. /\ Look(U, p).shares = Look(T, p).shares - w.shares
          /\ Look(U, p).stock = Look(T, p).stock /\ Look(U, p).sym = Look(T, p).sym
      BY <1>4, <1>9, <2>1, <3>1 DEF TableEntry, Resized
    <3>3. Look(T, p).shares = b[p].shares /\ b[p].shares > 0
      BY <1>9, <2>1, <3>1 DEF Sound, Legal
    <3> QED
      BY <1>1, <1>9, <2>1, <3>1, <3>2, <3>3 DEF Sound
  <2>2. CASE Sets(w)
    <3>1. p \in Held(T) /\ Look(T, p) \in TableEntry
      BY <1>3, <1>9, <2>2, HeldChunks
    <3>2. /\ Look(U, p).shares = w.shares
          /\ Look(U, p).stock = Look(T, p).stock /\ Look(U, p).sym = Look(T, p).sym
      BY <1>2, <1>3, <1>9, <2>2, <3>1 DEF TableEntry, Resized
    <3>3. b[p].shares > 0
      BY <1>9, <2>2, Kinds DEF Legal
    <3> QED
      BY <1>1, <1>9, <2>2, <3>1, <3>2, <3>3 DEF Sound
  <2> QED
    BY <1>2, <1>3, <1>9, <2>1, <2>2 DEF MsgTypes, Introduces, Removes, Sets
<1> QED
  BY <1>7, <1>8, <1>9

\* A table with room for what is live misses nothing.
LEMMA CompleteStep ==
  ASSUME NEW T, TableInv(T), NEW d \in {"itch", "edge"}, NEW b \in Books,
         NEW w \in WireMsg, Legal(d, b, w), NEW x \in {w.stock, NULL},
         \A p \in OrderNo : Introduces(w, p) => b[p].shares = 0 /\ p \notin Held(T),
         Sound(T, b), Complete(T, b), Cardinality(LiveIn(Trade(b, w))) <= TableSize
  PROVE  Complete(Apply(d, T, WithSym(w, x)), Trade(b, w))
<1> DEFINE m == WithSym(w, x)
           U == Apply(d, T, m)
           c == Trade(b, w)
           o == w.order_no
<1>1. /\ c \in Books
      /\ \A p \in OrderNo : p # o /\ ~Introduces(w, p) => c[p] = b[p]
      /\ w.type = "add" => c[o].shares = w.shares /\ c[o].stock = o
      /\ w.type \in {"execute", "cancel"} =>
           /\ c[o].shares = b[o].shares - w.shares
           /\ c[o].shares > 0 => c[o].stock = b[o].stock
      /\ (Removes(w) \/ w.type = "replace") => c[o].shares = 0
      /\ w.type = "replace" =>
           /\ w.new_order_no \in OrderNo /\ w.new_order_no # o
           /\ c[w.new_order_no].shares = w.shares /\ c[w.new_order_no].stock = b[o].stock
  BY TradeView
<1>2. /\ o \in OrderNo /\ w.shares \in Nat /\ w.type \in MsgTypes /\ OfDialect(d, w)
      /\ x \in OrderNo \cup {0} /\ w.type \notin {"modify", "price"}
      /\ ~Removes(w) => w.shares > 0
  BY OrdersAssumption DEF WireMsg, Legal, NULL, OfDialect
<1>3. /\ TableInv(U)
      /\ \A p \in Held(U) : p # o /\ ~Introduces(w, p) => p \in Held(T) /\ Look(U, p) = Look(T, p)
      /\ \A p \in Held(T) : p # o => p \in Held(U)
      /\ \A p \in Held(U) : Introduces(w, p) =>
           \/ p \in Held(T) /\ Look(U, p) = Look(T, p)
           \/ /\ p \notin Held(T) /\ Look(U, p).shares = w.shares
              /\ Look(U, p).stock = NewStock(T, w) /\ Look(U, p).sym = NewSym(T, w, x)
      /\ w.type = "add" => /\ o \in Held(T) => o \in Held(U)
                           /\ T.free # <<>> => o \in Held(U)
      /\ (Removes(w) \/ w.type = "replace") => o \notin Held(U)
      /\ w.type = "replace" /\ o \in Held(T) => w.new_order_no \in Held(U)
  <2>1. (w.type = "replace" => w.new_order_no # o) /\ d \in {"itch", "bats", "edge"}
    BY <1>1
  <2> QED
    BY <1>2, <2>1, StepView
<1>4. w.type \in {"execute", "cancel"} =>
        /\ o \in Held(T)
        /\ Held(U) = IF b[o].shares - w.shares = 0 THEN Held(T) \ {o} ELSE Held(T)
        /\ o \in Held(U) => Look(U, o).stock = Look(T, o).stock
  <2> SUFFICES ASSUME w.type \in {"execute", "cancel"}
               PROVE  /\ o \in Held(T)
                      /\ Held(U) = IF b[o].shares - w.shares = 0 THEN Held(T) \ {o} ELSE Held(T)
                      /\ o \in Held(U) => Look(U, o).stock = Look(T, o).stock
    OBVIOUS
  <2>1. m.type = w.type /\ m.order_no = o /\ m.shares = w.shares /\ Handled(d, m)
    BY <1>2, HandledFields
  <2>2. o \in Held(T)
    BY <1>2 DEF Complete, LiveIn, Legal
  <2>3. /\ Look(T, o).shares = b[o].shares /\ b[o].shares \in 0..(ShareMod - 1)
        /\ w.shares <= b[o].shares /\ Look(T, o) \in TableEntry
    BY <1>2, <2>2, HeldChunks DEF Sound, Books, Legal
  <2>4. Look(T, o).shares - w.shares \in 0..(ShareMod - 1)
    BY <1>2, <2>3, TableAssumption
  <2> HIDE DEF m
  <2>5. /\ Held(U) = IF Look(T, o).shares - w.shares = 0 /\ d # "bats" THEN Held(T) \ {o} ELSE Held(T)
        /\ o \in Held(U) => Look(U, o) = Resized(Look(T, o), Look(T, o).shares - w.shares)
    BY <2>1, <2>2, <2>4, TakeView
  <2>6. Held(U) = IF b[o].shares - w.shares = 0 THEN Held(T) \ {o} ELSE Held(T)
    BY <2>3, <2>5
  <2>7. o \in Held(U) => Look(U, o).stock = Look(T, o).stock
    BY <2>3, <2>5 DEF TableEntry, Resized
  <2> QED
    BY <2>2, <2>6, <2>7
<1> HIDE DEF U, c
<1>5. ASSUME NEW p \in OrderNo
      PROVE  /\ p \in Held(U) <=> c[p].shares > 0
             /\ p \in Held(U) => Look(U, p).stock = c[p].stock
  <2>1. CASE p # o /\ ~Introduces(w, p)
    BY <1>1, <1>3, <2>1 DEF Complete, LiveIn
  <2>2. CASE w.type = "add" /\ p = o
    <3>1. p \notin Held(T) /\ c[p].shares > 0 /\ c[p].stock = p /\ w.stock = o
      BY <1>1, <1>2, <2>2, Kinds DEF Introduces, Legal
    <3>2. p \in Held(U)
      <4> SUFFICES T.free # <<>>
        BY <1>3, <2>2
      <4>1. LiveIn(c) = Held(T) \cup {o}
        BY <1>1, <1>2, <2>2, <3>1 DEF LiveIn, Complete, Introduces
      <4>2. Cardinality(Held(T) \cup {o}) = Cardinality(Held(T)) + 1
        BY <2>2, <3>1, FS_AddElement DEF TableInv
      <4>3. Cardinality(Held(T)) + 1 <= TableSize
        BY <4>1, <4>2 DEF c
      <4>4. Cardinality(Held(T)) + Len(T.free) = TableSize /\ Cardinality(Held(T)) \in Nat
        BY DEF TableInv, TableType
      <4>5. Len(T.free) # 0
        BY <4>3, <4>4, TableAssumption
      <4> QED
        BY <4>5
    <3>3. Look(U, p).stock = w.stock
      BY <1>3, <2>2, <3>1, <3>2 DEF Introduces, NewStock
    <3> QED
      BY <2>2, <3>1, <3>2, <3>3
  <2>3. CASE w.type = "replace" /\ p = w.new_order_no
    <3>1. p \notin Held(T) /\ c[p].shares > 0 /\ c[p].stock = b[o].stock
      BY <1>1, <1>2, <2>3, Kinds DEF Introduces
    <3>2. o \in Held(T)
      BY <1>2, <2>3 DEF Complete, LiveIn, Legal
    <3>3. p \in Held(U)
      BY <1>3, <2>3, <3>2
    <3>4. Look(U, p).stock = b[o].stock
      BY <1>3, <2>3, <3>1, <3>2, <3>3 DEF Introduces, NewStock, Complete
    <3> QED
      BY <3>1, <3>3, <3>4
  <2>4. CASE w.type \in {"execute", "cancel"} /\ p = o
    <3>1. b[o].shares > 0 /\ w.shares <= b[o].shares /\ b[o].shares \in 0..(ShareMod - 1)
      BY <1>2, <2>4 DEF Legal, Books
    <3>2. c[p].shares > 0 <=> b[o].shares - w.shares # 0
      BY <1>1, <1>2, <2>4, <3>1, TableAssumption
    <3>3. p \in Held(U) <=> c[p].shares > 0
      BY <1>4, <2>4, <3>2
    <3>4. p \in Held(U) => Look(U, p).stock = b[p].stock
      BY <1>4, <2>4 DEF Complete
    <3> QED
      BY <1>1, <2>4, <3>3, <3>4
  <2>5. CASE (Removes(w) \/ w.type = "replace") /\ p = o
    BY <1>1, <1>3, <2>5
  <2> QED
    BY <1>2, <2>1, <2>2, <2>3, <2>4, <2>5 DEF MsgTypes, Introduces, Removes, Sets
<1>6. Held(U) \subseteq OrderNo
  BY DEF Held
<1> QED
  BY <1>5, <1>6 DEF Complete, LiveIn, U, c, m

-----------------------------------------------------------------------------
(* The inductive invariant.                                                 *)

Seen(o, k) == \E i \in 1..k : o = wire[i].order_no \/ o = wire[i].new_order_no

\* Every message was legal for the book before it, and what it introduced had
\* not been heard of.
WireInv ==
  /\ wire \in Seq(WireMsg)
  /\ \A k \in 0..Len(wire) :
       /\ Book(k) \in Books
       /\ \A o \in OrderNo : Book(k)[o].shares > 0 => Seen(o, k)
  /\ \A i \in 1..Len(wire) :
       /\ Legal(dialect, Book(i - 1), wire[i])
       /\ \A o \in OrderNo : Introduces(wire[i], o) => ~Seen(o, i - 1)

\* While the line keeps its turn the table follows the book.
TableFollows ==
  turn => /\ \A o \in Held(table) : Seen(o, next - 1)
          /\ Sound(table, Book(next - 1))
          /\ (dialect # "bats" /\ \A k \in 0..(next - 1) : Cardinality(LiveIn(Book(k))) <= TableSize)
               => Complete(table, Book(next - 1))

OrdersInv ==
  /\ dialect \in Dialects /\ turn \in BOOLEAN /\ refused \in BOOLEAN
  /\ WireInv
  /\ next \in 1..(Len(wire) + 1) /\ open \subseteq 1..(next - 1)
  /\ TableInv(table)
  /\ TableFollows

\* The shares of order o that executions and cancels take, one pair per share,
\* and those of them in messages that have not been processed.
Taken(o) ==
  {t \in (1..Len(wire)) \X (1..ShareMod) :
     /\ wire[t[1]].type \in {"execute", "cancel"} /\ wire[t[1]].order_no = o
     /\ t[2] <= wire[t[1]].shares}

Done(i) == i \in SeqNo /\ processed[i] > 0

Owed(o) == {t \in Taken(o) : ~Done(t[1])}

\* Numbers that are still to come, or open, have not been processed.
Untouched ==
  \A s \in Nat : s \in SeqNo /\ (s >= next \/ s \in open) => processed[s] = 0

\* What the exchange has taken and may take from an order is what the order
\* was introduced with.
TakenBounded ==
  \A i \in 1..Len(wire), o \in OrderNo : Introduces(wire[i], o) =>
    Cardinality(Taken(o)) + Book(Len(wire))[o].shares <= wire[i].shares

\* What it has taken and the table does not know of yet is in the table.
OwedHeld ==
  \A o \in Held(table) :
    /\ Cardinality(Owed(o)) + Book(Len(wire))[o].shares <= Look(table, o).shares
    /\ \E q \in Quantities : Look(table, o).shares <= q

SharesInv ==
  /\ processed \in [SeqNo -> Nat] /\ Untouched
  /\ \A o \in Held(table) : Seen(o, Len(wire))
  /\ dialect # "bats" => TakenBounded /\ (~refused => OwedHeld)

-----------------------------------------------------------------------------
(* The book, message by message.                                            *)

BF == INSTANCE LeftFold WITH Op <- Trade

\* The book after the first k messages of a wire.
BookOf(v, k) == BF!Fold(EmptyBook, SubSeq(v, 1, k))

\* The book is a function of the messages sent.
LEMMA BookIsFold == \A k : Book(k) = BookOf(wire, k) /\ Book(k)' = BookOf(wire', k)
  BY DEF Book, BookOf, BF!Fold, FoldLeft, MapThenFoldSet, BF!FoldLeft, BF!MapThenFoldSet, BF!Max, Max

\* The book after one message more is one trade further.
LEMMA BookSteps ==
  ASSUME NEW v \in Seq(WireMsg)
  PROVE  /\ BookOf(v, 0) = EmptyBook
         /\ \A k \in 1..Len(v) : BookOf(v, k) = Trade(BookOf(v, k - 1), v[k])
<1> DEFINE pre(k) == SubSeq(v, 1, k)
<1>1. \A k \in 0..Len(v) : DOMAIN pre(k) = 1..k /\ \A i \in 1..k : pre(k)[i] = v[i]
  OBVIOUS
<1>2. BookOf(v, 0) = EmptyBook
  <2>1. DOMAIN pre(0) = {}
    BY <1>1
  <2> HIDE DEF pre
  <2>2. BF!Fold(EmptyBook, pre(0)) = EmptyBook
    BY <2>1, BF!FoldEmpty
  <2> QED
    BY <2>2 DEF pre, BookOf
<1>3. ASSUME NEW k \in 1..Len(v) PROVE BookOf(v, k) = Trade(BookOf(v, k - 1), v[k])
  <2> DEFINE n == k - 1
             short == pre(n)
             longer == pre(n + 1)
  <2>1. n \in Nat /\ n \in 0..Len(v) /\ n + 1 \in 0..Len(v) /\ n + 1 = k
    OBVIOUS
  <2> HIDE DEF n
  <2>2. /\ DOMAIN short = 1..n /\ DOMAIN longer = 1..(n + 1)
        /\ \A i \in 1..n : longer[i] = short[i]
        /\ longer[n + 1] = v[n + 1]
    BY <1>1, <2>1
  <2> HIDE DEF short, longer
  <2>3. BF!Fold(EmptyBook, longer) = Trade(BF!Fold(EmptyBook, short), longer[n + 1])
    BY <2>1, <2>2, BF!FoldSteps
  <2>4. BookOf(v, n + 1) = BF!Fold(EmptyBook, longer) /\ BookOf(v, n) = BF!Fold(EmptyBook, short)
    BY DEF BookOf, short, longer
  <2>5. BookOf(v, n + 1) = Trade(BookOf(v, n), v[n + 1])
    BY <2>2, <2>3, <2>4
  <2> QED
    BY <2>1, <2>5 DEF n
<1> QED
  BY <1>2, <1>3

\* What has been sent stays, and so do the books of the past.
LEMMA BookStays ==
  ASSUME wire \in Seq(WireMsg), NEW m, wire' = Append(wire, m)
  PROVE  \A k \in 0..Len(wire) : Book(k)' = Book(k)
<1> SUFFICES ASSUME NEW k \in 0..Len(wire) PROVE Book(k)' = Book(k)
  OBVIOUS
<1>1. SubSeq(wire', 1, k) = SubSeq(wire, 1, k)
  OBVIOUS
<1> QED
  BY <1>1 DEF Book

\* While nothing is sent the book stays.
LEMMA BookSame ==
  ASSUME UNCHANGED wire
  PROVE  \A k : Book(k)' = Book(k)
  BY DEF Book

-----------------------------------------------------------------------------
(* The exchange keeps its part.                                             *)

\* What the exchange may send is legal for its book.
LEMMA SendableLegal ==
  ASSUME dialect \in Dialects, WireInv, NEW m \in Sendable
  PROVE  /\ m \in WireMsg
         /\ Legal(dialect, Book(Len(wire)), m)
         /\ \A o \in OrderNo : Introduces(m, o) => o \in Fresh
<1> DEFINE n == Len(wire)
           left == Book(n)
           first == {o \in Fresh : \A p \in Fresh : o <= p}
<1>1. /\ \A q \in Quantities : q \in Nat
      /\ Live(n) \subseteq OrderNo /\ Fresh \subseteq OrderNo
      /\ \A o \in Live(n) : left[o].shares > 0
  BY OrdersAssumption DEF Live, Fresh
<1>2. ASSUME NEW t \in MsgTypes, NEW o \in OrderNo, NEW k \in Nat, NEW p \in OrderNo \cup {0}
      PROVE  /\ Msg(t, o, k, p) \in WireMsg
             /\ Msg(t, o, k, p).type = t /\ Msg(t, o, k, p).order_no = o
             /\ Msg(t, o, k, p).shares = k /\ Msg(t, o, k, p).new_order_no = p
             /\ Msg(t, o, k, p).stock = IF t = "add" THEN o ELSE 0
  BY DEF Msg, WireMsg
<1> HIDE DEF n
<1> HIDE DEF left
<1>3. CASE m \in {Msg("add", o, q, 0) : o \in first, q \in Quantities}
  <2>1. PICK o \in first, q \in Quantities : m = Msg("add", o, q, 0)
    BY <1>3
  <2>2. "add" \in MsgTypes /\ o \in OrderNo /\ o \in Fresh /\ q \in Nat /\ 0 \in OrderNo \cup {0}
    BY <1>1 DEF MsgTypes
  <2>3. /\ m \in WireMsg /\ m.type = "add" /\ m.order_no = o /\ m.shares = q /\ m.stock = o
    BY <1>2, <2>1, <2>2
  <2> QED
    BY <2>2, <2>3 DEF Legal, OfDialect, Introduces
<1>4. CASE m \in {r \in {Msg(t, o, q, 0) : t \in {"execute", "cancel"}, o \in Live(n), q \in Quantities} :
                    r.shares <= left[r.order_no].shares}
  <2>1. PICK t \in {"execute", "cancel"}, o \in Live(n), q \in Quantities : m = Msg(t, o, q, 0)
    BY <1>4
  <2>2. t \in MsgTypes /\ o \in OrderNo /\ q \in Nat /\ 0 \in OrderNo \cup {0} /\ left[o].shares > 0
    BY <1>1 DEF MsgTypes
  <2>3. m \in WireMsg /\ m.type = t /\ m.order_no = o /\ m.shares = q
    BY <1>2, <2>1, <2>2
  <2>4. m.shares <= left[m.order_no].shares
    BY <1>4
  <2> QED
    BY <2>2, <2>3, <2>4 DEF Legal, OfDialect, Introduces, left, n
<1>5. CASE dialect # "edge" /\ m \in {Msg("delete", o, 0, 0) : o \in Live(n)}
  <2>1. PICK o \in Live(n) : m = Msg("delete", o, 0, 0)
    BY <1>5
  <2>2. "delete" \in MsgTypes /\ o \in OrderNo /\ 0 \in Nat /\ 0 \in OrderNo \cup {0} /\ left[o].shares > 0
    BY <1>1 DEF MsgTypes
  <2>3. m \in WireMsg /\ m.type = "delete" /\ m.order_no = o
    BY <1>2, <2>1, <2>2
  <2> QED
    BY <1>5, <2>2, <2>3 DEF Legal, OfDialect, Introduces, Removes, left, n
<1>6. CASE dialect = "itch"
           /\ m \in {Msg("replace", o, q, p) : o \in Live(n), q \in Quantities, p \in first}
  <2>1. PICK o \in Live(n), q \in Quantities, p \in first : m = Msg("replace", o, q, p)
    BY <1>6
  <2>2. /\ "replace" \in MsgTypes /\ o \in OrderNo /\ q \in Nat /\ p \in OrderNo \cup {0}
        /\ left[o].shares > 0 /\ p \in OrderNo /\ p \in Fresh
    BY <1>1 DEF MsgTypes
  <2>3. m \in WireMsg /\ m.type = "replace" /\ m.order_no = o /\ m.shares = q /\ m.new_order_no = p
    BY <1>2, <2>1, <2>2
  <2> QED
    BY <1>6, <2>2, <2>3 DEF Legal, OfDialect, Introduces, left, n
<1>7. CASE dialect = "bats" /\ m \in {Msg("modify", o, q, 0) : o \in Live(n), q \in Quantities}
  <2>1. PICK o \in Live(n), q \in Quantities : m = Msg("modify", o, q, 0)
    BY <1>7
  <2>2. "modify" \in MsgTypes /\ o \in OrderNo /\ q \in Nat /\ 0 \in OrderNo \cup {0} /\ left[o].shares > 0
    BY <1>1 DEF MsgTypes
  <2>3. m \in WireMsg /\ m.type = "modify" /\ m.order_no = o /\ m.shares = q
    BY <1>2, <2>1, <2>2
  <2> QED
    BY <1>7, <2>2, <2>3 DEF Legal, OfDialect, Introduces, left, n
<1>8. CASE /\ dialect = "bats"
           /\ m \in {Msg("price", o, q, 0) : o \in Live(n), q \in Quantities \cup {0}}
  <2>1. PICK o \in Live(n), q \in Quantities \cup {0} : m = Msg("price", o, q, 0)
    BY <1>8
  <2>2. "price" \in MsgTypes /\ o \in OrderNo /\ q \in Nat /\ 0 \in OrderNo \cup {0} /\ left[o].shares > 0
    BY <1>1 DEF MsgTypes
  <2>3. m \in WireMsg /\ m.type = "price" /\ m.order_no = o /\ m.shares = q
    BY <1>2, <2>1, <2>2
  <2> QED
    BY <1>8, <2>2, <2>3 DEF Legal, OfDialect, Introduces, Removes, left, n
<1> QED
  BY <1>3, <1>4, <1>5, <1>6, <1>7, <1>8 DEF Sendable, left, n

\* Sending keeps the wire and its books in order.
LEMMA SendKeepsWire ==
  ASSUME dialect \in Dialects, WireInv, NEW m \in Sendable, Send(m)
  PROVE  /\ WireInv'
         /\ Len(wire') = Len(wire) + 1 /\ wire'[Len(wire) + 1] = m
         /\ \A i \in 1..Len(wire) : wire'[i] = wire[i]
         /\ \A k \in 0..Len(wire) : Book(k)' = Book(k)
         /\ \A k : k = Len(wire) + 1 => Book(k)' = Trade(Book(Len(wire)), m)
         /\ \A o \in OrderNo : Introduces(m, o) => Book(Len(wire))[o].shares = 0
         /\ \A o, k : k \in 0..Len(wire) => (Seen(o, k)' <=> Seen(o, k))
<1> DEFINE n == Len(wire)
           b == Book(n)
<1>1. n \in Nat /\ wire \in Seq(WireMsg) /\ wire' = Append(wire, m) /\ dialect' = dialect
  BY DEF WireInv, Send
<1>2. /\ m \in WireMsg /\ Legal(dialect, b, m)
      /\ \A o \in OrderNo : Introduces(m, o) => o \in Fresh
  BY SendableLegal
<1>3. /\ wire' \in Seq(WireMsg) /\ Len(wire') = n + 1 /\ wire'[n + 1] = m
      /\ \A i \in 1..n : wire'[i] = wire[i]
  BY <1>1, <1>2
<1>4. \A k \in 0..n : Book(k)' = Book(k)
  BY <1>1, BookStays
<1>5. \A k : k = n + 1 => Book(k)' = Trade(b, m)
  <2> DEFINE v == wire'
             k == n + 1
  <2>1. k \in 1..Len(v) /\ v \in Seq(WireMsg) /\ v[k] = m /\ k - 1 = n
    BY <1>1, <1>3
  <2> HIDE DEF v
  <2>2. BookOf(v, k) = Trade(BookOf(v, k - 1), v[k])
    <3> HIDE DEF k
    <3> QED
      BY <2>1, BookSteps
  <2>3. BookOf(v, n) = b
    BY <1>1, <1>4, BookIsFold DEF v
  <2>4. BookOf(v, k) = Trade(b, m)
    BY <2>1, <2>2, <2>3
  <2> QED
    BY <2>4, BookIsFold DEF v
<1>6. \A o \in Fresh : ~Seen(o, n)
  <2> SUFFICES ASSUME NEW o \in Fresh, NEW i \in 1..n
               PROVE  o # wire[i].order_no /\ o # wire[i].new_order_no
    BY DEF Seen
  <2>1. wire[i].order_no \in Nat /\ wire[i].new_order_no \in Nat /\ o \in Nat
    <3>1. wire[i] \in WireMsg /\ o \in OrderNo
      BY <1>1 DEF Fresh
    <3>2. wire[i].order_no \in OrderNo /\ wire[i].new_order_no \in OrderNo \cup {0}
      BY <3>1 DEF WireMsg
    <3>3. OrderNo \cup {0} \subseteq Nat
      BY TableAssumption
    <3> QED
      BY <3>1, <3>2, <3>3
  <2>2. o > wire[i].order_no /\ o > wire[i].new_order_no
    BY DEF Fresh
  <2> QED
    BY <2>1, <2>2
<1>7. b \in Books /\ \A o \in OrderNo : b[o].shares > 0 => Seen(o, n)
  BY <1>1 DEF WireInv
<1>8. \A o \in OrderNo : Introduces(m, o) => b[o].shares = 0 /\ ~Seen(o, n)
  BY <1>2, <1>6, <1>7 DEF Books
<1>9. \A o, k : k \in 0..n => (Seen(o, k)' <=> Seen(o, k))
  BY <1>3 DEF Seen
<1> HIDE DEF n, b
<1> DEFINE c == Trade(b, m)
<1>10. c \in Books /\ \A o \in OrderNo : c[o].shares > 0 =>
         Seen(o, n) \/ o = m.order_no \/ o = m.new_order_no
  <2>1. /\ c \in Books
        /\ \A p \in OrderNo : p # m.order_no /\ ~Introduces(m, p) => c[p] = b[p]
    BY <1>2, <1>7, <1>8, TradeView
  <2>2. \A p : Introduces(m, p) => p = m.order_no \/ p = m.new_order_no
    BY DEF Introduces
  <2> HIDE DEF c
  <2> QED
    BY <1>7, <2>1, <2>2
<1>11. ASSUME NEW o, o = m.order_no \/ o = m.new_order_no \/ Seen(o, n), NEW k, k = n + 1
       PROVE  Seen(o, k)'
  <2>1. CASE Seen(o, n)
    <3>1. PICK i \in 1..n : o = wire[i].order_no \/ o = wire[i].new_order_no
      BY <2>1 DEF Seen
    <3>2. i \in 1..k /\ wire'[i] = wire[i]
      BY <1>1, <1>3, <1>11, <3>1 DEF n
    <3> QED
      BY <3>1, <3>2 DEF Seen
  <2>2. CASE o = m.order_no \/ o = m.new_order_no
    <3>1. k \in 1..k /\ wire'[k] = m
      BY <1>1, <1>3, <1>11 DEF n
    <3> QED
      BY <2>2, <3>1 DEF Seen
  <2> QED
    BY <1>11, <2>1, <2>2
<1>12. ASSUME NEW k \in 0..(n + 1)
       PROVE  /\ Book(k)' \in Books
              /\ \A o \in OrderNo : Book(k)'[o].shares > 0 => Seen(o, k)'
  <2>1. CASE k = n + 1
    BY <1>5, <1>10, <1>11, <2>1
  <2>2. CASE k \in 0..n
    BY <1>4, <1>9, <2>2 DEF WireInv, n
  <2> QED
    BY <1>1, <2>1, <2>2 DEF n
<1>13. ASSUME NEW i \in 1..(n + 1)
       PROVE  /\ Legal(dialect, (Book(i - 1))', wire'[i])
              /\ \A o \in OrderNo : Introduces(wire'[i], o) => ~(Seen(o, i - 1)')
  <2>1. CASE i = n + 1
    <3>1. i - 1 = n /\ n \in 0..n
      BY <1>1, <2>1 DEF n
    <3>2. (Book(i - 1))' = b /\ wire'[i] = m
      BY <1>3, <1>4, <2>1, <3>1 DEF b
    <3> QED
      BY <1>2, <1>8, <1>9, <3>1, <3>2
  <2>2. CASE i \in 1..n
    <3>1. i - 1 \in 0..n
      BY <1>1, <2>2
    <3>2. (Book(i - 1))' = Book(i - 1) /\ wire'[i] = wire[i]
      BY <1>3, <1>4, <2>2, <3>1
    <3> QED
      BY <1>9, <2>2, <3>1, <3>2 DEF WireInv, n
  <2> QED
    BY <1>1, <2>1, <2>2 DEF n
<1>14. WireInv'
  BY <1>1, <1>3, <1>12, <1>13 DEF WireInv
<1> QED
  BY <1>3, <1>4, <1>5, <1>8, <1>9, <1>14 DEF n, b

-----------------------------------------------------------------------------
(* Every step keeps the invariant.                                          *)

\* An empty table behind an idle exchange satisfies the invariant.
LEMMA InitKeeps == Init => OrdersInv
<1> SUFFICES ASSUME Init PROVE OrdersInv
  OBVIOUS
<1>1. wire = <<>> /\ Len(wire) = 0 /\ wire \in Seq(WireMsg) /\ next = 1 /\ table = NewTable
  BY DEF Init, ArbiterInit
<1>2. TableInv(table) /\ Held(table) = {}
  BY <1>1, NewTableInv
<1>3. Book(0) = EmptyBook
  BY <1>1, BookSteps, BookIsFold
<1>4. EmptyBook \in Books /\ \A o \in OrderNo : EmptyBook[o].shares = 0
  BY TableAssumption DEF EmptyBook, Books
<1>5. WireInv
  BY <1>1, <1>3, <1>4 DEF WireInv
<1>6. TableFollows
  <2>1. LiveIn(EmptyBook) = {} /\ next - 1 = 0
    BY <1>1, <1>4 DEF LiveIn
  <2> QED
    BY <1>2, <1>3, <2>1 DEF TableFollows, Sound, Complete
<1>7. dialect \in Dialects /\ turn \in BOOLEAN /\ refused \in BOOLEAN
  BY Zenon DEF Init
<1>8. next \in 1..(Len(wire) + 1) /\ open \subseteq 1..(next - 1)
  BY <1>1 DEF Init, ArbiterInit
<1> QED
  BY <1>2, <1>5, <1>6, <1>7, <1>8 DEF OrdersInv

\* A handler's update is one message applied with its symbol or without.
LEMMA UpdateApplies ==
  ASSUME dialect \in Dialects, WireInv, NEW s \in 1..Len(wire), Update(s)
  PROVE  /\ dialect \in {"itch", "bats", "edge"}
         /\ wire[s] \in WireMsg /\ Legal(dialect, Book(s - 1), wire[s])
         /\ Book(s - 1) \in Books
         /\ \E x \in {wire[s].stock, NULL} : table' = Apply(dialect, table, WithSym(wire[s], x))
         /\ \A p \in OrderNo : Introduces(wire[s], p) => Book(s - 1)[p].shares = 0 /\ ~Seen(p, s - 1)
         /\ wire[s].type = "replace" => wire[s].new_order_no # wire[s].order_no
         /\ Book(s) = Trade(Book(s - 1), wire[s])
<1>1. dialect \in {"itch", "bats", "edge"}
  BY OrdersAssumption
<1>2. wire \in Seq(WireMsg) /\ wire[s] \in WireMsg /\ s - 1 \in 0..Len(wire)
  BY DEF WireInv
<1>3. /\ Legal(dialect, Book(s - 1), wire[s])
      /\ Book(s - 1) \in Books
      /\ \A p \in OrderNo : Book(s - 1)[p].shares > 0 => Seen(p, s - 1)
      /\ \A p \in OrderNo : Introduces(wire[s], p) => ~Seen(p, s - 1)
  BY <1>2 DEF WireInv
<1>4. \A p \in OrderNo : Introduces(wire[s], p) => Book(s - 1)[p].shares = 0
  <2> SUFFICES ASSUME NEW p \in OrderNo, Introduces(wire[s], p) PROVE Book(s - 1)[p].shares = 0
    OBVIOUS
  <2>1. ~(Book(s - 1)[p].shares > 0)
    BY <1>3
  <2>2. Book(s - 1)[p].shares \in Nat
    BY <1>3, TableAssumption DEF Books
  <2> QED
    BY <2>1, <2>2
<1>5. \E x \in {wire[s].stock, NULL} : table' = Apply(dialect, table, WithSym(wire[s], x))
  BY DEF Update, WithSym
<1>6. wire[s].type = "replace" => wire[s].new_order_no # wire[s].order_no
  <2> SUFFICES ASSUME wire[s].type = "replace" PROVE wire[s].new_order_no # wire[s].order_no
    OBVIOUS
  <2>1. wire[s].new_order_no \in OrderNo /\ Book(s - 1)[wire[s].order_no].shares > 0
    BY <1>3 DEF Legal, OfDialect
  <2>2. Book(s - 1)[wire[s].new_order_no].shares = 0
    BY <1>4, <2>1 DEF Introduces
  <2> QED
    BY <2>1, <2>2
<1>7. Book(s) = Trade(Book(s - 1), wire[s])
  BY <1>2, BookSteps, BookIsFold
<1> QED
  BY <1>1, <1>2, <1>3, <1>4, <1>5, <1>6, <1>7

\* A message changes the table at its own order numbers only, and keeps it sound.
LEMMA UpdateKeepsTable ==
  ASSUME dialect \in Dialects, WireInv, TableInv(table), NEW s \in 1..Len(wire), Update(s)
  PROVE  /\ TableInv(table')
         /\ \A p \in Held(table') : p \in Held(table) \/ p = wire[s].order_no \/ p = wire[s].new_order_no
<1> DEFINE w == wire[s]
<1>1. /\ dialect \in {"itch", "bats", "edge"} /\ w \in WireMsg /\ OfDialect(dialect, w)
      /\ w.type = "replace" => w.new_order_no # w.order_no
  BY UpdateApplies DEF Legal
<1>2. PICK x \in {w.stock, NULL} : table' = Apply(dialect, table, WithSym(w, x))
  BY UpdateApplies
<1>3. x \in OrderNo \cup {0}
  BY <1>1 DEF WireMsg, NULL
<1> HIDE DEF w
<1> DEFINE U == Apply(dialect, table, WithSym(w, x))
<1>4. /\ TableInv(U)
      /\ \A p \in Held(U) : p # w.order_no /\ ~Introduces(w, p) => p \in Held(table)
  BY <1>1, <1>3, StepView
<1>5. \A p : Introduces(w, p) => p = w.order_no \/ p = w.new_order_no
  BY DEF Introduces
<1> HIDE DEF U
<1>6. table' = U
  BY <1>2 DEF U
<1> QED
  BY <1>4, <1>5, <1>6 DEF w

\* A message processed in its turn takes the table from one book to the next.
LEMMA TurnKeeps ==
  ASSUME OrdersInv, turn, next \in 1..Len(wire), Update(next), wire' = wire, dialect' = dialect,
         next' = next + 1
  PROVE  TableFollows'
<1> DEFINE w == wire[next]
           b == Book(next - 1)
<1>1. /\ dialect \in Dialects /\ WireInv /\ TableInv(table) /\ TableFollows
      /\ wire \in Seq(WireMsg) /\ Len(wire) \in Nat /\ next \in Nat
  BY DEF OrdersInv, WireInv
<1>2. /\ dialect \in {"itch", "bats", "edge"} /\ w \in WireMsg /\ Legal(dialect, b, w)
      /\ b \in Books /\ Book(next) = Trade(b, w)
      /\ \A p \in OrderNo : Introduces(w, p) => b[p].shares = 0 /\ ~Seen(p, next - 1)
  BY <1>1, UpdateApplies
<1>3. PICK x \in {w.stock, NULL} : table' = Apply(dialect, table, WithSym(w, x))
  BY <1>1, UpdateApplies
<1>4. /\ \A o \in Held(table) : Seen(o, next - 1)
      /\ Sound(table, b)
      /\ (dialect # "bats" /\ \A k \in 0..(next - 1) : Cardinality(LiveIn(Book(k))) <= TableSize)
            => Complete(table, b)
  BY <1>1 DEF TableFollows
<1>5. \A p \in OrderNo : Introduces(w, p) => b[p].shares = 0 /\ p \notin Held(table)
  BY <1>2, <1>4
<1>6. next' - 1 = next /\ \A k : Book(k)' = Book(k)
  BY <1>1, BookSame
<1>7. \A o \in Held(table') : Seen(o, next)
  <2> SUFFICES ASSUME NEW o \in Held(table') PROVE Seen(o, next)
    OBVIOUS
  <2>1. o \in Held(table) \/ o = w.order_no \/ o = w.new_order_no
    BY <1>1, UpdateKeepsTable
  <2>2. CASE o \in Held(table)
    <3>1. PICK i \in 1..(next - 1) : o = wire[i].order_no \/ o = wire[i].new_order_no
      BY <1>4, <2>2 DEF Seen
    <3>2. i \in 1..next
      BY <1>1, <3>1
    <3> QED
      BY <3>1, <3>2 DEF Seen
  <2>3. CASE o = w.order_no \/ o = w.new_order_no
    <3>1. next \in 1..next
      BY <1>1
    <3> QED
      BY <2>3, <3>1 DEF Seen
  <2> QED
    BY <2>1, <2>2, <2>3
<1> HIDE DEF w, b
<1>8. Sound(table', Book(next))
  BY <1>1, <1>2, <1>3, <1>4, <1>5, SoundStep
<1>9. ASSUME dialect # "bats", \A k \in 0..next : Cardinality(LiveIn(Book(k))) <= TableSize
      PROVE  Complete(table', Book(next))
  <2>1. dialect \in {"itch", "edge"}
    BY <1>2, <1>9
  <2>2. Complete(table, b)
    BY <1>1, <1>4, <1>9
  <2>3. Cardinality(LiveIn(Trade(b, w))) <= TableSize
    <3>1. next \in 0..next
      BY <1>1
    <3> QED
      BY <1>2, <1>9, <3>1
  <2>4. Complete(Apply(dialect, table, WithSym(w, x)), Trade(b, w))
    BY <1>1, <1>2, <1>3, <1>4, <1>5, <2>1, <2>2, <2>3, CompleteStep
  <2> QED
    BY <1>2, <1>3, <2>4
<1>10. \A o, k : Seen(o, k)' <=> Seen(o, k)
  BY DEF Seen
<1> QED
  BY <1>6, <1>7, <1>8, <1>9, <1>10 DEF TableFollows

\* Every step keeps the invariant.
LEMMA NextKeeps == OrdersInv /\ [Next]_vars => OrdersInv'
<1> SUFFICES ASSUME OrdersInv, [Next]_vars PROVE OrdersInv'
  OBVIOUS
<1>1. /\ dialect \in Dialects /\ turn \in BOOLEAN /\ refused \in BOOLEAN
      /\ WireInv /\ next \in 1..(Len(wire) + 1) /\ TableInv(table) /\ TableFollows
      /\ open \subseteq 1..(next - 1)
      /\ wire \in Seq(WireMsg) /\ Len(wire) \in Nat /\ next \in Nat
  BY DEF OrdersInv, WireInv
<1>2. ASSUME UNCHANGED <<dialect, wire>> PROVE WireInv' /\ \A k : Book(k)' = Book(k)
  <2>1. \A k : Book(k)' = Book(k)
    BY <1>2, BookSame
  <2>2. \A o, k : Seen(o, k)' <=> Seen(o, k)
    BY <1>2 DEF Seen
  <2> QED
    BY <1>1, <1>2, <2>1, <2>2 DEF WireInv
<1>3. ASSUME UNCHANGED <<dialect, wire, table, next>>, turn' => turn PROVE TableFollows'
  <2>1. \A k : Book(k)' = Book(k)
    BY <1>3, BookSame
  <2>2. \A o, k : Seen(o, k)' <=> Seen(o, k)
    BY <1>3 DEF Seen
  <2> QED
    BY <1>1, <1>3, <2>1, <2>2 DEF TableFollows
<1>4. ASSUME NEW m \in Sendable, Send(m) PROVE OrdersInv'
  <2>1. /\ WireInv' /\ Len(wire') = Len(wire) + 1
        /\ \A k \in 0..Len(wire) : Book(k)' = Book(k)
        /\ \A o, k : k \in 0..Len(wire) => (Seen(o, k)' <=> Seen(o, k))
    BY <1>1, <1>4, SendKeepsWire
  <2>2. UNCHANGED <<dialect, table, turn, refused, next, open>>
    BY <1>4 DEF Send, arbiterVars
  <2>3. next - 1 \in 0..Len(wire) /\ \A k \in 0..(next - 1) : k \in 0..Len(wire)
    BY <1>1
  <2>4. TableFollows'
    BY <1>1, <2>1, <2>2, <2>3 DEF TableFollows
  <2>5. next' \in 1..(Len(wire') + 1) /\ open' \subseteq 1..(next' - 1)
    BY <1>1, <2>1, <2>2
  <2> QED
    BY <1>1, <2>1, <2>2, <2>4, <2>5 DEF OrdersInv
<1>5. ASSUME NEW s \in SeqNo, Process(s) PROVE OrdersInv'
  <2>1. /\ s \in 1..Len(wire) /\ Update(s) /\ UNCHANGED <<dialect, wire, refused>>
        /\ turn' = (turn /\ s = next)
        /\ ProcessNext(s) \/ Recover(s)
    BY <1>5 DEF Process
  <2>2. \/ s >= next /\ next' = s + 1 /\ open' \subseteq open \cup (next .. (s - 1))
        \/ s \in open /\ next' = next /\ open' \subseteq open
    BY <2>1 DEF ProcessNext, Recover, ReachUpTo
  <2>3. next' \in 1..(Len(wire') + 1) /\ open' \subseteq 1..(next' - 1)
    <3>1. CASE s >= next /\ next' = s + 1 /\ open' \subseteq open \cup (next .. (s - 1))
      <4>1. \A i \in open' : i \in 1..s
        BY <1>1, <2>1, <3>1
      <4>2. s + 1 \in 1..(Len(wire') + 1) /\ (s + 1) - 1 = s
        BY <2>1
      <4> QED
        BY <3>1, <4>1, <4>2
    <3>2. CASE next' = next /\ open' \subseteq open
      BY <1>1, <2>1, <3>2
    <3> QED
      BY <2>2, <3>1, <3>2
  <2>4. turn' \in BOOLEAN
    BY <2>1, Zenon
  <2>5. TableInv(table')
    BY <1>1, <2>1, UpdateKeepsTable
  <2>6. TableFollows'
    <3>1. CASE ~turn'
      BY <3>1 DEF TableFollows
    <3>2. CASE turn'
      <4>1. turn /\ s = next
        BY <2>1, <3>2, Zenon
      <4>2. s \notin open
        BY <1>1, <4>1
      <4>3. next' = next + 1
        BY <2>2, <4>1, <4>2
      <4> QED
        BY <2>1, <4>1, <4>3, TurnKeeps
    <3> QED
      BY <3>1, <3>2
  <2> QED
    BY <1>1, <1>2, <2>1, <2>3, <2>4, <2>5, <2>6 DEF OrdersInv
<1>6. ASSUME NEW n \in next..(Len(wire) + 1), SkipTo(n) PROVE OrdersInv'
  <2>1. /\ next' = n /\ open' \subseteq open \cup (next .. (n - 1))
        /\ turn' = (turn /\ n = next) /\ UNCHANGED <<dialect, wire, table, refused>>
    BY <1>6 DEF SkipTo, Skip, ReachUpTo
  <2>2. next' \in 1..(Len(wire') + 1) /\ open' \subseteq 1..(next' - 1)
    BY <1>1, <2>1
  <2>3. turn' \in BOOLEAN
    BY <2>1, Zenon
  <2>4. TableFollows'
    <3>1. CASE ~turn'
      BY <3>1 DEF TableFollows
    <3>2. CASE turn'
      BY <1>3, <2>1, <3>2
    <3> QED
      BY <3>1, <3>2
  <2> QED
    BY <1>1, <1>2, <2>1, <2>2, <2>3, <2>4 DEF OrdersInv
<1>7. ASSUME NEW s \in SeqNo, Refuse(s) PROVE OrdersInv'
  <2>1. /\ s \in 1..Len(wire) /\ Update(s) /\ UNCHANGED <<dialect, wire>>
        /\ turn' = FALSE /\ refused' = TRUE
        /\ \/ s >= next /\ next' = s /\ open' \subseteq open \cup (next .. (s - 1))
           \/ next' = next /\ open' = open
    BY <1>7 DEF Refuse, ReachUpTo
  <2>2. next' \in 1..(Len(wire') + 1) /\ open' \subseteq 1..(next' - 1)
    <3>1. CASE s >= next /\ next' = s /\ open' \subseteq open \cup (next .. (s - 1))
      <4>1. \A i \in open' : i \in 1..(s - 1)
        BY <1>1, <2>1, <3>1
      <4>2. s \in 1..(Len(wire') + 1)
        BY <2>1
      <4> QED
        BY <3>1, <4>1, <4>2
    <3>2. CASE next' = next /\ open' = open
      BY <1>1, <2>1, <3>2
    <3> QED
      BY <2>1, <3>1, <3>2
  <2>3. TableInv(table')
    BY <1>1, <2>1, UpdateKeepsTable
  <2>4. TableFollows' /\ turn' \in BOOLEAN /\ refused' \in BOOLEAN
    BY <2>1 DEF TableFollows
  <2> QED
    BY <1>1, <1>2, <2>1, <2>2, <2>3, <2>4 DEF OrdersInv
<1>8. CASE UNCHANGED vars
  BY <1>1, <1>2, <1>3, <1>8 DEF OrdersInv, vars, arbiterVars
<1> QED
  BY <1>4, <1>5, <1>6, <1>7, <1>8 DEF Next

\* Exchange, arbiter and table keep the invariant: every message was legal for the
\* book before it, and while the line keeps its turn the table follows the book.
THEOREM OrdersInvariant == Spec => []OrdersInv
  BY InitKeeps, NextKeeps, PTL DEF Spec

\* The pool, the hash table and the element pool of the order table agree in
\* every state: fh_shr_lkp_ord_add and _del lose no chunk and count exactly,
\* and the put that add does not check never fails.
THEOREM PoolsCorrect == Spec => []PoolsAgree
<1>1. OrdersInv => PoolsAgree
  BY PoolsFollow DEF OrdersInv
<1> QED
  BY <1>1, OrdersInvariant, PTL

\* While every message is processed once and in its turn, what the table says
\* of an order is what the exchange's book says, whatever room it has had.
THEOREM TableCorrect == Spec => []TableSound
<1>1. OrdersInv => TableSound
  BY DEF OrdersInv, TableFollows, Sound, TableSound, Look
<1> QED
  BY <1>1, OrdersInvariant, PTL

-----------------------------------------------------------------------------
(* No subtraction wraps.                                                    *)

\* The shares of one message, as pairs.
Shards(i, k) == {i} \X (1..k)

\* A message has as many shards as shares.
LEMMA ShardsCount ==
  ASSUME NEW i, NEW k \in Nat
  PROVE  IsFiniteSet(Shards(i, k)) /\ Cardinality(Shards(i, k)) = k
<1>1. IsFiniteSet({i}) /\ Cardinality({i}) = 1
  BY FS_Singleton
<1>2. IsFiniteSet(1..k) /\ Cardinality(1..k) = k
  <2>1. 1 \in Int /\ k \in Int /\ (IF 1 > k THEN 0 ELSE k - 1 + 1) = k
    OBVIOUS
  <2> QED
    BY <2>1, FS_Interval
<1>3. IsFiniteSet({i} \X (1..k)) /\ Cardinality({i} \X (1..k)) = Cardinality({i}) * Cardinality(1..k)
  BY <1>1, <1>2, FS_Product
<1> QED
  BY <1>1, <1>2, <1>3 DEF Shards

\* Shards of another message add up.
LEMMA DisjointCount ==
  ASSUME NEW S, IsFiniteSet(S), NEW i, NEW k \in Nat, S \cap Shards(i, k) = {}
  PROVE  Cardinality(S \cup Shards(i, k)) = Cardinality(S) + k
<1> DEFINE D == Shards(i, k)
<1>1. IsFiniteSet(D) /\ Cardinality(D) = k
  BY ShardsCount
<1> HIDE DEF D
<1>2. S \cap D = {} /\ Cardinality({}) = 0 /\ Cardinality(S) \in Nat
  BY FS_EmptySet, FS_CardinalityType DEF D
<1>3. Cardinality(S \cup D) = Cardinality(S) + Cardinality(D) - Cardinality(S \cap D)
  BY <1>1, FS_Union
<1>4. Cardinality(S \cup D) = Cardinality(S) + k
  <2> DEFINE a == Cardinality(S)
             c == Cardinality(S \cap D)
             u == Cardinality(S \cup D)
  <2>1. c = 0
    BY <1>2
  <2>2. u = a + k - c /\ a \in Nat
    BY <1>1, <1>2, <1>3
  <2> HIDE DEF a, c, u
  <2>3. u = a + k
    BY <2>1, <2>2
  <2> QED
    BY <2>3 DEF a, u
<1> QED
  BY <1>4 DEF D

\* The shares taken from an order, and those still owed, can be counted.
LEMMA TakenFinite ==
  ASSUME wire \in Seq(WireMsg), NEW o
  PROVE  /\ IsFiniteSet(Taken(o)) /\ IsFiniteSet(Owed(o))
         /\ Cardinality(Taken(o)) \in Nat /\ Cardinality(Owed(o)) \in Nat
         /\ Cardinality(Owed(o)) <= Cardinality(Taken(o))
<1> DEFINE P == (1..Len(wire)) \X (1..ShareMod)
<1>1. IsFiniteSet(P)
  <2>1. IsFiniteSet(1..Len(wire)) /\ IsFiniteSet(1..ShareMod)
    <3>1. 1 \in Int /\ Len(wire) \in Int /\ ShareMod \in Int
      BY TableAssumption
    <3> QED
      BY <3>1, FS_Interval
  <2> QED
    BY <2>1, FS_Product
<1>2. Taken(o) \in SUBSET P /\ Owed(o) \in SUBSET Taken(o)
  BY DEF Taken, Owed
<1> HIDE DEF P
<1>3. IsFiniteSet(Taken(o))
  BY <1>1, <1>2, FS_Subset
<1>4. IsFiniteSet(Owed(o)) /\ Cardinality(Owed(o)) <= Cardinality(Taken(o))
  BY <1>2, <1>3, FS_Subset
<1> QED
  BY <1>3, <1>4, FS_CardinalityType

Takes(m, o) == m.type \in {"execute", "cancel"} /\ m.order_no = o

\* A message takes from at most one order, and no more than the book has.
LEMMA SendTakes ==
  ASSUME OrdersInv, SharesInv, NEW m \in Sendable, Send(m), NEW o \in OrderNo
  PROVE  LET k == IF Takes(m, o) THEN m.shares ELSE 0 IN
         /\ Cardinality(Taken(o)') = Cardinality(Taken(o)) + k
         /\ Cardinality(Owed(o)') = Cardinality(Owed(o)) + k
         /\ k \in Nat
<1> DEFINE n == Len(wire)
<1>1. /\ wire \in Seq(WireMsg) /\ n \in Nat /\ dialect \in Dialects /\ WireInv
      /\ next \in 1..(n + 1) /\ UNCHANGED <<processed>>
  BY DEF OrdersInv, WireInv, Send, arbiterVars
<1>2. /\ Len(wire') = n + 1 /\ wire'[n + 1] = m
      /\ \A i \in 1..n : wire'[i] = wire[i]
  BY <1>1, SendKeepsWire
<1>3. m \in WireMsg /\ Legal(dialect, Book(n), m)
  BY <1>1, SendableLegal
<1>4. m.shares \in Nat /\ (Takes(m, o) => m.shares \in 1..(ShareMod - 1))
  BY <1>3, Kinds, OrdersAssumption DEF WireMsg, Takes, Legal
<1>5. ~Done(n + 1) /\ \A i : Done(i)' <=> Done(i)
  BY <1>1 DEF Done, SharesInv, Untouched
<1>6. IsFiniteSet(Taken(o)) /\ IsFiniteSet(Owed(o))
      /\ Cardinality(Taken(o)) \in Nat /\ Cardinality(Owed(o)) \in Nat
  BY <1>1, TakenFinite
<1>7. CASE Takes(m, o)
  <2> DEFINE S == Shards(n + 1, m.shares)
  <2>1. \A t : t \in S <=> t \in (1..(n + 1)) \X (1..ShareMod) /\ t[1] = n + 1 /\ t[2] <= m.shares
    BY <1>1, <1>4, <1>7, TableAssumption DEF Shards
  <2>2. Taken(o)' = Taken(o) \cup S
    BY <1>1, <1>2, <1>7, <2>1 DEF Taken, Takes
  <2>3. Taken(o) \cap S = {}
    BY <1>1, <2>1 DEF Taken
  <2>4. Owed(o)' = Owed(o) \cup S
    BY <1>5, <2>1, <2>2 DEF Owed
  <2>5. Owed(o) \cap S = {}
    BY <2>3 DEF Owed
  <2> QED
    BY <1>4, <1>6, <1>7, <2>2, <2>3, <2>4, <2>5, DisjointCount
<1>8. CASE ~Takes(m, o)
  <2>1. Taken(o)' = Taken(o)
    BY <1>1, <1>2, <1>8 DEF Taken, Takes
  <2>2. Owed(o)' = Owed(o)
    BY <1>5, <2>1 DEF Owed
  <2> QED
    BY <1>6, <1>8, <2>1, <2>2
<1> QED
  BY <1>7, <1>8

\* A message that is sent takes no more shares than its order has.
LEMMA SendKeepsShares ==
  ASSUME OrdersInv, SharesInv, NEW m \in Sendable, Send(m)
  PROVE  SharesInv'
<1> DEFINE n == Len(wire)
           b == Book(n)
<1>1. /\ wire \in Seq(WireMsg) /\ n \in Nat /\ dialect \in Dialects /\ WireInv /\ TableInv(table)
      /\ next \in 1..(n + 1) /\ UNCHANGED <<dialect, table, refused, next, open, processed>>
  BY DEF OrdersInv, WireInv, Send, arbiterVars
<1>2. /\ Len(wire') = n + 1 /\ wire'[n + 1] = m
      /\ \A i \in 1..n : wire'[i] = wire[i]
      /\ \A k : k = n + 1 => Book(k)' = Trade(b, m)
      /\ \A o \in OrderNo : Introduces(m, o) => b[o].shares = 0
      /\ \A o, k : k \in 0..n => (Seen(o, k)' <=> Seen(o, k))
      /\ WireInv'
  BY <1>1, SendKeepsWire
<1>3. /\ m \in WireMsg /\ Legal(dialect, b, m) /\ b \in Books
  BY <1>1, SendableLegal DEF WireInv
<1>4. \A o \in OrderNo : Introduces(m, o) => ~Seen(o, n)
  <2>1. n + 1 \in 1..Len(wire') /\ (n + 1) - 1 = n /\ n \in 0..n
    BY <1>1, <1>2
  <2>2. \A i \in 1..Len(wire'), o \in OrderNo : \A k :
          Introduces(wire'[i], o) /\ k = i - 1 => ~(Seen(o, k)')
    BY <1>2 DEF WireInv
  <2> QED
    BY <1>2, <2>1, <2>2
<1>5. \A o : Seen(o, n) => \A k : k = n + 1 => Seen(o, k)'
  BY <1>1, <1>2 DEF Seen
<1>6. \A o \in Held(table') : Seen(o, Len(wire))'
  BY <1>1, <1>2, <1>5 DEF SharesInv
<1> DEFINE c == Trade(b, m)
<1>7. c = (Book(Len(wire)))'
  BY <1>2
<1>8. ASSUME dialect # "bats", NEW o \in OrderNo, ~Introduces(m, o)
      PROVE  /\ Cardinality(Taken(o)') + c[o].shares <= Cardinality(Taken(o)) + b[o].shares
             /\ Cardinality(Owed(o)') + c[o].shares <= Cardinality(Owed(o)) + b[o].shares
  <2> DEFINE k == IF Takes(m, o) THEN m.shares ELSE 0
             t0 == Cardinality(Taken(o))
             t1 == Cardinality(Taken(o)')
             u0 == Cardinality(Owed(o))
             u1 == Cardinality(Owed(o)')
  <2>1. t1 = t0 + k /\ u1 = u0 + k /\ k \in Nat
    BY SendTakes
  <2>2. t0 \in Nat /\ u0 \in Nat
    BY <1>1, TakenFinite
  <2>3. c[o].shares + k <= b[o].shares /\ c[o].shares \in Nat /\ b[o].shares \in Nat
    <3>1. /\ c \in Books
          /\ \A p \in OrderNo : p # m.order_no /\ ~Introduces(m, p) => c[p] = b[p]
          /\ m.type \in {"execute", "cancel"} =>
               c[m.order_no].shares = b[m.order_no].shares - m.shares
          /\ (Removes(m) \/ m.type = "replace") => c[m.order_no].shares = 0
      BY <1>2, <1>3, TradeView
    <3>2. c[o].shares \in 0..(ShareMod - 1) /\ b[o].shares \in 0..(ShareMod - 1)
          /\ m.type \in MsgTypes /\ m.shares \in Nat
      BY <1>3, <3>1 DEF Books, WireMsg
    <3> HIDE DEF c, b
    <3>3. CASE o # m.order_no
      <4>1. k = 0 /\ c[o] = b[o]
        BY <1>8, <3>1, <3>3 DEF Takes
      <4> QED
        BY <3>2, <4>1, TableAssumption
    <3>4. CASE o = m.order_no /\ m.type \in {"execute", "cancel"}
      <4>1. k = m.shares /\ c[o].shares = b[o].shares - m.shares
        BY <3>1, <3>4 DEF Takes
      <4> QED
        BY <3>2, <4>1, TableAssumption
    <3>5. CASE o = m.order_no /\ (Removes(m) \/ m.type = "replace")
      <4>1. k = 0 /\ c[o].shares = 0
        BY <3>1, <3>5, Kinds DEF Takes
      <4> QED
        BY <3>2, <4>1, TableAssumption
    <3>6. m.type \notin {"modify", "price"} /\ (o = m.order_no => m.type # "add")
      BY <1>3, <1>8 DEF Legal, OfDialect, Introduces
    <3> QED
      BY <3>2, <3>3, <3>4, <3>5, <3>6 DEF MsgTypes, Removes
  <2> HIDE DEF k, t0, t1, u0, u1, c, b
  <2>4. t1 + c[o].shares <= t0 + b[o].shares /\ u1 + c[o].shares <= u0 + b[o].shares
    BY <2>1, <2>2, <2>3
  <2> QED
    BY <2>4 DEF t0, t1, u0, u1
<1>9. ASSUME dialect # "bats" PROVE TakenBounded'
  <2> SUFFICES ASSUME NEW i \in 1..(n + 1), NEW o \in OrderNo, Introduces(wire'[i], o)
               PROVE  Cardinality(Taken(o)') + c[o].shares <= wire'[i].shares
    BY <1>2, <1>7 DEF TakenBounded
  <2>1. CASE i \in 1..n
    <3>1. wire'[i] = wire[i] /\ wire[i] \in WireMsg
      BY <1>1, <1>2, <2>1
    <3>2. Seen(o, n)
      BY <2>1, <3>1 DEF Seen, Introduces
    <3>3. ~Introduces(m, o)
      BY <1>4, <3>2
    <3>4. Cardinality(Taken(o)) + b[o].shares <= wire[i].shares
      BY <1>9, <2>1, <3>1 DEF SharesInv, TakenBounded
    <3>5. Cardinality(Taken(o)') + c[o].shares <= Cardinality(Taken(o)) + b[o].shares
      BY <1>8, <1>9, <3>3
    <3> DEFINE x == Cardinality(Taken(o)') + c[o].shares
               y == Cardinality(Taken(o)) + b[o].shares
    <3>6. x \in Int /\ y \in Int /\ wire[i].shares \in Int
      <4>1. Cardinality(Taken(o)) \in Nat
        BY <1>1, TakenFinite
      <4>2. Cardinality(Taken(o)') \in Nat
        <5>1. Cardinality(Taken(o)') = Cardinality(Taken(o)) + (IF Takes(m, o) THEN m.shares ELSE 0)
              /\ (IF Takes(m, o) THEN m.shares ELSE 0) \in Nat
          BY SendTakes
        <5> QED
          BY <4>1, <5>1
      <4>3. c[o].shares \in Nat /\ b[o].shares \in Nat
        <5>1. c \in Books
          BY <1>2, <1>3, TradeView
        <5> QED
          BY <1>3, <5>1, TableAssumption DEF Books
      <4> HIDE DEF c, b
      <4> QED
        BY <3>1, <4>1, <4>2, <4>3 DEF WireMsg
    <3>7. x <= y /\ y <= wire[i].shares
      BY <3>4, <3>5
    <3> HIDE DEF x, y
    <3>8. x <= wire[i].shares
      BY <3>6, <3>7
    <3> QED
      BY <3>1, <3>8 DEF x
  <2>2. CASE i = n + 1
    <3>1. Introduces(m, o) /\ wire'[i] = m /\ ~Takes(m, o)
      BY <1>2, <2>2 DEF Introduces, Takes
    <3>2. Taken(o) = {}
      <4>1. \A j \in 1..n : wire[j].order_no # o
        BY <1>4, <3>1 DEF Seen
      <4> QED
        BY <4>1 DEF Taken
    <3>3. Cardinality(Taken(o)) = 0
      BY <3>2, FS_EmptySet
    <3>4. Cardinality(Taken(o)') = Cardinality(Taken(o)) + (IF Takes(m, o) THEN m.shares ELSE 0)
      BY SendTakes
    <3>5. Cardinality(Taken(o)') = 0
      BY <3>1, <3>3, <3>4
    <3>6. c[o].shares = m.shares /\ m.shares \in Nat
      <4>1. /\ m.type = "add" => c[m.order_no].shares = m.shares
            /\ m.type = "replace" => c[m.new_order_no].shares = m.shares
        BY <1>2, <1>3, TradeView
      <4> QED
        BY <1>3, <3>1, <4>1 DEF Introduces, WireMsg
    <3> HIDE DEF c
    <3> QED
      BY <3>1, <3>5, <3>6
  <2> QED
    BY <1>1, <2>1, <2>2
<1>10. ASSUME dialect # "bats", ~refused PROVE OwedHeld'
  <2> SUFFICES ASSUME NEW o \in Held(table)
               PROVE  /\ Cardinality(Owed(o)') + c[o].shares <= Look(table, o).shares
                      /\ \E q \in Quantities : Look(table, o).shares <= q
    BY <1>1, <1>7 DEF OwedHeld
  <2>1. o \in OrderNo /\ Seen(o, n) /\ ~Introduces(m, o) /\ Look(table, o) \in TableEntry
    BY <1>1, <1>4, HeldChunks DEF SharesInv
  <2>2. /\ Cardinality(Owed(o)) + b[o].shares <= Look(table, o).shares
        /\ \E q \in Quantities : Look(table, o).shares <= q
    BY <1>10 DEF SharesInv, OwedHeld
  <2>3. Cardinality(Owed(o)') + c[o].shares <= Cardinality(Owed(o)) + b[o].shares
    BY <1>8, <1>10, <2>1
  <2> DEFINE x == Cardinality(Owed(o)') + c[o].shares
             y == Cardinality(Owed(o)) + b[o].shares
  <2>4. x \in Int /\ y \in Int /\ Look(table, o).shares \in Int
    <3>1. Cardinality(Owed(o)) \in Nat
      BY <1>1, TakenFinite
    <3>2. Cardinality(Owed(o)') \in Nat
      <4>1. Cardinality(Owed(o)') = Cardinality(Owed(o)) + (IF Takes(m, o) THEN m.shares ELSE 0)
            /\ (IF Takes(m, o) THEN m.shares ELSE 0) \in Nat
        BY <2>1, SendTakes
      <4> QED
        BY <3>1, <4>1
    <3>3. c[o].shares \in Nat /\ b[o].shares \in Nat
      <4>1. c \in Books
        BY <1>2, <1>3, TradeView
      <4> QED
        BY <1>3, <2>1, <4>1, TableAssumption DEF Books
    <3> HIDE DEF c, b
    <3> QED
      BY <2>1, <3>1, <3>2, <3>3 DEF TableEntry
  <2>5. x <= y /\ y <= Look(table, o).shares
    BY <2>2, <2>3
  <2> HIDE DEF x, y
  <2>6. x <= Look(table, o).shares
    BY <2>4, <2>5
  <2> QED
    BY <2>2, <2>6 DEF x
<1>11. processed' \in [SeqNo -> Nat] /\ Untouched'
  BY <1>1 DEF SharesInv, Untouched
<1> QED
  BY <1>1, <1>6, <1>9, <1>10, <1>11 DEF SharesInv

\* Processing a message that takes settles its shares and no others.
LEMMA ProcessSettles ==
  ASSUME OrdersInv, SharesInv, NEW s \in SeqNo, Process(s), NEW o \in OrderNo
  PROVE  LET k == IF Takes(wire[s], o) THEN wire[s].shares ELSE 0 IN
         /\ Cardinality(Owed(o)') = Cardinality(Owed(o)) - k
         /\ Cardinality(Owed(o)') \in Nat /\ Cardinality(Owed(o)) \in Nat /\ k \in Nat
<1> DEFINE w == wire[s]
<1>1. /\ wire \in Seq(WireMsg) /\ Len(wire) \in Nat /\ dialect \in Dialects /\ WireInv
      /\ s \in 1..Len(wire) /\ wire' = wire /\ next \in Nat /\ open \subseteq 1..(next - 1)
      /\ processed \in [SeqNo -> Nat] /\ processed' = [processed EXCEPT ![s] = @ + 1]
      /\ s >= next \/ s \in open
  <2>1. /\ wire \in Seq(WireMsg) /\ Len(wire) \in Nat /\ dialect \in Dialects /\ WireInv
        /\ next \in 1..(Len(wire) + 1) /\ open \subseteq 1..(next - 1)
    BY DEF OrdersInv, WireInv
  <2>2. s \in 1..Len(wire) /\ wire' = wire /\ (ProcessNext(s) \/ Recover(s))
    BY DEF Process
  <2>3. /\ processed' = [processed EXCEPT ![s] = @ + 1]
        /\ s >= next \/ s \in open
    BY <2>2 DEF ProcessNext, Recover
  <2> QED
    BY <2>1, <2>2, <2>3 DEF SharesInv
<1>2. processed[s] = 0
  BY <1>1 DEF SharesInv, Untouched
<1>3. \A i : Done(i)' <=> Done(i) \/ i = s
  BY <1>1 DEF Done
<1>4. ~Done(s)
  BY <1>2 DEF Done
<1>5. Taken(o)' = Taken(o)
  BY <1>1 DEF Taken
<1>6. Owed(o)' = {t \in Owed(o) : t[1] # s}
  BY <1>3, <1>5 DEF Owed
<1>7. w \in WireMsg /\ w.shares \in Nat /\ (Takes(w, o) => w.shares \in 1..(ShareMod - 1))
  <2>1. w \in WireMsg /\ Legal(dialect, Book(s - 1), w)
    BY <1>1 DEF WireInv
  <2> QED
    BY <2>1, Kinds, OrdersAssumption DEF WireMsg, Takes, Legal
<1>8. /\ IsFiniteSet(Owed(o)) /\ Cardinality(Owed(o)) \in Nat
      /\ IsFiniteSet(Owed(o)') /\ Cardinality(Owed(o)') \in Nat
  <2>1. IsFiniteSet(Owed(o)) /\ Cardinality(Owed(o)) \in Nat
    BY <1>1, TakenFinite
  <2>2. Owed(o)' \in SUBSET Owed(o)
    BY <1>6
  <2>3. IsFiniteSet(Owed(o)')
    BY <2>1, <2>2, FS_Subset
  <2> QED
    BY <2>1, <2>3, FS_CardinalityType
<1>9. CASE Takes(w, o)
  <2> DEFINE D == Shards(s, w.shares)
             R == Owed(o)'
  <2>1. \A t : t \in D <=> t \in Owed(o) /\ t[1] = s
    <3>1. \A t : t \in D <=> t \in (1..Len(wire)) \X (1..ShareMod) /\ t[1] = s /\ t[2] <= w.shares
      BY <1>1, <1>7, <1>9, TableAssumption DEF Shards
    <3> HIDE DEF D
    <3> QED
      BY <1>4, <1>9, <3>1 DEF Owed, Taken, Takes
  <2> HIDE DEF D
  <2>2. Owed(o) = R \cup D /\ R \cap D = {}
    BY <1>6, <2>1
  <2> HIDE DEF R
  <2>3. Cardinality(R \cup D) = Cardinality(R) + w.shares
    BY <1>7, <1>8, <2>2, DisjointCount DEF D, R
  <2>4. Cardinality(Owed(o)) = Cardinality(R) + w.shares
    BY <2>2, <2>3
  <2> DEFINE x == Cardinality(Owed(o))
             y == Cardinality(R)
  <2>5. x = y + w.shares /\ y \in Nat
    BY <1>8, <2>4 DEF R
  <2> HIDE DEF x, y
  <2>6. y = x - w.shares
    BY <1>7, <2>5
  <2> QED
    BY <1>7, <1>8, <1>9, <2>6 DEF x, y, R
<1>10. CASE ~Takes(w, o)
  <2>1. \A t \in Owed(o) : t[1] # s
    BY <1>10 DEF Owed, Taken, Takes
  <2>2. Owed(o)' = Owed(o)
    BY <1>6, <2>1
  <2> QED
    BY <1>8, <1>10, <2>2
<1> QED
  BY <1>9, <1>10

\* A processed message leaves the shares of the table at what is still owed, or more.
LEMMA ProcessKeepsShares ==
  ASSUME OrdersInv, SharesInv, NEW s \in SeqNo, Process(s), dialect # "bats", ~refused
  PROVE  OwedHeld'
<1> DEFINE w == wire[s]
           b == Book(Len(wire))
           U == table'
<1>1. /\ wire \in Seq(WireMsg) /\ dialect \in Dialects /\ WireInv /\ TableInv(table)
      /\ s \in 1..Len(wire) /\ Update(s) /\ wire' = wire
  BY DEF OrdersInv, WireInv, Process
<1>2. /\ dialect \in {"itch", "bats", "edge"} /\ w \in WireMsg /\ Legal(dialect, Book(s - 1), w)
      /\ OfDialect(dialect, w)
      /\ w.type = "replace" => w.new_order_no # w.order_no
  BY <1>1, UpdateApplies DEF Legal
<1>3. PICK x \in {w.stock, NULL} : table' = Apply(dialect, table, WithSym(w, x))
  BY <1>1, UpdateApplies
<1>4. x \in OrderNo \cup {0} /\ w.shares \in Nat /\ w.type \in MsgTypes
  BY <1>2 DEF WireMsg, NULL
<1>5. b = (Book(Len(wire)))' /\ b \in Books
  BY <1>1, BookSame DEF WireInv
<1> HIDE DEF w
<1>6. /\ \A p \in Held(U) : p # w.order_no /\ ~Introduces(w, p) => p \in Held(table) /\ Look(U, p) = Look(table, p)
      /\ \A p \in Held(U) : Introduces(w, p) =>
           \/ p \in Held(table) /\ Look(U, p) = Look(table, p)
           \/ Look(U, p).shares = w.shares
      /\ (Removes(w) \/ w.type = "replace") => w.order_no \notin Held(U)
  BY <1>1, <1>2, <1>3, <1>4, StepView
<1>7. ASSUME NEW p \in Held(table)
      PROVE  /\ p \in OrderNo /\ Look(table, p).shares \in Nat
             /\ Cardinality(Owed(p)) + b[p].shares <= Look(table, p).shares
             /\ \E q \in Quantities : Look(table, p).shares <= q
  <2>1. Look(table, p) \in TableEntry /\ p \in OrderNo
    BY <1>1, HeldChunks
  <2> QED
    BY <2>1 DEF SharesInv, OwedHeld, TableEntry
<1>8. ASSUME NEW p \in OrderNo
      PROVE  LET k == IF Takes(w, p) THEN w.shares ELSE 0 IN
             /\ Cardinality(Owed(p)') = Cardinality(Owed(p)) - k
             /\ Cardinality(Owed(p)') \in Nat /\ Cardinality(Owed(p)) \in Nat /\ k \in Nat
             /\ b[p].shares \in Nat
  <2>1. b[p].shares \in Nat
    BY <1>5, TableAssumption DEF Books
  <2> QED
    BY <2>1, ProcessSettles DEF w
<1> HIDE DEF b
<1> SUFFICES ASSUME NEW p \in Held(U)
             PROVE  /\ Cardinality(Owed(p)') + b[p].shares <= Look(U, p).shares
                    /\ \E q \in Quantities : Look(U, p).shares <= q
  BY <1>5 DEF OwedHeld
<1>9. p \in OrderNo
  BY DEF Held
<1> DEFINE u0 == Cardinality(Owed(p))
           u1 == Cardinality(Owed(p)')
           k == IF Takes(w, p) THEN w.shares ELSE 0
<1>10. u1 = u0 - k /\ u1 \in Nat /\ u0 \in Nat /\ k \in Nat /\ b[p].shares \in Nat
  BY <1>8, <1>9
<1> HIDE DEF u0, u1
<1>11. CASE p \in Held(table) /\ Look(U, p) = Look(table, p)
  <2>1. u0 + b[p].shares <= Look(table, p).shares /\ Look(table, p).shares \in Nat
    BY <1>7, <1>11 DEF u0
  <2> HIDE DEF k
  <2>2. u1 + b[p].shares <= Look(table, p).shares
    BY <1>10, <2>1
  <2> QED
    BY <1>7, <1>11, <2>2 DEF u1
<1>12. CASE Introduces(w, p) /\ Look(U, p).shares = w.shares
  <2>1. Cardinality(Taken(p)) + b[p].shares <= w.shares
    BY <1>1, <1>9, <1>12 DEF SharesInv, TakenBounded, w, b
  <2> DEFINE t == Cardinality(Taken(p))
  <2>2. u0 <= t /\ t \in Nat
    BY <1>1, TakenFinite DEF u0
  <2>3. t + b[p].shares <= w.shares
    BY <2>1
  <2> HIDE DEF t, k
  <2>4. u1 + b[p].shares <= w.shares
    BY <1>4, <1>10, <2>2, <2>3
  <2>5. w.shares \in Quantities
    BY <1>2, <1>12, Kinds DEF Legal, Introduces
  <2> QED
    BY <1>4, <1>12, <2>4, <2>5 DEF u1
<1>13. CASE p = w.order_no /\ w.type \in {"execute", "cancel"}
  <2> DEFINE m == WithSym(w, x)
             left == Look(table, p).shares - w.shares
  <2>1. m.type = w.type /\ m.order_no = p /\ m.shares = w.shares /\ Handled(dialect, m)
    BY <1>2, <1>4, <1>13, HandledFields
  <2> HIDE DEF m
  <2>2. U = Apply(dialect, table, m)
    BY <1>3 DEF m
  <2>3. p \in Held(table)
    BY <1>1, <1>2, <1>13, <2>1, <2>2, TakeView
  <2>4. PICK q \in Quantities : Look(table, p).shares <= q
    BY <1>7, <2>3
  <2>5. /\ u0 + b[p].shares <= Look(table, p).shares /\ Look(table, p).shares \in Nat
        /\ Look(table, p) \in TableEntry /\ q \in 1..(ShareMod - 1)
    BY <1>1, <1>7, <2>3, HeldChunks, OrdersAssumption DEF u0
  <2>6. k = w.shares
    BY <1>13 DEF Takes
  <2> HIDE DEF k
  <2>7. left \in 0..(ShareMod - 1) /\ u1 + b[p].shares <= left /\ left <= q
    BY <1>4, <1>10, <2>4, <2>5, <2>6, TableAssumption
  <2> HIDE DEF U
  <2>8. Look(U, p) = Resized(Look(table, p), left)
    BY <1>1, <1>2, <1>13, <2>1, <2>2, <2>3, <2>7, TakeView
  <2>9. Look(U, p).shares = left
    BY <2>5, <2>8 DEF Resized, TableEntry
  <2> QED
    BY <2>7, <2>9 DEF u1
<1>14. w.type \notin {"modify", "price"} /\ ((Removes(w) \/ w.type = "replace") => p # w.order_no)
       /\ (w.type = "add" => Introduces(w, w.order_no))
  BY <1>2, <1>6 DEF OfDialect, Introduces
<1> QED
  BY <1>4, <1>6, <1>11, <1>12, <1>13, <1>14 DEF MsgTypes, Removes

\* Before the first message no share is taken.
LEMMA SharesInit == Init => SharesInv
<1> SUFFICES ASSUME Init PROVE SharesInv
  OBVIOUS
<1>1. wire = <<>> /\ Len(wire) = 0 /\ processed = [s \in SeqNo |-> 0] /\ table = NewTable
  BY DEF Init, ArbiterInit
<1>2. Held(table) = {}
  BY <1>1, NewTableInv
<1> QED
  BY <1>1, <1>2 DEF SharesInv, Untouched, TakenBounded, OwedHeld

\* Every step keeps what is said of the shares.
LEMMA SharesNext == OrdersInv /\ SharesInv /\ [Next]_vars => SharesInv'
<1> SUFFICES ASSUME OrdersInv, SharesInv, [Next]_vars PROVE SharesInv'
  OBVIOUS
<1>1. /\ dialect \in Dialects /\ WireInv /\ TableInv(table)
      /\ wire \in Seq(WireMsg) /\ Len(wire) \in Nat
      /\ next \in Nat /\ open \subseteq 1..(next - 1) /\ processed \in [SeqNo -> Nat]
  BY DEF OrdersInv, WireInv, SharesInv
<1>2. ASSUME wire' = wire, dialect' = dialect
      PROVE  /\ dialect # "bats" => TakenBounded'
             /\ \A o : Seen(o, Len(wire))' <=> Seen(o, Len(wire))
  <2>1. (Book(Len(wire)))' = Book(Len(wire))
    BY <1>2, BookSame
  <2>2. \A o : Taken(o)' = Taken(o)
    BY <1>2 DEF Taken
  <2>3. dialect # "bats" => TakenBounded'
    BY <1>2, <2>1, <2>2 DEF TakenBounded, SharesInv
  <2>4. \A o : Seen(o, Len(wire))' <=> Seen(o, Len(wire))
    BY <1>2 DEF Seen
  <2> QED
    BY <2>3, <2>4
<1>3. ASSUME NEW s \in 1..Len(wire), Update(s), wire' = wire, dialect' = dialect
      PROVE  \A o \in Held(table') : Seen(o, Len(wire))'
  <2> SUFFICES ASSUME NEW o \in Held(table') PROVE Seen(o, Len(wire))
    BY <1>2, <1>3
  <2>1. o \in Held(table) \/ o = wire[s].order_no \/ o = wire[s].new_order_no
    BY <1>1, <1>3, UpdateKeepsTable
  <2> QED
    BY <2>1 DEF SharesInv, Seen
<1>4. ASSUME NEW m \in Sendable, Send(m) PROVE SharesInv'
  BY <1>4, SendKeepsShares
<1>5. ASSUME NEW s \in SeqNo, Process(s) PROVE SharesInv'
  <2>1. /\ s \in 1..Len(wire) /\ Update(s) /\ UNCHANGED <<dialect, wire, refused>>
        /\ ProcessNext(s) \/ Recover(s)
    BY <1>5 DEF Process
  <2>2. /\ processed' = [processed EXCEPT ![s] = @ + 1]
        /\ \/ s >= next /\ next' = s + 1 /\ open' \subseteq open \cup (next .. (s - 1))
           \/ s \in open /\ next' = next /\ open' \subseteq open \ {s}
    BY <2>1 DEF ProcessNext, Recover, ReachUpTo
  <2>3. processed' \in [SeqNo -> Nat]
    BY <1>1, <2>2
  <2>4. Untouched'
    <3> SUFFICES ASSUME NEW t \in Nat, t \in SeqNo, t >= next' \/ t \in open'
                 PROVE  processed'[t] = 0
      BY DEF Untouched
    <3>1. t # s
      BY <1>1, <2>1, <2>2
    <3>2. t >= next \/ t \in open
      BY <1>1, <2>1, <2>2
    <3>3. processed[t] = 0
      BY <3>2 DEF SharesInv, Untouched
    <3> QED
      BY <1>1, <2>2, <3>1, <3>3
  <2>5. dialect # "bats" /\ ~refused => OwedHeld'
    BY <1>5, ProcessKeepsShares
  <2> QED
    BY <1>2, <1>3, <2>1, <2>3, <2>4, <2>5 DEF SharesInv
<1>6. ASSUME NEW n \in next..(Len(wire) + 1), SkipTo(n) PROVE SharesInv'
  <2>1. /\ next' = n /\ open' \subseteq open \cup (next .. (n - 1))
        /\ UNCHANGED <<dialect, wire, table, refused, processed>>
    BY <1>6 DEF SkipTo, Skip, ReachUpTo
  <2>2. Untouched'
    <3> SUFFICES ASSUME NEW t \in Nat, t \in SeqNo, t >= next' \/ t \in open'
                 PROVE  processed[t] = 0
      BY <2>1 DEF Untouched
    <3>1. t >= next \/ t \in open
      BY <1>1, <2>1
    <3> QED
      BY <3>1 DEF SharesInv, Untouched
  <2>3. OwedHeld => OwedHeld'
    <3>1. (Book(Len(wire)))' = Book(Len(wire))
      BY <2>1, BookSame
    <3>2. \A o : Owed(o)' = Owed(o)
      BY <2>1 DEF Owed, Taken, Done
    <3> QED
      BY <2>1, <3>1, <3>2 DEF OwedHeld
  <2> QED
    BY <1>2, <2>1, <2>2, <2>3 DEF SharesInv
<1>7. ASSUME NEW s \in SeqNo, Refuse(s) PROVE SharesInv'
  <2>1. /\ s \in 1..Len(wire) /\ Update(s) /\ UNCHANGED <<dialect, wire, processed>>
        /\ refused' = TRUE
        /\ \/ s >= next /\ next' = s /\ open' \subseteq open \cup (next .. (s - 1))
           \/ next' = next /\ open' = open
    BY <1>7 DEF Refuse, ReachUpTo
  <2>2. Untouched'
    <3> SUFFICES ASSUME NEW t \in Nat, t \in SeqNo, t >= next' \/ t \in open'
                 PROVE  processed[t] = 0
      BY <2>1 DEF Untouched
    <3>1. t >= next \/ t \in open
      BY <1>1, <2>1
    <3> QED
      BY <3>1 DEF SharesInv, Untouched
  <2> QED
    BY <1>1, <1>2, <1>3, <2>1, <2>2 DEF SharesInv
<1>8. CASE UNCHANGED vars
  <2>1. UNCHANGED <<dialect, wire, table, refused, processed, next, open>>
    BY <1>8 DEF vars, arbiterVars
  <2>2. OwedHeld => OwedHeld'
    <3>1. (Book(Len(wire)))' = Book(Len(wire))
      BY <2>1, BookSame
    <3>2. \A o : Owed(o)' = Owed(o)
      BY <2>1 DEF Owed, Taken, Done
    <3> QED
      BY <2>1, <3>1, <3>2 DEF OwedHeld
  <2> QED
    BY <1>2, <2>1, <2>2 DEF SharesInv, Untouched
<1> QED
  BY <1>4, <1>5, <1>6, <1>7, <1>8 DEF Next

\* A table as large as the exchange's book ever was misses no order while the
\* line keeps its turn, and no subtraction wraps while no hook fails, however
\* messages are lost or late.
THEOREM OrdersCorrect == Spec => []OrdersExact
<1>1. OrdersInv => TableComplete
  <2> SUFFICES ASSUME OrdersInv PROVE TableComplete
    OBVIOUS
  <2>1. \A k : Live(k) = LiveIn(Book(k))
    BY DEF Live, LiveIn
  <2> QED
    BY <2>1 DEF OrdersInv, TableFollows, Complete, TableComplete, Look
<1>2. SharesInv => SharesBounded
  BY DEF SharesInv, OwedHeld, SharesBounded, Look
<1>3. OrdersInv /\ SharesInv => OrdersExact
  BY <1>1, <1>2 DEF OrdersExact
<1>4. Spec => []SharesInv
  BY SharesInit, SharesNext, OrdersInvariant, PTL DEF Spec
<1> QED
  BY <1>3, <1>4, OrdersInvariant, PTL

===============================================================================
