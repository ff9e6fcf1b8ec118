----------------------------- MODULE OrderTable -----------------------------
(***************************************************************************)
(* The order table of feeds/shared/lookup_tables as a value, and what the  *)
(* order messages of the three feeds that share it do to it.  A table is   *)
(*   entry : the chunks of the pool "OrderTable" (freed ones keep their    *)
(*           contents)                                                     *)
(*   free  : its free chunks, last freed first                             *)
(*   hash  : order number -> chunk, NULL when the key is not in the table  *)
(*   elts  : free elements in the hash table's own pool "HASH_ELMT"        *)
(*   count : table->count                                                  *)
(* Chunks are 1..TableSize, NULL is 0, and so are an unknown stock and a   *)
(* missing symbol entry.                                                   *)
(***************************************************************************)
EXTENDS Integers, Sequences

CONSTANTS
  OrderNo,     \* order reference numbers, positive
  TableSize,   \* order_table.size
  ShareMod     \* shares is uint32_t: ShareMod is 2^32 in the code

ASSUME TableAssumption ==
  /\ OrderNo \subseteq Nat \ {0}
  /\ TableSize \in Nat
  /\ ShareMod \in Nat \ {0}

NULL == 0
Chunk == 1..TableSize

Entry(o, n, st, sy) == [order_no |-> o, shares |-> n, stock |-> st, sym |-> sy]

\* fh_shr_lkp_ord_init: both pools get config->size chunks.
NewTable ==
  [entry |-> [c \in Chunk |-> Entry(0, 0, 0, 0)],
   free  |-> [i \in 1..TableSize |-> TableSize + 1 - i],
   hash  |-> [o \in OrderNo |-> NULL],
   elts  |-> TableSize,
   count |-> 0]

-----------------------------------------------------------------------------
(* fh_shr_lkp_ord_get, _add and _del.                                       *)

OrdGet(T, o) == T.hash[o]

\* The chunk leaves the pool first and comes back if the key is taken.  Only
\* FH_ERR_DUP is told from success: a put that finds no hash element free
\* leaves the chunk unreachable and still counts it.
OrdAddKeeps(T, e) ==   \* mutant: a refused duplicate keeps its chunk
  LET c == Head(T.free) IN
  IF T.free = <<>> THEN T
  ELSE IF T.hash[e.order_no] # NULL THEN [T EXCEPT !.entry[c] = e, !.free = Tail(@)]
  ELSE [T EXCEPT !.entry[c] = e, !.free = Tail(@), !.count = @ + 1,
                 !.hash[e.order_no] = c, !.elts = @ - 1]

OrdAdd(T, e) ==
  LET c == Head(T.free)
      held == [T EXCEPT !.entry[c] = e, !.free = Tail(@), !.count = @ + 1]
  IN  IF T.free = <<>> THEN T
      ELSE IF T.hash[e.order_no] # NULL THEN [T EXCEPT !.entry[c] = e]
      ELSE IF T.elts = 0 THEN held
      ELSE [held EXCEPT !.hash[e.order_no] = c, !.elts = @ - 1]

OrdDel(T, o) ==
  LET c == T.hash[o] IN
  IF c = NULL THEN T
  ELSE [T EXCEPT !.hash[o] = NULL, !.elts = @ + 1, !.free = <<c>> \o @, !.count = @ - 1]

SetShares(T, o, n) == [T EXCEPT !.entry[T.hash[o]].shares = n]

Shares(T, o) == T.entry[T.hash[o]].shares

-----------------------------------------------------------------------------
(* ITCH: executions and cancels subtract without looking, in 32 bits, and   *)
(* an order that reaches zero is removed.                                   *)

ItchAdd(T, m) == OrdAdd(T, Entry(m.order_no, m.shares, m.stock, m.sym))

ItchExecute(T, m) ==
  LET o    == m.order_no
      left == (Shares(T, o) - m.shares) % ShareMod
  IN  IF OrdGet(T, o) = NULL THEN T
      ELSE IF left = 0 THEN OrdDel(SetShares(T, o, left), o)
      ELSE SetShares(T, o, left)

ItchCancel(T, m) == ItchExecute(T, m)

ItchDelete(T, m) == OrdDel(T, m.order_no)

\* mutant: the new order keeps the shares of the old one
ItchReplaceShares(T, m) ==
  LET c    == OrdGet(T, m.order_no)
      from == IF c = NULL THEN Entry(0, 0, NULL, NULL) ELSE T.entry[c]
  IN  OrdAdd(OrdDel(T, m.order_no), [from EXCEPT !.order_no = m.new_order_no])

\* The new order takes over what the old entry, already freed, still holds.
ItchReplace(T, m) ==
  LET c    == OrdGet(T, m.order_no)
      from == IF c = NULL THEN Entry(0, 0, NULL, NULL) ELSE T.entry[c]
  IN  OrdAdd(OrdDel(T, m.order_no), [from EXCEPT !.order_no = m.new_order_no,
                                                 !.shares = m.shares])

-----------------------------------------------------------------------------
(* BATS: an execution is ignored when it exceeds the shares left, and the   *)
(* order stays at zero; a reduction subtracts without looking; an execution *)
(* at a price sets what remains and removes an order at zero.               *)

BatsAdd(T, m) == OrdAdd(T, Entry(m.order_no, m.shares, m.stock, m.sym))

BatsExecute(T, m) ==
  IF OrdGet(T, m.order_no) = NULL \/ m.shares > Shares(T, m.order_no) THEN T
  ELSE SetShares(T, m.order_no, Shares(T, m.order_no) - m.shares)

\* fh_bats_parse_order_execute_price_msg: the message names the shares that remain,
\* whatever was executed; an order of which none remain is removed.
BatsExecutePrice(T, m) ==
  IF OrdGet(T, m.order_no) = NULL THEN T
  ELSE IF m.shares = 0 THEN OrdDel(T, m.order_no)
  ELSE SetShares(T, m.order_no, m.shares)

BatsReduce(T, m) ==
  IF OrdGet(T, m.order_no) = NULL THEN T
  ELSE SetShares(T, m.order_no, (Shares(T, m.order_no) - m.shares) % ShareMod)

BatsModify(T, m) ==
  IF OrdGet(T, m.order_no) = NULL THEN T ELSE SetShares(T, m.order_no, m.shares)

BatsDelete(T, m) == OrdDel(T, m.order_no)

-----------------------------------------------------------------------------
(* DirectEdge: an execution or a cancel is ignored when it exceeds the      *)
(* shares left, and an order that reaches zero is removed.                  *)

EdgeAdd(T, m) == OrdAdd(T, Entry(m.order_no, m.shares, m.stock, m.sym))

EdgeExecute(T, m) ==
  LET o == m.order_no
      left == Shares(T, o) - m.shares
  IN  IF OrdGet(T, o) = NULL \/ left < 0 THEN T
      ELSE IF left = 0 THEN OrdDel(SetShares(T, o, left), o)
      ELSE SetShares(T, o, left)

EdgeCancel(T, m) == EdgeExecute(T, m)

-----------------------------------------------------------------------------

Apply(dialect, T, m) ==
  CASE dialect = "itch" /\ m.type = "add"     -> ItchAdd(T, m)
    [] dialect = "itch" /\ m.type = "execute" -> ItchExecute(T, m)
    [] dialect = "itch" /\ m.type = "cancel"  -> ItchCancel(T, m)
    [] dialect = "itch" /\ m.type = "delete"  -> ItchDelete(T, m)
    [] dialect = "itch" /\ m.type = "replace" -> ItchReplace(T, m)
    [] dialect = "bats" /\ m.type = "add"     -> BatsAdd(T, m)
    [] dialect = "bats" /\ m.type = "execute" -> BatsExecute(T, m)
    [] dialect = "bats" /\ m.type = "price"   -> BatsExecutePrice(T, m)
    [] dialect = "bats" /\ m.type = "cancel"  -> BatsReduce(T, m)
    [] dialect = "bats" /\ m.type = "modify"  -> BatsModify(T, m)
    [] dialect = "bats" /\ m.type = "delete"  -> BatsDelete(T, m)
    [] dialect = "edge" /\ m.type = "add"     -> EdgeAdd(T, m)
    [] dialect = "edge" /\ m.type = "execute" -> EdgeExecute(T, m)
    [] dialect = "edge" /\ m.type = "cancel"  -> EdgeCancel(T, m)

\* The entries a lookup can reach.
Held(T) == {o \in OrderNo : T.hash[o] # NULL}

===============================================================================
