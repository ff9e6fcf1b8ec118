------------------------------- MODULE Orders -------------------------------
(***************************************************************************)
(* The order table behind a line: an exchange numbers the messages about   *)
(* its orders, the line's arbitration (module Arbiter, which ItchLine      *)
(* implements) decides which of them are processed and in which order, and *)
(* each one processed updates the symbol table and the order table.  The   *)
(* reference is the exchange's own book.                                   *)
(***************************************************************************)
EXTENDS OrderTable, SequencesExt, FiniteSets, Arbiter

CONSTANTS
  Dialects,    \* the feeds to consider, among "itch", "bats" and "edge"
  MaxMsgs,     \* bound on the messages the exchange sends
  Quantities,  \* the numbers of shares messages carry
  SymbolMax    \* symbol_table.size

ASSUME OrdersAssumption ==
  /\ Dialects \subseteq {"itch", "bats", "edge"}
  /\ MaxMsgs \in Nat /\ SymbolMax \in Nat
  /\ Quantities \subseteq 1..(ShareMod - 1)

VARIABLES
  dialect,   \* the feed of this behaviour
  wire,      \* what the exchange has sent, by sequence number
  table,     \* process->order_table
  symbols,   \* the stocks in process->symbol_table
  turn,      \* history: every message so far was processed once, in its turn
  refused    \* history: a hook has failed

vars == <<dialect, wire, table, symbols, turn, refused, arbiterVars>>

Init ==
  /\ dialect \in Dialects
  /\ wire = <<>>
  /\ table = NewTable
  /\ symbols = {}
  /\ turn = TRUE
  /\ refused = FALSE
  /\ ArbiterInit

-----------------------------------------------------------------------------
(* The exchange.  An order's stock is named by the number of the order that *)
(* was first added; a replacement keeps it.                                 *)

Trade(b, m) ==
  LET left == b[m.order_no].shares - m.shares IN
  CASE m.type = "add"    -> [b EXCEPT ![m.order_no] = [shares |-> m.shares, stock |-> m.stock]]
    [] m.type = "modify" -> [b EXCEPT ![m.order_no].shares = m.shares]
    [] m.type = "price"  ->
         [b EXCEPT ![m.order_no] = [shares |-> m.shares,
                                    stock |-> IF m.shares = 0 THEN 0 ELSE @.stock]]
    [] m.type \in {"execute", "cancel"} ->
         [b EXCEPT ![m.order_no] = [shares |-> left, stock |-> IF left = 0 THEN 0 ELSE @.stock]]
    [] m.type = "delete" -> [b EXCEPT ![m.order_no] = [shares |-> 0, stock |-> 0]]
    [] m.type = "replace" ->
         [b EXCEPT ![m.order_no] = [shares |-> 0, stock |-> 0],
                   ![m.new_order_no] = [shares |-> m.shares, stock |-> b[m.order_no].stock]]

EmptyBook == [o \in OrderNo |-> [shares |-> 0, stock |-> 0]]

\* The book after the first k messages, and the orders that are live in it.
Book(k) == FoldLeft(Trade, EmptyBook, SubSeq(wire, 1, k))

Live(k) == {o \in OrderNo : Book(k)[o].shares > 0}

\* A message; its symbol entry is filled in by the feed handler.  The shares of an
\* execution at a price ("price") are those that remain.
Msg(t, o, n, new) ==
  [type |-> t, order_no |-> o, shares |-> n, new_order_no |-> new,
   stock |-> IF t = "add" THEN o ELSE 0, sym |-> NULL]

Fresh ==
  {o \in OrderNo : \A i \in 1..Len(wire) : o > wire[i].order_no /\ o > wire[i].new_order_no}

\* What the exchange may send next: new orders have new numbers, and nobody
\* trades or cancels more than is left.
Sendable ==
  LET live == Live(Len(wire))
      left == Book(Len(wire))
      first == {o \in Fresh : \A p \in Fresh : o <= p}
  IN  {Msg("add", o, n, 0) : o \in first, n \in Quantities}
      \cup {m \in {Msg(t, o, n, 0) : t \in {"execute", "cancel"}, o \in live, n \in Quantities} :
              m.shares <= left[m.order_no].shares}
      \cup IF dialect = "edge" THEN {} ELSE {Msg("delete", o, 0, 0) : o \in live}
      \cup IF dialect # "itch" THEN {}
           ELSE {Msg("replace", o, n, p) : o \in live, n \in Quantities, p \in first}
      \cup IF dialect # "bats" THEN {}
           ELSE {Msg("modify", o, n, 0) : o \in live, n \in Quantities}
                \cup {Msg("price", o, n, 0) : o \in live, n \in Quantities \cup {0}}

Send(m) ==
  /\ Len(wire) < MaxMsgs
  /\ wire' = Append(wire, m)
  /\ UNCHANGED <<dialect, table, symbols, turn, refused, arbiterVars>>

-----------------------------------------------------------------------------
(* The feed handler.                                                        *)

\* fh_shr_lkp_sym_get: find the stock's entry or make one while there is room.
SymGet(st) == st \in symbols \/ Cardinality(symbols) < SymbolMax

\* The message handler: the symbol table, then the order table, then the hook.
Update(s) ==
  LET m    == wire[s]
      adds == m.type = "add" /\ SymGet(m.stock)
  IN  /\ symbols' = IF adds THEN symbols \cup {m.stock} ELSE symbols
      /\ table' = Apply(dialect, table, [m EXCEPT !.sym = IF adds THEN m.stock ELSE NULL])

\* DirectEdge comes over TCP: nothing is skipped.
InTurn(s) == dialect = "edge" => s = next

ProcessKeepsGap(s) ==   \* mutant: a late message leaves its number in the gap
  /\ s \in 1..Len(wire)
  /\ InTurn(s)
  /\ ProcessNext(s) \/ (s \in open /\ UNCHANGED arbiterVars)
  /\ Update(s)
  /\ turn' = (turn /\ s = next)
  /\ UNCHANGED <<dialect, wire, refused>>

Process(s) ==
  /\ s \in 1..Len(wire)
  /\ InTurn(s)
  /\ ProcessNext(s) \/ Recover(s)
  /\ Update(s)
  /\ turn' = (turn /\ s = next)
  /\ UNCHANGED <<dialect, wire, refused>>

\* Gaps expire and heartbeats move the line on.
SkipTo(n) ==
  /\ dialect # "edge"
  /\ next' = n /\ Skip
  /\ turn' = (turn /\ n = next)
  /\ UNCHANGED <<dialect, wire, table, symbols, refused>>

\* The plugin's hook fails after the tables were updated: the message does not
\* count as processed, so its copy from the other connection is processed too.
\* (Bound: one failing hook per behaviour.  A DirectEdge line has no copy.)
Refuse(s) ==
  /\ ~refused /\ dialect # "edge"
  /\ s \in 1..Len(wire)
  /\ \/ s >= next /\ next' = s /\ ReachUpTo(s)
     \/ s \in open /\ UNCHANGED <<next, open>>
  /\ UNCHANGED processed
  /\ Update(s)
  /\ turn' = FALSE
  /\ refused' = TRUE
  /\ UNCHANGED <<dialect, wire>>

Next ==
  \/ \E m \in Sendable : Send(m)
  \/ \E s \in SeqNo : Process(s)
  \/ \E n \in next..(Len(wire) + 1) : SkipTo(n)
  \/ \E s \in SeqNo : Refuse(s)

Spec == Init /\ [][Next]_vars

-----------------------------------------------------------------------------

\* The pool, the hash table and its own pool agree whatever is lost, late or
\* refused: a chunk is free or reachable under the key it holds, count is the
\* number of orders held, and a free chunk means a free hash element, so the
\* put whose failure fh_shr_lkp_ord_add does not check never fails.
PoolsAgree ==
  LET reached == {table.hash[o] : o \in Held(table)} IN
  /\ \A o \in Held(table) : table.entry[table.hash[o]].order_no = o
  /\ reached \cap ToSet(table.free) = {}
  /\ reached \cup ToSet(table.free) = Chunk
  /\ table.count = Cardinality(Held(table))
  /\ table.elts = Len(table.free)
  /\ Cardinality(reached) + Len(table.free) = TableSize

\* What the table says of an order is true as long as the line keeps its turn,
\* even when the table has been full: same shares as in the exchange's book,
\* and the right stock and symbol or none.
TableSound ==
  turn => \A o \in Held(table) :
            LET e == table.entry[table.hash[o]]
                b == Book(next - 1)[o]
            IN  /\ e.shares = b.shares
                /\ b.shares > 0 => e.stock \in {b.stock, NULL} /\ e.sym \in {b.stock, NULL}

\* A table as large as the exchange's book ever was holds all of it (ITCH and
\* DirectEdge, which remove an order when its last share is gone).
TableComplete ==
  (/\ turn /\ dialect # "bats"
   /\ \A k \in 0..(next - 1) : Cardinality(Live(k)) <= TableSize) =>
     /\ Live(next - 1) = Held(table)
     /\ \A o \in Held(table) : table.entry[table.hash[o]].stock = Book(next - 1)[o].stock

\* However messages are lost or late, the 32-bit subtraction never wraps while
\* no hook fails: no ITCH or DirectEdge order in the table has more shares than
\* an order can have.
SharesBounded ==
  (dialect # "bats" /\ ~refused) => \A o \in Held(table) :
    \E q \in Quantities : table.entry[table.hash[o]].shares <= q

\* Behind an unreliable line the table misses no order while it keeps its turn, and when
\* it does not, no order of it ever grows.
OrdersExact == TableComplete /\ SharesBounded

===============================================================================
