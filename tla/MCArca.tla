------------------------------- MODULE MCArca -------------------------------
EXTENDS Arca

MCSockets == <<0, 1>>
MCHooks ==
    {"symbol_clear", "sequence_reset", "book_refresh", "symbol_mapping", "firm_mapping",
     "imbalance_refresh", "add_order", "modify_order", "delete_order", "imbalance",
     "trade", "trade_cancel", "trade_correction"}

M0 == [TooShort EXCEPT !.ok = TRUE, !.x = 2, !.f = 1, !.sc = 4]
Map(x, n) == [M0 EXCEPT !.type = "symbol_mapping", !.x = x, !.name = n]
Firm(n) == [M0 EXCEPT !.type = "firm_mapping", !.firm = n]
Ord(t, v) == [M0 EXCEPT !.type = t, !.id = 7, !.vol = v, !.px = v + 1]
Short == [M0 EXCEPT !.ok = FALSE]
Pkt(t, n, msgs) ==
    [type |-> t, sn |-> n, x |-> 2, cur |-> 1, name |-> "A", bodies |-> Len(msgs),
     decodes |-> TRUE, msgs |-> msgs]
Imb(n) == Pkt("orders", n, <<Ord("imb", n)>>)

\* A day of orders; numbers that restart; numbers the exchange has left out;
\* refreshes and broken packets; trades; packets in FAST mode, one of which announces
\* fewer messages than it holds, one more, and one does not decode.
MCDay ==
    { [feed |-> "book", fast |-> FALSE, pkts |->
        << Pkt("symbol_mapping", 1, <<Map(2, "A")>>), Pkt("firm_mapping", 2, <<Firm("F")>>),
           Pkt("orders", 3, <<Ord("add", 5), [Ord("mod", 3) EXCEPT !.sc = 5]>>),
           Pkt("orders", 4, <<Ord("imb", 1), Ord("del", 0)>>) >>] }
MCScripts ==
    MCDay \cup
    { [feed |-> "book", fast |-> FALSE, pkts |->
        << Pkt("unavailable", 5, <<[M0 EXCEPT !.lo = 9, !.hi = 9]>>),
           Pkt("reset", 6, <<[M0 EXCEPT !.next = 1]>>), Pkt("imbalance_refresh", 1, <<M0>>) >>],
      [feed |-> "book", fast |-> FALSE, pkts |-> <<Imb(1), Imb(3), Imb(6)>>],
      [feed |-> "book", fast |-> FALSE, pkts |->
        << Pkt("book_refresh", 1, <<M0, M0>>),
           Pkt("orders", 2, <<Ord("imb", 1), Ord("?", 1), Ord("imb", 2)>>),
           Pkt("symbol_clear", 3, <<M0>>), Pkt("unknown", 9, <<M0>>) >>],
      [feed |-> "trade", fast |-> FALSE, pkts |->
        << Pkt("trade", 1, <<M0>>), Pkt("trade_cancel", 2, <<M0, Short>>),
           Pkt("trade_correction", 3, <<M0>>) >>],
      [feed |-> "book", fast |-> TRUE, pkts |->
        << [Pkt("orders", 1, <<Ord("add", 5), Ord("add", 6)>>) EXCEPT !.bodies = 1],
           [Imb(2) EXCEPT !.decodes = FALSE], Pkt("heartbeat", 0, <<>>),
           [Pkt("orders", 3, <<Ord("del", 0)>>) EXCEPT !.bodies = 2] >>] }
MCGarbage == {<<[M0 EXCEPT !.next = 2, !.lo = 1, !.hi = 3]>>}

=============================================================================
