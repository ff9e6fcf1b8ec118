------------------------------ MODULE ArcaBook ------------------------------
(***************************************************************************)
(* What an ARCA line does with the messages of a packet it publishes: the  *)
(* parsers and publications of the book feed                               *)
(* (src/feeds/arca/multicast/common) and of the trade feed                 *)
(* (src/feeds/arca/trade/common).                                          *)
(*                                                                         *)
(* A message is the record of the fields the exchange filled in, and ok,   *)
(* whether its body is long enough.  A parser copies the fields of its     *)
(* kind into a zeroed body.  The symbol, firm and order tables belong to   *)
(* the reference plugins, which are not part of the repository: they are   *)
(* modelled from the hooks the code calls.  A table look-up of an unknown  *)
(* key fails.  The hooks that set up, pack and send a message may fail:    *)
(* the message is not sent, and the tables keep what it said.              *)
(***************************************************************************)
EXTENDS ArcaLine, Eager

CONSTANTS Hooks,     \* the names of the registered publication hooks
          MaxOrders  \* bound: the orders the order table holds

ASSUME BookAssumption == MaxOrders \in Nat

None == "none"

\* The fields of struct msg_body, zeroed.
Body0 ==
    [x |-> 0, f |-> 0, id |-> 0, vol |-> 0, px |-> 0, next |-> 0, lo |-> 0, hi |-> 0,
     orig |-> 0, sc |-> 0, price |-> 0, name |-> None, firm |-> None]

\* What the exchange sends: a packet with its number (sn), the fields of a refresh,
\* the number of messages it announces (bodies), the messages it holds, and whether
\* they decode (in FAST mode).  A price is a numerator px and a scale sc.
ArcaMsg ==
    [type : STRING, ok : BOOLEAN, x : Nat, f : Nat, id : Nat, vol : Nat, px : Nat, sc : Nat,
     next : Nat, lo : Nat, hi : Nat, orig : Nat, name : STRING, firm : STRING]
ArcaPacket ==
    [type : STRING, sn : Nat, x : Nat, cur : Nat, name : STRING, bodies : Nat,
     decodes : BOOLEAN, msgs : Seq(ArcaMsg)]

\* A price with six decimals.
MakePrice(sc, v) == IF sc < 6 THEN v * 10 ^ (6 - sc) ELSE v

Priced(b) == [b EXCEPT !.price = MakePrice(b.sc, b.px)]
Body(m, fields) == [k \in DOMAIN Body0 |-> IF k \in fields THEN m[k] ELSE Body0[k]]

ParseSequenceNumberReset(m) == Body(m, {"next"})
ParseMessageUnavailable(m) == Body(m, {"lo", "hi"})
ParseBookRefresh(m) == Body(m, {"id", "vol", "px", "sc", "f"})
ParseImbalanceRefresh(m) == Body(m, {"x", "vol", "px", "sc"})
ParseSymbolMapping(m) == Body(m, {"x", "name"})
ParseSymbolClear(m) == Body(m, {"next", "x"})
ParseFirmMapping(m) == Body(m, {"f", "firm"})
ParseOrders(m) ==
    CASE m.type \in {"add", "mod"} -> Body(m, {"x", "id", "vol", "px", "sc", "f"})
      [] m.type = "del" -> Body(m, {"x", "id", "f"})
      [] m.type = "imb" -> Body(m, {"x", "vol", "px", "sc"})
      [] OTHER -> Body(m, {"x"})
ParseTrade(m) == Priced(Body(m, {"px", "sc", "vol", "name"}))
ParseTradeCancel(m) == Body(m, {"orig", "name"})
ParseTradeCorrection(m) == Priced(Body(m, {"px", "sc", "vol", "orig", "name"}))

(***************************************************************************)
(* The tables of the reference plugins: the name of a symbol index, of a   *)
(* firm index, and the volume and the price, with six decimals, of an      *)
(* order.  wire is what has been sent for the packet in hand, pending how  *)
(* much of it has not been flushed; at is the message in hand, unsent the  *)
(* messages of the packet one of whose hooks fails.                        *)
(***************************************************************************)
Empty == [k \in {} |-> None]
Db0 ==
    [sym |-> Empty, firm |-> Empty, order |-> Empty, wire |-> <<>>, pending |-> 0,
     at |-> 0, unsent |-> {}]

Put(t, k, v) == [j \in DOMAIN t \cup {k} |-> IF j = k THEN v ELSE t[j]]
Cut(t, k) == [j \in DOMAIN t \ {k} |-> t[j]]
At(t, k) == IF k \in DOMAIN t THEN t[k] ELSE None

AddSymbol(d, b) == [d EXCEPT !.sym = Put(@, b.x, b.name)]
AddFirm(d, b) == [d EXCEPT !.firm = Put(@, b.f, b.firm)]
OrderOf(b) == [vol |-> b.vol, price |-> MakePrice(b.sc, b.px)]
AddOrder(d, b) ==
    IF b.id \notin DOMAIN d.order /\ Cardinality(DOMAIN d.order) >= MaxOrders THEN d
    ELSE [d EXCEPT !.order = Put(@, b.id, OrderOf(b))]
ModOrder(d, b) ==
    IF b.id \in DOMAIN d.order THEN [d EXCEPT !.order[b.id] = OrderOf(b)] ELSE d
DelOrder(d, b) == [d EXCEPT !.order = Cut(@, b.id)]

\* Pack the body with the hook of its kind and send it, unless a hook fails.
Send(d, hook, b) ==
    IF hook \in Hooks /\ d.at \notin d.unsent
    THEN [d EXCEPT !.wire = Append(@, [kind |-> hook, body |-> b, at |-> d.at]), !.pending = @ + 1]
    ELSE d

MsgFlush(w) == [w EXCEPT !.d.pending = 0]

WithSymbol(d, b) == [b EXCEPT !.name = At(d.sym, b.x)]
WithFirm(d, b) == [b EXCEPT !.firm = At(d.firm, b.f)]

PublishSymbolClear(d, b) == Send(d, "symbol_clear", WithSymbol(d, b))

\* A refresh names its symbol only when its first packet says so: p.cur is
\* the header's current_refresh_msg_seq.
PublishBookRefresh(d, p, b) ==
    LET named == [b EXCEPT !.x = p.x, !.name = p.name]
        e == IF "book_refresh" \in Hooks /\ p.cur = 1 THEN AddSymbol(d, named) ELSE d
    IN  Send(e, "book_refresh", IF p.cur = 1 THEN named ELSE [b EXCEPT !.x = p.x])

PublishImbalanceRefresh(d, b) == Send(d, "imbalance_refresh", b)
PublishSymbolMapping(d, b) == Send(AddSymbol(d, b), "symbol_mapping", b)
PublishFirmMapping(d, b) == Send(AddFirm(d, b), "firm_mapping", b)

\* The order table follows only what is published.
PublishAddOrder(d, b) ==
    IF "add_order" \notin Hooks THEN d
    ELSE LET n == WithFirm(d, WithSymbol(d, b)) IN Send(AddOrder(d, n), "add_order", n)

PublishModOrder(d, b) ==
    IF "modify_order" \notin Hooks THEN d
    ELSE LET n == WithFirm(d, WithSymbol(d, b)) IN Send(ModOrder(d, n), "modify_order", n)

\* mutant: the order is deleted before it is looked up
PublishDelOrderFirst(d, b) ==
    LET n == WithFirm(d, WithSymbol(d, b)) IN Send(DelOrder(d, n), "delete_order", n)
\* A delete has no volume and no price: they are taken from the table first.  The
\* price is sent with four decimals: the last two are cut off.
PublishDelOrder(d, b) ==
    IF "delete_order" \notin Hooks THEN d
    ELSE LET n == WithFirm(d, WithSymbol(d, b))
             full == IF n.id \in DOMAIN d.order
                     THEN [n EXCEPT !.vol = d.order[n.id].vol, !.price = d.order[n.id].price,
                                    !.px = d.order[n.id].price \div 100, !.sc = 4]
                     ELSE n
         IN  Send(DelOrder(d, full), "delete_order", full)

PublishImbalance(d, b) == Send(d, "imbalance", WithSymbol(d, b))
PublishStartOfDay(d, b) == Send(d, "sequence_reset", b)
PublishTrade(d, b) == Send(d, "trade", b)
PublishTradeCancel(d, b) == Send(d, "trade_cancel", b)
PublishTradeCorrection(d, b) == Send(d, "trade_correction", b)

(***************************************************************************)
(* One message: w is the feed, the packet, the group and the tables, rc    *)
(* what parse_mesg returns: the length, 0 for a short or unknown message,  *)
(* 1 for an order message of an unknown kind.                              *)
(***************************************************************************)
Published(w, d) == [w EXCEPT !.d = d, !.rc = 2]

\* Both expected numbers follow the reset, whichever copy brought it.
ResetSequence(w, m) ==
    LET b == ParseSequenceNumberReset(m)
    IN  Published([w EXCEPT !.g.exp = [c \in Copies |-> b.next]], PublishStartOfDay(w.d, b))

\* The exchange's notice is passed on one number short.
Unavailable(w, m) ==
    LET b == ParseMessageUnavailable(m)
    IN  Published([w EXCEPT !.g = NotifyPacketLoss(@, b.lo, b.hi - b.lo)], w.d)

BookRefresh(w, m, first) ==
    LET p == w.p
        b == ParseBookRefresh(m)
        named == [b EXCEPT !.x = p.x, !.name = p.name]
    IN  IF p.cur = 0 /\ first
        THEN Published(w, PublishBookRefresh(AddSymbol(w.d, named), p, named))
        ELSE Published(w, PublishBookRefresh(w.d, p, b))

Orders(w, m) ==
    LET b == ParseOrders(m)
    IN  CASE m.type = "add" -> Published(w, PublishAddOrder(w.d, b))
          [] m.type = "mod" -> Published(w, PublishModOrder(w.d, b))
          [] m.type = "del" -> Published(w, PublishDelOrder(w.d, b))
          [] m.type = "imb" -> Published(w, PublishImbalance(w.d, b))
          [] OTHER -> [w EXCEPT !.g = NotifyPacketLoss(@, w.p.sn, 1), !.rc = 1]

UnknownType(w) == [w EXCEPT !.g = NotifyPacketLoss(@, w.p.sn, 1), !.rc = 0]

ParseBookMesg(w, m, first) ==
    CASE w.p.type = "reset" -> ResetSequence(w, m)
      [] w.p.type = "unavailable" -> Unavailable(w, m)
      [] w.p.type = "book_refresh" -> BookRefresh(w, m, first)
      [] w.p.type = "imbalance_refresh" ->
             Published(w, PublishImbalanceRefresh(w.d, ParseImbalanceRefresh(m)))
      [] w.p.type = "symbol_mapping" ->
             Published(w, PublishSymbolMapping(w.d, ParseSymbolMapping(m)))
      [] w.p.type = "symbol_clear" -> Published(w, PublishSymbolClear(w.d, ParseSymbolClear(m)))
      [] w.p.type = "firm_mapping" -> Published(w, PublishFirmMapping(w.d, ParseFirmMapping(m)))
      [] w.p.type = "orders" -> Orders(w, m)
      [] OTHER -> UnknownType(w)

ParseTradeMesg(w, m) ==
    CASE w.p.type = "reset" -> ResetSequence(w, m)
      [] w.p.type = "unavailable" -> Unavailable(w, m)
      [] w.p.type = "trade" -> Published(w, PublishTrade(w.d, ParseTrade(m)))
      [] w.p.type = "trade_cancel" -> Published(w, PublishTradeCancel(w.d, ParseTradeCancel(m)))
      [] w.p.type = "trade_correction" ->
             Published(w, PublishTradeCorrection(w.d, ParseTradeCorrection(m)))
      [] OTHER -> UnknownType(w)

KnownTypes(feed) ==
    {"reset", "unavailable"} \cup
    IF feed = "book" THEN {"book_refresh", "imbalance_refresh", "symbol_mapping",
                           "symbol_clear", "firm_mapping", "orders"}
    ELSE {"trade", "trade_cancel", "trade_correction"}

\* A short body of a known type stops parse_mesg before it does anything.
ParseMesg(w, m, first) ==
    IF ~m.ok /\ w.p.type \in KnownTypes(w.feed) THEN [w EXCEPT !.rc = 0]
    ELSE IF w.feed = "book" THEN ParseBookMesg(w, m, first) ELSE ParseTradeMesg(w, m)

ParseError(g, p) == [g EXCEPT !.alerts = @ \cup {p.sn}]
RuntPacketError(g, p) == [g EXCEPT !.alerts = @ \cup {p.sn}]

(***************************************************************************)
(* process_packet: duplicates are dropped unless the packet is a sequence  *)
(* reset.  The number of any other packet is taken before it is decoded:   *)
(* one that does not decode is left without a word.  The messages it holds *)
(* are parsed and published one by one, as many as it announces, until one *)
(* cannot be; that it holds fewer is not noticed.                          *)
(***************************************************************************)
EndPacket(w) ==
    [w EXCEPT !.g = IF w.rc = 0 THEN ParseError(@, w.p) ELSE RuntPacketError(@, w.p),
              !.stop = TRUE]

InHand(w, k) == [w EXCEPT !.d.at = k]

NextMessage(w, k) ==
    IF w.stop THEN w
    ELSE Then(ParseMesg(InHand(w, k), w.p.msgs[k], k = 1), LAMBDA v : IF v.rc < 2 THEN EndPacket(v) ELSE v)

\* The header of a book refresh: its place in the refresh is read from the
\* symbol index.
ParsePacketHdr(p) == IF p.type = "book_refresh" THEN [p EXCEPT !.cur = p.x] ELSE p

Action(g, c, p) ==
    IF p.type = "reset" THEN [g |-> g, pub |-> TRUE] ELSE NeedToPublish(g, c, p.sn)

Message(w, k) == Then(w, LAMBDA v : NextMessage(v, k))
Held(p) == IF p.bodies < Len(p.msgs) THEN p.bodies ELSE Len(p.msgs)
Messages(w) == FoldLeft(Message, w, [k \in 1 .. Held(w.p) |-> k])

\* u are the messages of the packet one of whose hooks fails.
ProcessPacket(feed, g, d, c, p, u) ==
    Then(Action(g, c, p), LAMBDA a :
        Then([feed |-> feed, p |-> ParsePacketHdr(p), g |-> a.g,
              d |-> [d EXCEPT !.wire = <<>>, !.unsent = u], rc |-> 2, stop |-> FALSE], LAMBDA w :
            [w |-> IF a.pub /\ p.decodes THEN MsgFlush(Messages(w)) ELSE w, pub |-> a.pub]))

(***************************************************************************)
(* A datagram shorter than a header goes on as a packet.  Its header gets  *)
(* no length, so its bodies are read from one byte before the datagram:    *)
(* one that needs more bytes than there are ends the packet, the small     *)
(* ones are read from whatever bytes stand there.                          *)
(***************************************************************************)
CONSTANT Garbage  \* the messages the bytes of a short datagram may be read as

ASSUME GarbageAssumption == Garbage \subseteq Seq(ArcaMsg)
ASSUME StringAssumption == {"zero", "other", None} \subseteq STRING

TooShort ==
    [type |-> "other", ok |-> FALSE, x |-> 0, f |-> 0, id |-> 0, vol |-> 0, px |-> 0, sc |-> 0,
     next |-> 0, lo |-> 0, hi |-> 0, orig |-> 0, name |-> None, firm |-> None]
SmallBodies == {"reset", "unavailable", "symbol_clear", "firm_mapping"}

RuntMsgs(type) ==
    {<<TooShort>>} \cup
    IF type \in SmallBodies THEN Garbage \cup {Append(s, TooShort) : s \in Garbage} ELSE {}

=============================================================================
