----------------------------- MODULE OpraOption -----------------------------
(***************************************************************************)
(* The OPRA option table and what each message does to an option           *)
(* (src/feeds/opra/fast/common/fh_opra_option.c, fh_opra_lo.c and          *)
(* src/feeds/opra/fast/v2/fh_opra_msg.c).                                  *)
(*                                                                         *)
(* The state is a record                                                   *)
(*   lo    the root symbols of the listed options                          *)
(*   used  the chunks taken from the option pool                           *)
(*   opt   the options in the table, by key                                *)
(*   pending  messages went to the messaging layer since the last call of  *)
(*            its flush                                                    *)
(*   exited   an assertion has ended the process                           *)
(*   sub   what a subscriber that reads only the flagged fields knows      *)
(*   wire  what a subscriber without plugin has read from the messages     *)
(*   seen  per option, the highest number offered since numbers restarted  *)
(*   missed   per option, fields changed by a message that was not sent    *)
(*            and not flagged in one that was since                        *)
(*   unread   the same, not carried by one that was sent since             *)
(* The last five are history.  Times and counters are left out.            *)
(***************************************************************************)
EXTENDS Integers, Sequences, FiniteSets, SequencesExt

CONSTANTS TableSize,   \* ocfg_table_size
          Keys,        \* option keys
          Root,        \* the root symbol of a key
          IndexKeys,   \* the keys of indices, which have no expiration
          TooLong,     \* keys whose topic does not fit its buffer
          Listed,      \* the lines of listedoptions.txt: root, sec, type
          BadRoots,    \* roots that are empty or longer than five characters
          BlankKeys    \* keys whose symbol is all blanks

ASSUME OpraOptionAssumption ==
    /\ TableSize \in Nat \ {0} /\ TooLong \subseteq Keys /\ IndexKeys \subseteq Keys
    /\ BlankKeys \subseteq Keys
    /\ Len(Listed) \in Nat /\ DOMAIN Listed = 1 .. Len(Listed)

\* What a message says of the options it is for: the key of an index has no
\* expiration, and a quote brings at most the two best prices.
OpraMsg(m) ==
    /\ m.keys \in Seq(Keys) /\ m.bbo \subseteq {"bb", "bo"}
    /\ m.cat = "Y" => \A i \in 1 .. Len(m.keys) : m.keys[i] \in IndexKeys
    /\ m.cat \in {"d", "a", "f", "k"} => m.keys # <<>> /\ m.keys[1] \notin IndexKeys

\* The fields of an option that have a flag, and the sums that have none.
Fields == {"part", "year", "open", "close", "last", "high", "low", "session", "bid", "offer",
           "bo_part", "bb_part", "open_bid", "open_offer", "daily_high", "daily_low"}

NewOption == [seq |-> 0, flags |-> {}, volume |-> 0, val |-> 0, f |-> [x \in Fields |-> 0]]

\* lo_db_add: a futures cash index is known by its underlying; a root that is empty,
\* too long or there already is not added.
LoDbAdd(lo, line) ==
    LET root == IF line.type = "FC" THEN line.sec ELSE line.root
    IN  IF root \in BadRoots THEN lo ELSE lo \cup {root}

\* fh_opra_lo_init: four kinds of lines are taken from the file.
LoLine(lo, line) == IF line.type \in {"EL", "EU", "FC", "IU"} THEN LoDbAdd(lo, line) ELSE lo
LoInit == FoldLeft(LoLine, {}, Listed)

Db0 == [lo |-> LoInit, wire |-> [k \in Keys |-> <<>>], used |-> 0, opt |-> <<>>,
        pending |-> FALSE, exited |-> FALSE, sub |-> <<>>, seen |-> [k \in Keys |-> 0],
        missed |-> [k \in Keys |-> {}], unread |-> [k \in Keys |-> {}]]

Tabled(d) == DOMAIN d.opt

(***************************************************************************)
(* iseprice: a price with its denominator code, 'A' being 1, brought to    *)
(* four decimals.                                                          *)
(***************************************************************************)
IsePrice(p) == IF p.code <= 4 THEN p.n * 10 ^ (4 - p.code) ELSE p.n \div 10 ^ (p.code - 4)

\* fh_opra_lo_lookup: the symbol fields of messages have at most five characters; a
\* root that is not listed becomes a dynamic entry, in a pool and a table that grow.
\* To hash a blank symbol ends the process (FH_ASSERT(klen) in lo_khash).
LoLookup(d, k) ==
    IF k \in BlankKeys THEN [d EXCEPT !.exited = TRUE]
    ELSE [d EXCEPT !.lo = @ \cup {Root[k]}]

\* fh_opra_opt_add: no option when the pool is empty, and when the topic does not fit,
\* which gives the chunk back.
OptAdd(d, k) ==
    LET t == LoLookup(d, k)
    IN  IF t.exited \/ t.used = TableSize \/ k \in TooLong THEN t
        ELSE [t EXCEPT !.used = @ + 1,
                       !.opt = [x \in DOMAIN @ \cup {k} |-> IF x = k THEN NewOption ELSE @[x]],
                       !.sub = [x \in DOMAIN @ \cup {k} |-> IF x = k THEN NewOption.f ELSE @[x]]]

\* opra_opt_lookup
OptLookup(d, k) == IF k \in Tabled(d) THEN d ELSE OptAdd(d, k)

(***************************************************************************)
(* Updates of an option record.                                            *)
(***************************************************************************)
Set(o, x, v) == [o EXCEPT !.f[x] = v, !.flags = @ \cup {x}]

\* Only a value that changes is flagged.
Upd(o, x, v) == IF o.f[x] = v THEN o ELSE Set(o, x, v)

\* The first value that is not zero stays.
First(o, x, v) == IF o.f[x] = 0 /\ v # 0 THEN Set(o, x, v) ELSE o

Begin(o, sn) == [o EXCEPT !.seq = sn, !.flags = {}]

\* A new entry takes its expiration from the first message.
Expiration(o) == IF o.f["year"] = 0 THEN Set(Set(o, "year", 1), "part", 1) ELSE o

OpenInterest(o, m) == Expiration(o)

\* mutant: the opening price is kept and not flagged
LastSaleQuiet(o, m) ==
    LET px == IsePrice(m.px)
        a  == Upd(Expiration(o), "session", m.session)
        b  == IF px > 0 /\ a.f["open"] = 0 THEN [a EXCEPT !.f["open"] = px] ELSE a
        c  == IF b.f["daily_low"] = 0 \/ px < b.f["daily_low"] THEN Set(b, "daily_low", px) ELSE b
        e  == IF c.f["daily_high"] < px THEN Set(c, "daily_high", px) ELSE c
    IN  [e EXCEPT !.volume = @ + m.size, !.val = @ + m.size * px]

LastSale(o, m) ==
    LET px == IsePrice(m.px)
        a  == Upd(Expiration(o), "session", m.session)
        b  == First(a, "open", px)
        c  == IF b.f["daily_low"] = 0 \/ px < b.f["daily_low"] THEN Set(b, "daily_low", px) ELSE b
        e  == IF c.f["daily_high"] < px THEN Set(c, "daily_high", px) ELSE c
    IN  [e EXCEPT !.volume = @ + m.size, !.val = @ + m.size * px]

\* The day's summary: one price stands for open, high and low, the other for
\* last and close; bid and offer come as in a quote.
EndOfDay(o, m) ==
    LET px == IsePrice(m.px)
        px2 == IsePrice(m.px2)
        a == Upd(Upd(Expiration(o), "bid", px), "offer", px2)
        b == Upd(Upd(Upd(a, "open", px), "high", px), "low", px)
    IN  Upd(Upd(b, "last", px2), "close", px2)

\* A quote; m.bbo says which best prices are appended to it.
Quote(o, m) ==
    LET a == First(First(Expiration(o), "open_offer", IsePrice(m.px2)), "open_bid", IsePrice(m.px))
        b == Upd(a, "session", m.session)
        c == IF "bo" \in m.bbo THEN Upd(b, "bo_part", m.part) ELSE b
    IN  IF "bb" \in m.bbo THEN Upd(c, "bb_part", m.part) ELSE c

IndexValue(o, m) == Upd(o, "last", IsePrice(m.px))

IndexBidOffer(o, m) == Upd(Upd(o, "bid", IsePrice(m.px)), "offer", IsePrice(m.px2))

Update(o, m) ==
    CASE m.cat = "d" -> OpenInterest(o, m)
      [] m.cat = "a" -> LastSale(o, m)
      [] m.cat = "f" -> EndOfDay(o, m)
      [] m.cat = "k" -> Quote(o, m)
      [] m.cat = "Y" /\ m.type = " " -> IndexValue(o, m)
      [] m.cat = "Y" /\ m.type = "I" -> IndexBidOffer(o, m)

(***************************************************************************)
(* Publication: a message goes out with the option's flags, carries some   *)
(* of its fields, and has zeros where a best price is not appended.        *)
(***************************************************************************)
MlSend(d, k, carried, zeros) ==
    [d EXCEPT !.pending = TRUE,
              !.sub[k] = [x \in Fields |-> IF x \in d.opt[k].flags THEN d.opt[k].f[x] ELSE @[x]],
              !.wire[k] = [x \in DOMAIN @ \cup carried \cup zeros |->
                              IF x \in carried THEN d.opt[k].f[x]
                              ELSE IF x \in zeros THEN 0 ELSE @[x]],
              !.missed[k] = @ \ d.opt[k].flags,
              !.unread[k] = @ \ carried]

\* The pack hook or the messaging layer fails: the sender returns, and the option
\* stays as the message has made it.
Unsent(d, k) ==
    [d EXCEPT !.missed[k] = @ \cup d.opt[k].flags, !.unread[k] = @ \cup d.opt[k].flags]

OiSend(d, k) == MlSend(d, k, {}, {})
UvLsSend(d, k) == MlSend(d, k, {"last"}, {})
UvBoSend(d, k) == MlSend(d, k, {"bid", "offer"}, {})

LsSend(d, k) == MlSend(d, k, {"year", "session", "open", "daily_high", "daily_low"}, {})
EodSend(d, k) == MlSend(d, k, {"year", "bid", "offer", "open", "high", "low", "last", "close"}, {})
QuoteSend(d, k) == MlSend(d, k, {"year", "session", "open_bid", "open_offer"}, {})
QuoteBoSend(d, k) ==
    MlSend(d, k, {"year", "session", "open_bid", "open_offer", "bo_part"}, {"bb_part"})
QuoteBbSend(d, k) ==
    MlSend(d, k, {"year", "session", "open_bid", "open_offer", "bb_part"}, {"bo_part"})
QuoteBboSend(d, k) ==
    MlSend(d, k, {"year", "session", "open_bid", "open_offer", "bo_part", "bb_part"}, {})

Send(d, m, k) ==
    CASE m.cat = "d" -> OiSend(d, k)
      [] m.cat = "a" -> LsSend(d, k)
      [] m.cat = "f" -> EodSend(d, k)
      [] m.cat = "k" /\ m.bbo = {} -> QuoteSend(d, k)
      [] m.cat = "k" /\ m.bbo = {"bo"} -> QuoteBoSend(d, k)
      [] m.cat = "k" /\ m.bbo = {"bb"} -> QuoteBbSend(d, k)
      [] m.cat = "k" /\ m.bbo = {"bb", "bo"} -> QuoteBboSend(d, k)
      [] m.cat = "Y" /\ m.type = " " -> UvLsSend(d, k)
      [] m.cat = "Y" /\ m.type = "I" -> UvBoSend(d, k)

\* u says which messages, by number and option, are not sent.
OptPublish(d, m, sn, k, u) == IF <<sn, k>> \in u THEN Unsent(d, k) ELSE Send(d, m, k)

\* mutant: an option takes every message, however old
OneUnchecked(d0, m, sn, k, u) ==
    LET d == [OptLookup(d0, k) EXCEPT !.seen[k] =
                  IF sn > @ /\ m.cat # "Y" THEN sn ELSE @]
    IN  IF k \notin Tabled(d) THEN d
        ELSE OptPublish([d EXCEPT !.opt[k] = Update(Begin(@, sn), m)], m, sn, k, u)

\* One message for one option.  A number behind the option's is dropped
\* (FH_OPRA_DROP_DUPS), except that index values are not asked.
One(d0, m, sn, k, u) ==
    LET d == [OptLookup(d0, k) EXCEPT !.seen[k] =
                  IF sn > @ /\ m.cat # "Y" THEN sn ELSE @]
    IN  IF k \notin Tabled(d) THEN d
        ELSE IF m.cat # "Y" /\ sn > 0 /\ d.opt[k].seq > sn THEN d
        ELSE OptPublish([d EXCEPT !.opt[k] = Update(Begin(@, sn), m)], m, sn, k, u)

\* fh_opra_msg_uv_process walks over the group of a message; w is the message, its
\* number, the sends that fail, the tables and whether the walk has ended.
UvValue(w, k) == IF w.d.exited THEN w ELSE [w EXCEPT !.d = One(@, w.m, w.sn, k, w.u)]

\* Bid and offer: an index that is late ends the walk over the group.
UvBidOffer(w, k) ==
    IF w.stop \/ w.d.exited THEN w
    ELSE LET t == OptLookup(w.d, k)
         IN  IF k \notin Tabled(t) THEN [w EXCEPT !.d = t]
             ELSE IF w.sn > 0 /\ t.opt[k].seq > w.sn THEN [w EXCEPT !.d = t, !.stop = TRUE]
             ELSE [w EXCEPT !.d = OptPublish([t EXCEPT !.opt[k] = Update(Begin(@, w.sn), w.m)],
                                          w.m, w.sn, k, w.u)]

Uv(d, m, sn, u) ==
    LET w == [d |-> d, m |-> m, sn |-> sn, u |-> u, stop |-> FALSE]
    IN  CASE m.type = " " -> FoldLeft(UvValue, w, m.keys).d
          [] m.type = "I" -> FoldLeft(UvBidOffer, w, m.keys).d
          [] OTHER -> d

\* fh_opra_msg_ctrl_process
Ctrl(d, sn, u) == IF <<sn, "ctrl">> \in u THEN d ELSE [d EXCEPT !.pending = TRUE]

\* The decoder's call for one message; currency categories are decoded and go
\* nowhere.
Message(d, m, sn, u) ==
    CASE m.cat \in {"C", "H"} -> Ctrl(d, sn, u)
      [] m.cat = "Y" -> Uv(d, m, sn, u)
      [] m.cat \in {"d", "a", "f", "k"} -> One(d, m, sn, m.keys[1], u)
      [] OTHER -> d

\* fast_opra_decode: the messages of a packet are numbered from the packet's; what a
\* message returns is not looked at.
DecodeNext(w, m) ==
    IF w.d.exited THEN w ELSE [w EXCEPT !.d = Message(@, m, w.sn, w.u), !.sn = @ + 1]
Decode(d, p, u) == FoldLeft(DecodeNext, [d |-> d, sn |-> p.sn, u |-> u], p.msgs).d

\* The sends that packet p may ask for.
SendsFor(m) == IF m.cat \in {"C", "H"} THEN {"ctrl"} ELSE ToSet(m.keys)
Sends(p) == UNION {{<<p.sn + j - 1, k>> : k \in SendsFor(p.msgs[j])} : j \in DOMAIN p.msgs}

\* History: numbers restart.
Restart(d) == [d EXCEPT !.seen = [k \in Keys |-> 0]]

=============================================================================
