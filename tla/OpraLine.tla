------------------------------ MODULE OpraLine ------------------------------
(***************************************************************************)
(* Arbitration of one OPRA fault-tolerant line: the A and the B copy of a  *)
(* line share a window of the last WINSZ sequence numbers, and a packet is *)
(* handed to the decoder by the copy that brings it first                  *)
(* (src/feeds/opra/fast/common/fh_opra_lh.c).                              *)
(*                                                                         *)
(* The state of the line is a record                                       *)
(*   ft   the lh_ftline_t: reset_sn, seq_num, missing, window, state       *)
(*   ln   the two lh_line_t: l_reset and l_seq_num                         *)
(*   told the state that the last event notified showed                    *)
(* and, as history, since the numbers restarted:                           *)
(*   mark     the numbers the window took    pub  the numbers decoded      *)
(*   again    a number was decoded twice                                   *)
(*   restart  this packet restarted them                                   *)
(* ftl_time is written and never read and is left out, as are the          *)
(* statistics.  Slots of the window are unsigned in the code; below zero   *)
(* they stand for the wrapped values, which the code compares with a       *)
(* wrapped sum.                                                            *)
(***************************************************************************)
EXTENDS Integers, Sequences, FiniteSets, SequencesExt

CONSTANTS WINSZ,         \* slots of the window
          JumpThreshold  \* ocfg_seq_jump_threshold

ASSUME OpraLineAssumption == WINSZ \in Nat \ {0} /\ JumpThreshold \in Nat \ {0}

Sides == {"A", "B"}
Peer(l) == IF l = "A" THEN "B" ELSE "A"

\* The window as if everything up to base had arrived in order.
WinInit(base) ==
    [i \in 0 .. WINSZ - 1 |->
        (base - (base % WINSZ)) + i - (IF i > base % WINSZ THEN WINSZ ELSE 0)]

FtInit == [reset_sn |-> 0, seq_num |-> 0, missing |-> 0, win |-> WinInit(0), state |-> "NONE"]

LineInit == [reset |-> FALSE, seq_num |-> 0]

State0 == [ft |-> FtInit, ln |-> [l \in Sides |-> LineInit], told |-> "NONE",
           mark |-> {}, pub |-> {}, again |-> FALSE, restart |-> FALSE]

\* The hook or the log line of an event, which shows the state.
Notify(s) == [s EXCEPT !.told = s.ft.state]

GoStale(s) ==
    IF s.ft.state = "STALE" THEN s ELSE Notify([s EXCEPT !.ft.state = "STALE"])

\* A sequence number reset seen on l.  The copy that is waiting for its own
\* reset only leaves the waiting; the other one starts the line again at sn and
\* makes its peer wait.
LineReset(s, l, sn) ==
    IF s.ln[l].reset THEN [s EXCEPT !.ln[l].reset = FALSE]
    ELSE LET t == [s EXCEPT !.ln[Peer(l)].reset = TRUE,
                            !.ln[l].seq_num = sn,
                            !.ft = [@ EXCEPT !.reset_sn = sn, !.seq_num = sn, !.win = WinInit(sn)],
                            !.mark = {}, !.pub = {}, !.again = FALSE, !.restart = TRUE]
         IN  IF t.ft.missing > 0 THEN [GoStale(t) EXCEPT !.ft.missing = 0] ELSE t

(***************************************************************************)
(* The window, message by message.  The walk stops at the first message    *)
(* that is dropped, and the fate of the last message looked at is the fate *)
(* of the packet.                                                          *)
(***************************************************************************)
Slot(s, sn) == s.ft.win[sn % WINSZ]

\* mutant: a slot is taken without a look at what it held
TakeBlind(s, sn) == [s EXCEPT !.ft.win[sn % WINSZ] = sn, !.mark = @ \cup {sn}]

\* The message is kept: if the slot did not hold the number one window back, a
\* message was lost for good.
Take(s, sn) ==
    LET t == IF sn # Slot(s, sn) + WINSZ THEN GoStale(s) ELSE s
    IN  [t EXCEPT !.ft.win[sn % WINSZ] = sn, !.mark = @ \cup {sn}]

\* mutant: a number that sits in its slot is taken again
BehindAgain(s, sn) ==
    IF sn >= Slot(s, sn)
    THEN [s |-> Take([s EXCEPT !.ft.missing = IF @ > 0 THEN @ - 1 ELSE @], sn), drop |-> FALSE]
    ELSE [s |-> s, drop |-> TRUE]

\* A number at or behind the line's: recovered when its slot is one window back,
\* else a duplicate or too late.
Behind(s, sn) ==
    IF sn = Slot(s, sn) + WINSZ
    THEN [s |-> Take([s EXCEPT !.ft.missing = IF @ > 0 THEN @ - 1 ELSE @], sn), drop |-> FALSE]
    ELSE [s |-> s, drop |-> TRUE]

\* A number beyond the next one: the gap is missing, unless the line has not
\* started.
Beyond(s, sn) ==
    LET gap == IF s.ft.seq_num # 0 THEN sn - (s.ft.seq_num + 1) ELSE 0
    IN  Take([s EXCEPT !.ft.missing = @ + gap, !.ft.seq_num = sn], sn)

WinMessage(s, sn) ==
    IF sn = s.ft.seq_num + 1
    THEN [s |-> Take([s EXCEPT !.ft.seq_num = sn], sn), drop |-> FALSE]
    ELSE IF sn <= s.ft.seq_num THEN Behind(s, sn)
    ELSE [s |-> Beyond(s, sn), drop |-> FALSE]

\* fh_opra_lh_win_update over the messages sn .. sn + num - 1.
WinStep(acc, sn) == IF acc.drop THEN acc ELSE WinMessage(acc.s, sn)
WinUpdate(s, sn, num) ==
    FoldLeft(WinStep, [s |-> s, drop |-> FALSE], [i \in 1 .. num |-> sn + i - 1])

(***************************************************************************)
(* fh_opra_lh_is_dup.  The result says whether the packet is dropped.      *)
(* Start of day, line integrity and administrative packets are decoded     *)
(* whatever the window says.                                               *)
(***************************************************************************)
Decoded(s) == [s |-> s, drop |-> FALSE]

\* History: the numbers of p are decoded.
Publish(s, p) ==
    LET new == p.sn .. p.sn + p.num - 1
    IN  [s EXCEPT !.pub = @ \cup new, !.again = @ \/ new \cap s.pub # {}]

\* What every sequenced packet goes through: the jump, the copy's own number,
\* the wait for a reset, and the window.
Sequenced(s, l, p) ==
    LET t == IF p.sn >= s.ln[l].seq_num + JumpThreshold
             THEN Notify(LineReset(s, l, p.sn - 1))
             ELSE s
        u == IF p.sn > t.ln[l].seq_num
             THEN [t EXCEPT !.ln[l].seq_num = p.sn + p.num - 1] ELSE t
        w == WinUpdate(u, p.sn, p.num)
    IN  IF u.ln[l].reset
        THEN [s |-> u, drop |-> TRUE]
        ELSE IF w.drop THEN w ELSE [w EXCEPT !.s = Publish(@, p)]

IsDup(s0, l, p) ==
    LET s == IF s0.ft.state = "NONE" THEN GoStale(s0) ELSE s0
    IN  CASE p.cat = "H" /\ p.type = "C" ->
                 Decoded(LineReset(Notify([s EXCEPT !.ft.state = "OK"]), l, p.sn))
          [] p.cat = "H" /\ p.type = "K" ->
                 Sequenced(Notify(LineReset(s, l, p.sn)), l, p)
          [] p.cat = "H" /\ p.type = "A" -> Sequenced(LineReset(s, l, p.sn), l, p)
          [] p.cat = "H" /\ p.type = "N" -> Decoded(s)
          [] p.cat = "C" -> Decoded(s)
          [] OTHER -> Sequenced(s, l, p)

=============================================================================
