-------------------------------- MODULE Opra --------------------------------
(***************************************************************************)
(* An OPRA feed handler process with one fault-tolerant line: the main     *)
(* thread, the line handler thread and the management thread               *)
(* (src/feeds/opra/fast/common/fh_opra.c, fh_opra_lh.c, fh_opra_mgmt.c,    *)
(* fh_opra_lh_tap.c and src/feeds/opra/fast/v2/fh_opra_lh_v2.c), over the  *)
(* line of OpraLine and the table of OpraOption.                           *)
(*                                                                         *)
(* The exchange sends one script of packets on both copies of the line.    *)
(* Each copy delivers it in order and may lose packets, corrupt one, or    *)
(* bring an old one again or late.                                         *)
(***************************************************************************)
EXTENDS OpraLine, OpraOption

CONSTANTS Scripts,     \* the days the exchange may send
          TapPkts,       \* tap_max_pkts when the lines are tapped
          MaxFaults    \* bound: losses, corrupted and repeated packets, stops

ASSUME OpraAssumption == TapPkts \in Nat /\ MaxFaults \in Nat

\* A script is a sequence of packets; the first number and the count of
\* messages are unsigned fields of the header.  Control messages travel alone
\* (fh_opra_lh_v2.c: "admin messages are single message packet").
ASSUME ScriptAssumption ==
    \A c \in Scripts :
        /\ Len(c) \in Nat /\ DOMAIN c = 1 .. Len(c)
        /\ \A i \in 1 .. Len(c) :
            /\ c[i].sn \in Nat /\ c[i].num \in Nat
            /\ Len(c[i].msgs) \in 0 .. c[i].num /\ DOMAIN c[i].msgs = 1 .. Len(c[i].msgs)
            /\ \A j \in 1 .. Len(c[i].msgs) :
                /\ OpraMsg(c[i].msgs[j])
                /\ c[i].cat \in {"C", "H"} => c[i].msgs[j].cat \in {"C", "H"}

VARIABLES script,  \* the packets of the day
          mode,    \* "run" or "tap"
          s,       \* the fault-tolerant line
          d,       \* the option table
          net,     \* per copy, the highest position delivered
          tap,     \* per line, the tap: packets recorded, open
          lh,      \* the line handler thread: where it is, and whether its id is stored
          mg,      \* the management thread
          main,    \* the main thread
          stopped, \* opra_stopped
          reopened,\* history: a late start of day ended a stale state
          faults

vars == <<script, mode, s, d, net, tap, lh, mg, main, stopped, reopened, faults>>

NewTap == [pkts |-> 0, open |-> TRUE]

Init ==
    /\ script \in Scripts
    /\ mode \in (IF TapPkts > 0 THEN {"run", "tap"} ELSE {"run"})
    /\ s = State0 /\ d = Db0
    /\ net = [l \in Sides |-> 0]
    /\ tap = [l \in Sides |-> NewTap]
    /\ lh = [pc |-> "none", tid |-> FALSE]
    /\ mg = "none" /\ main = "mgmt_start"
    /\ stopped = FALSE /\ reopened = FALSE /\ faults = 0

Lines == <<script, mode, s, net, tap, reopened, faults>>
Alive == main \notin {"exited", "failed", "tapped", "asserted"}
Spend == faults < MaxFaults /\ faults' = faults + 1

(***************************************************************************)
(* The main thread: management first, then the line handler, then the      *)
(* joins.  Every failure on the way ends the process.                      *)
(***************************************************************************)
MgmtStart ==
    /\ main = "mgmt_start"
    /\ \/ main' = "lh_start" /\ mg' = "run"
       \/ main' = "failed" /\ UNCHANGED mg
    /\ UNCHANGED <<Lines, d, lh, stopped>>

LhStart ==
    /\ main = "lh_start"
    /\ \/ main' = "lh_wait" /\ lh' = [lh EXCEPT !.pc = "begin"]
       \/ main' = "failed" /\ UNCHANGED lh
    /\ UNCHANGED <<Lines, d, mg, stopped>>

\* The join is made only when the thread has already stored its id.
LhWait ==
    /\ main = "lh_wait"
    /\ lh.tid => lh.pc = "end"
    /\ main' = IF lh.tid THEN "mgmt_wait" ELSE "mgmt_wait_unjoined"
    /\ UNCHANGED <<Lines, d, lh, mg, stopped>>

MgmtWait ==
    /\ main \in {"mgmt_wait", "mgmt_wait_unjoined"} /\ mg = "end"
    /\ main' = "exited"
    /\ UNCHANGED <<Lines, d, lh, mg, stopped>>

Signal ==
    /\ Alive /\ main # "mgmt_start" /\ ~stopped /\ Spend
    /\ stopped' = TRUE
    /\ UNCHANGED <<script, mode, s, d, net, tap, lh, mg, main, reopened>>

(***************************************************************************)
(* The management thread.                                                  *)
(***************************************************************************)
MgmtStop ==
    /\ Alive /\ mg = "run" /\ ~stopped /\ Spend
    /\ stopped' = TRUE
    /\ UNCHANGED <<script, mode, s, d, net, tap, lh, mg, main, reopened>>

MgmtConnectionFails ==
    /\ Alive /\ mg = "run" /\ ~stopped /\ Spend
    /\ stopped' = TRUE /\ mg' = "end"
    /\ UNCHANGED <<script, mode, s, d, net, tap, lh, main, reopened>>

MgmtEnd ==
    /\ Alive /\ mg = "run" /\ stopped
    /\ mg' = "end"
    /\ UNCHANGED <<Lines, d, lh, main, stopped>>

(***************************************************************************)
(* The line handler thread.                                                *)
(***************************************************************************)
LhBegin ==
    /\ Alive /\ lh.pc = "begin"
    /\ lh' = [lh EXCEPT !.pc = "select", !.tid = TRUE]
    /\ UNCHANGED <<Lines, d, mg, main, stopped>>

\* A pass of select: the lines found readable are read once, A before B, and what
\* is pending is flushed.
Reads(l) ==
    /\ Alive
    /\ \/ lh.pc = "select" /\ ~stopped
       \/ lh.pc = "scan" /\ l = "B"

\* After A the pass goes on with B or is over.
Read(l) ==
    IF l = "A" THEN \E more \in {"scan", "flush"} : lh' = [lh EXCEPT !.pc = more]
    ELSE lh' = [lh EXCEPT !.pc = "flush"]

\* Which packet the copy delivers, and which of its messages the hooks or the messaging
\* layer refuse: the next one, one after a loss, or an old one.
Delivers(l, i, u) ==
    /\ i \in 1 .. Len(script)
    /\ IF i = net[l] + 1 /\ u = {} THEN UNCHANGED faults ELSE Spend
    /\ net' = [net EXCEPT ![l] = IF i > @ THEN i ELSE @]

\* A packet with a wrong first byte, version or header.
BadPacket(l) ==
    /\ Reads(l) /\ Read(l) /\ Spend
    /\ net[l] < Len(script)
    /\ net' = [net EXCEPT ![l] = @ + 1]
    /\ UNCHANGED <<script, mode, s, d, tap, mg, main, stopped, reopened>>

\* fh_opra_pkt_process: duplicate detection, then the messages, of which those in u are
\* not sent.
Packet(l, p, u) ==
    \E r \in {IsDup(s, l, p)} :
        /\ r.drop => u = {}
        /\ s' = [r.s EXCEPT !.restart = FALSE]
        /\ \E t \in {IF r.s.restart THEN Restart(d) ELSE d} :
              d' = IF r.drop THEN t ELSE Decode(t, p, u)
        /\ reopened' = ((reopened /\ ~r.s.restart) \/
                        (p.type = "C" /\ p.cat = "H" /\ ~r.s.restart /\ s.ft.state = "STALE"))

\* fh_udp_recv fails, or the datagram is gone: the line is left for the next pass.
ReceiveFails(l) ==
    /\ Reads(l) /\ Read(l)
    /\ UNCHANGED <<Lines, d, mg, main, stopped>>

Receive(l) ==
    /\ mode = "run" /\ Reads(l) /\ Read(l)
    /\ \E i \in 1 .. Len(script) : \E u \in SUBSET Sends(script[i]) :
          Delivers(l, i, u) /\ Packet(l, script[i], u)
    /\ main' = IF d'.exited THEN "asserted" ELSE main
    /\ UNCHANGED <<script, mode, tap, mg, stopped>>

\* fh_opra_lh_tap: a record while there is room, then the tap is closed.
TapPacket(l) ==
    tap' = IF tap[l].pkts < TapPkts
           THEN [tap EXCEPT ![l].pkts = @ + 1]
           ELSE [tap EXCEPT ![l].open = FALSE]

\* fh_opra_lh_tap_close: the loop over the taps looks at the tap of this line
\* every time, so the process ends with the first tap that is full.
Tap(l) ==
    /\ mode = "tap" /\ Reads(l) /\ Read(l)
    /\ \E i \in 1 .. Len(script) : Delivers(l, i, {}) /\ TapPacket(l)
    /\ main' = IF tap'[l].open THEN main ELSE "tapped"
    /\ UNCHANGED <<script, mode, s, d, mg, stopped, reopened>>

\* The end of a pass: pending messages are flushed.
PassEnd ==
    /\ Alive /\ lh.pc = "flush"
    /\ lh' = [lh EXCEPT !.pc = "select"]
    /\ d' = [d EXCEPT !.pending = FALSE]
    /\ UNCHANGED <<Lines, mg, main, stopped>>

\* mutant: the flag is looked at only when there is nothing left to read
LhEndIdle ==
    /\ Alive /\ lh.pc = "select" /\ stopped
    /\ \A l \in Sides : net[l] = Len(script)
    /\ lh' = [lh EXCEPT !.pc = "end"]
    /\ UNCHANGED <<Lines, d, mg, main, stopped>>

LhEnd ==
    /\ Alive /\ lh.pc = "select" /\ stopped
    /\ lh' = [lh EXCEPT !.pc = "end"]
    /\ UNCHANGED <<Lines, d, mg, main, stopped>>

Next ==
    \/ MgmtStart \/ LhStart \/ LhWait \/ MgmtWait \/ Signal
    \/ MgmtStop \/ MgmtConnectionFails \/ MgmtEnd
    \/ LhBegin \/ PassEnd \/ LhEnd
    \/ \E l \in Sides : BadPacket(l) \/ ReceiveFails(l) \/ Receive(l) \/ Tap(l)

\* Threads run, and a pass that began comes to its end.
Fairness ==
    /\ WF_vars(MgmtStart) /\ WF_vars(LhStart) /\ WF_vars(LhWait) /\ WF_vars(MgmtWait)
    /\ WF_vars(MgmtEnd) /\ WF_vars(LhBegin) /\ WF_vars(LhEnd) /\ WF_vars(PassEnd)
    /\ WF_vars(lh.pc = "scan" /\ \E l \in Sides : ReceiveFails(l) \/ Receive(l) \/ Tap(l))

Spec == Init /\ [][Next]_vars
FairSpec == Spec /\ Fairness

----------------------------------------------------------------------------
(***************************************************************************)
(* Properties.                                                             *)
(***************************************************************************)
TypeOK ==
    /\ script \in Scripts /\ mode \in {"run", "tap"}
    /\ s.ft.state \in {"NONE", "STALE", "OK"} /\ s.ft.missing \in Nat /\ s.ft.seq_num \in Nat
    /\ \A l \in Sides : net[l] \in 0 .. Len(script) /\ s.ln[l].reset \in BOOLEAN
    /\ \A l \in Sides : tap[l].pkts \in 0 .. TapPkts
    /\ main \in {"mgmt_start", "lh_start", "lh_wait", "mgmt_wait", "mgmt_wait_unjoined",
                 "exited", "failed", "tapped", "asserted"}
    /\ lh.pc \in {"none", "begin", "select", "scan", "flush", "end"} /\ mg \in {"none", "run", "end"}
    /\ faults \in 0 .. MaxFaults

\* The numbers since the last restart.
Numbers == s.ft.reset_sn + 1 .. s.ft.seq_num

\* Between two restarts of the numbers no message is decoded twice, whichever
\* copies bring it and however late, and a number is decoded only when the window
\* took it (fh_opra_lh_win_update).
AtMostOnce == ~s.again /\ s.pub \subseteq s.mark

\* ftl_missing is the number of messages that are due and that the window did not
\* take.  After a restart at number 0 the first gap is not counted: the code takes
\* 0 for a line that has not started.
MissingExact ==
    s.ft.reset_sn # 0 => s.ft.missing = Cardinality(Numbers \ s.mark)

\* A line that says OK has given no message up: nothing newer sits in the slot of a
\* message it lacks.  A start of day that arrives late on the second copy makes a
\* stale line OK again and is left out.
LossTold ==
    s.ft.state = "OK" /\ ~reopened =>
        \A n \in Numbers \ s.mark : Slot(s, n) < n

\* Whoever listens to the events of the line knows its state.
StateTold == s.told = s.ft.state

\* The two copies never wait for a reset together: somebody takes packets.
NotBothWaiting == ~(s.ln["A"].reset /\ s.ln["B"].reset)

\* An option holds the newest of the messages offered to it since the numbers
\* restarted, whatever the order in which the copies brought them
\* (FH_OPRA_DROP_DUPS).
Newest == \A k \in Tabled(d) : d.opt[k].seq >= d.seen[k]

\* The option table, its pool and the listed options agree: a chunk is out for
\* each option and for nothing else, and each option has its root.
TableAgrees ==
    /\ d.used = Cardinality(Tabled(d)) /\ d.used <= TableSize
    /\ \A k \in Tabled(d) : Root[k] \in d.lo

\* A subscriber that takes over only the fields whose flag is set knows every
\* option exactly (opt_uflags), but for the fields of messages that the process could
\* not send: flags are cleared by the next message whether or not the last went out.
FlagsTell ==
    \A k \in Tabled(d) : \A x \in Fields \ d.missed[k] : d.sub[k][x] = d.opt[k].f[x]

\* Without a plugin, too, nobody is left with an old value: a field that a subscriber
\* has read from any message of an option is the option's, since the message that
\* changes a field carries it; a field of a message that was not sent is put right by
\* the next that carries it.  A quote with one best price has zero for the participant
\* of the other.
WireTells ==
    \A k \in Tabled(d) : \A x \in DOMAIN d.wire[k] \ d.unread[k] :
        \/ d.wire[k][x] = d.opt[k].f[x]
        \/ x \in {"bo_part", "bb_part"} /\ d.wire[k][x] = 0

\* When main has joined the line handler, the flush has been called after the last
\* message.
FlushedAtExit == main = "mgmt_wait" => ~d.pending

\* A stop, from a signal, the manager or a lost connection, ends the process.
Exits == stopped ~> ~Alive

\* The window decodes no message twice and knows how many are still missing.
DecodedOnce == TypeOK /\ AtMostOnce /\ MissingExact

\* What the line says of itself is true: OK means nothing was given up, listeners have
\* been told the state, and a reset never leaves both copies waiting.
LineTold == LossTold /\ StateTold /\ NotBothWaiting

\* Each option is in the table once, with the newest of its messages.
OptionsCurrent == Newest /\ TableAgrees

\* Subscribers, through flags or through the messages alone, have every option as it
\* is but for what could not be sent to them, and nothing that was sent is left without
\* a flush when the process ends.
SubscribersAgree == FlagsTell /\ WireTells /\ FlushedAtExit

=============================================================================
