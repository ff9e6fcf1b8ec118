-------------------------------- MODULE Arca --------------------------------
(***************************************************************************)
(* An ARCA feed handler process with one line: the main thread             *)
(* (src/feeds/arca/common/fh_arca.c), the line handler thread with its     *)
(* receive loop (fh_arca_lh.c, rcv_feed_packets.c) and the management      *)
(* thread (fh_arca_mgmt.c), over the feed group of ArcaLine and the        *)
(* messages of ArcaBook.                                                   *)
(*                                                                         *)
(* The exchange sends one script of packets on both copies of the line.    *)
(* Each copy delivers it in order and may lose packets or bring the last   *)
(* one again, or cut it shorter than a header; the copies are not in step. *)
(***************************************************************************)
EXTENDS ArcaBook

CONSTANTS Scripts,    \* the feeds and packets the exchange may send
          Sockets,    \* the copies of the line in the order of the socket set
          MaxQueue,   \* bound: datagrams waiting on a socket
          MaxFaults,  \* bound: lost, repeated and cut datagrams, failing reads and
                      \* hooks, and outside stops
          RuntFaults  \* how many of them a datagram cut shorter than a header counts for

ASSUME ArcaAssumption ==
    /\ MaxQueue \in Nat /\ MaxFaults \in Nat /\ RuntFaults \in Nat /\ Sockets \in Seq(Copies)
    /\ Scripts \subseteq [feed : {"book", "trade"}, fast : BOOLEAN, pkts : Seq(ArcaPacket)]
    /\ \A s \in Scripts : s.fast \/ \A k \in 1 .. Len(s.pkts) : s.pkts[k].decodes

VARIABLES script,   \* the feed and its packets
          g, d,     \* the feed group and the tables
          net,      \* per copy, the packets the network has carried
          sock,     \* per copy, the positions of the datagrams waiting
          buf,      \* per copy, the type in its buffer and the packet whose number is there
          lh,       \* the line handler thread: pc, last, k, found of rcv_loop
          mg, main, \* the management and the main thread
          sem,      \* fh_arca_thread_init
          stopped,  \* fh_arca_stopped
          out,      \* history: the positions published
          again,    \* history: published positions the line marked missing anew
          mixed,    \* history: a reset was handled while the copies were not in step, or
                    \* a short datagram reset the numbers or went by one it never had
          blank,    \* history: the positions a short datagram stood for
          skipped,  \* history: numbers the first packet of a copy has passed over
          faults

told == <<g, d, out, again, mixed, skipped, blank>>
line == <<told, buf>>
proc == <<mg, main, sem, stopped>>
arca == <<script, line, net, sock, lh, proc, faults>>

Pkts == script.pkts
NoPacket == [type |-> "zero", at |-> 0]
Loop0 == [pc |-> "none", last |-> 0, k |-> 0, found |-> FALSE]

ArcaInit ==
    /\ script \in Scripts
    /\ g = NewFeedGroup /\ d = Db0
    /\ net = [c \in Copies |-> 0] /\ sock = [c \in Copies |-> <<>>]
    /\ buf = [c \in Copies |-> NoPacket] /\ blank = {}
    /\ lh = Loop0 /\ mg = "none" /\ main = "boot"
    /\ sem = 1 /\ stopped = FALSE
    /\ out = <<>> /\ again = {} /\ mixed = FALSE /\ skipped = {} /\ faults = 0

Faults(n) == faults + n <= MaxFaults /\ faults' = faults + n
Fault == Faults(1)

(***************************************************************************)
(* The main thread.  A failure on the way in goes straight to the exit,    *)
(* without waiting for the threads already started.                        *)
(***************************************************************************)
Boot ==
    /\ main = "boot"
    /\ main' \in {"mgmt_start", "exit"}
    /\ UNCHANGED <<script, line, net, sock, lh, mg, sem, stopped, faults>>

\* The registration with the manager fails, or the management thread is created.
MgmtStart ==
    /\ main = "mgmt_start" /\ sem > 0
    /\ \/ main' = "lh_start" /\ mg' = "init" /\ sem' = sem - 1
       \/ main' = "exit" /\ UNCHANGED <<mg, sem>>
    /\ UNCHANGED <<script, line, net, sock, lh, stopped, faults>>

LhStart ==
    /\ main = "lh_start" /\ sem > 0
    /\ main' = "mgmt_wait" /\ lh' = [lh EXCEPT !.pc = "init"] /\ sem' = sem - 1
    /\ UNCHANGED <<script, line, net, sock, mg, stopped, faults>>

\* A signal, or five seconds, end the wait for the semaphore.
LhStartFails ==
    /\ main = "lh_start" /\ Fault
    /\ main' = "exit_unjoined"
    /\ UNCHANGED <<script, line, net, sock, lh, mg, sem, stopped>>

\* mutant: the line handler thread is not waited for
MgmtWaitOnly ==
    /\ main = "mgmt_wait" /\ mg = "end"
    /\ main' = "exit"
    /\ UNCHANGED <<script, line, net, sock, lh, mg, sem, stopped, faults>>
MgmtWait ==
    /\ main = "mgmt_wait" /\ mg = "end"
    /\ main' = "lh_wait"
    /\ UNCHANGED <<script, line, net, sock, lh, mg, sem, stopped, faults>>

LhWait ==
    /\ main = "lh_wait" /\ lh.pc = "end"
    /\ main' = "exit"
    /\ UNCHANGED <<script, line, net, sock, lh, mg, sem, stopped, faults>>

\* The flag, one second, the plug-in's shutdown, then the groups are freed.
FreeGroups ==
    /\ main \in {"exit", "exit_unjoined"}
    /\ stopped' = TRUE
    /\ main' = IF main = "exit" THEN "done" ELSE "done_unjoined"
    /\ UNCHANGED <<script, line, net, sock, lh, mg, sem, faults>>

StopSignal ==
    /\ main \notin {"boot", "done", "done_unjoined", "killed"} /\ ~stopped /\ Fault
    /\ stopped' = TRUE
    /\ UNCHANGED <<script, line, net, sock, lh, mg, main, sem>>

(***************************************************************************)
(* The management thread.                                                  *)
(***************************************************************************)
MgmtPost ==
    /\ mg = "init"
    /\ mg' = "run" /\ sem' = sem + 1
    /\ UNCHANGED <<script, line, net, sock, lh, main, stopped, faults>>

\* A stop command, or the end of the connection to the manager.
MgmtProcess ==
    /\ mg = "run" /\ ~stopped /\ Fault
    /\ stopped' = TRUE
    /\ mg' \in {"run", "end"}
    /\ UNCHANGED <<script, line, net, sock, lh, main, sem>>

MgmtEnd ==
    /\ mg = "run" /\ stopped
    /\ mg' = "end"
    /\ UNCHANGED <<script, line, net, sock, lh, main, sem, stopped, faults>>

(***************************************************************************)
(* The network.                                                            *)
(***************************************************************************)
Listening == lh.pc \in {"select", "drain"}
Put1(c, i) == sock' = [sock EXCEPT ![c] = Append(@, i)]

Carry(c) ==
    /\ Listening /\ net[c] < Len(Pkts) /\ Len(sock[c]) < MaxQueue
    /\ net' = [net EXCEPT ![c] = @ + 1]
    /\ Put1(c, net[c] + 1)
    /\ UNCHANGED <<script, line, lh, proc, faults>>

Lose(c) ==
    /\ Listening /\ net[c] < Len(Pkts) /\ Fault
    /\ net' = [net EXCEPT ![c] = @ + 1]
    /\ UNCHANGED <<script, line, sock, lh, proc>>

Repeat(c) ==
    /\ Listening /\ net[c] > 0 /\ Len(sock[c]) < MaxQueue /\ Fault
    /\ Put1(c, net[c])
    /\ UNCHANGED <<script, line, net, lh, proc>>

(***************************************************************************)
(* The line handler thread.                                                *)
(***************************************************************************)
LhPost ==
    /\ lh.pc = "init"
    /\ lh' = [lh EXCEPT !.pc = "select"] /\ sem' = sem + 1
    /\ UNCHANGED <<script, line, net, sock, mg, main, stopped, faults>>

\* The position of the last reset handled.
LastReset == LET R == {j \in Range(out) : Pkts[j].type = "reset"}
             IN  IF R = {} THEN 0 ELSE CHOOSE j \in R : \A k \in R : k <= j

\* The bookkeeping of the histories around one packet.
InStep(i) ==
    /\ g.missing = {}
    /\ \A c \in Range(Sockets) : net[c] >= i /\ \A k \in 1 .. Len(sock[c]) : sock[c][k] >= i
    /\ \A k \in 1 .. Len(out) : out[k] <= i

MostAdvanced == Larger(g.exp[0], g.exp[1])

Note(c, i, r) ==
    /\ out' = IF r.pub THEN Append(out, i) ELSE out
    /\ again' = again \cup {j \in Range(out) : Pkts[j].sn \in r.w.g.missing \ g.missing}
    /\ mixed' = (mixed \/ (Pkts[i].type = "reset" /\ ~InStep(i)))
    /\ skipped' = IF Pkts[i].type = "reset" THEN {}
                  ELSE IF g.exp[c] = 0 THEN skipped \cup (MostAdvanced .. Pkts[i].sn - 1)
                  ELSE skipped

\* A datagram with a header: heartbeats are ignored, every other packet is
\* processed; the hooks of some of its messages may fail.
Datagram(c, i) ==
    /\ buf' = [buf EXCEPT ![c] = [type |-> Pkts[i].type, at |-> i]]
    /\ IF Pkts[i].type = "heartbeat" THEN UNCHANGED <<told, faults>>
       ELSE \E u \in SUBSET (1 .. Len(Pkts[i].msgs)) :
                /\ IF u = {} THEN UNCHANGED faults ELSE Fault
                /\ \E r \in {ProcessPacket(script.feed, g, d, c, Pkts[i], u)} :
                       g' = r.w.g /\ d' = r.w.d /\ Note(c, i, r) /\ UNCHANGED blank

(***************************************************************************)
(* A datagram shorter than a header is alerted without a number and goes   *)
(* on with what the buffer holds: its own type and number, its own type    *)
(* and the number of the packet before it, or nothing of its own.          *)
(***************************************************************************)
Buffers(c, i) ==
    {[type |-> Pkts[i].type, at |-> i], [buf[c] EXCEPT !.type = Pkts[i].type], buf[c]}
Number(j) == IF j = 0 THEN 0 ELSE Pkts[j].sn

RuntPackets(b) ==
    {[type |-> b.type, sn |-> Number(b.at), x |-> 0, cur |-> 0, name |-> None,
      bodies |-> IF b.at = 0 THEN 0 ELSE Pkts[b.at].bodies,
      decodes |-> TRUE, msgs |-> s] : s \in RuntMsgs(b.type)}

\* The datagram stands for a packet of its own line that could have brought the number.
StandsFor(b) ==
    /\ b.at # 0 /\ b.at >= LastReset
    /\ b.type # "reset" /\ Pkts[b.at].type \notin {"reset", "heartbeat"}

Runt(c, b) ==
    /\ Faults(RuntFaults) /\ buf' = [buf EXCEPT ![c] = b]
    /\ IF b.type = "heartbeat"
       THEN g' = RuntPacketError(g, [sn |-> 0]) /\ UNCHANGED <<d, out, again, mixed, skipped, blank>>
       ELSE \E p \in RuntPackets(b) : \E u \in SUBSET (1 .. Len(p.msgs)) :
            \E r \in {ProcessPacket(script.feed, g, d, c, p, u)} :
                /\ ~(script.fast /\ r.pub)
                /\ g' = RuntPacketError(r.w.g, [sn |-> 0]) /\ d' = r.w.d
                /\ blank' = IF r.pub THEN blank \cup {b.at} ELSE blank
                /\ IF StandsFor(b) THEN Note(c, b.at, r)
                   ELSE mixed' = TRUE /\ UNCHANGED <<out, again, skipped>>

\* get_packet: the read may fail.
GetPacket(c) ==
    \/ Fault /\ UNCHANGED <<line, sock>>
    \/ /\ sock' = [sock EXCEPT ![c] = Tail(@)]
       /\ \E i \in {Head(sock[c])} :
              Datagram(c, i) \/ \E b \in Buffers(c, i) : Runt(c, b)

\* mutant: the highest descriptor is left out of the select
SelectShort ==
    /\ lh.pc = "select" /\ ~stopped
    /\ \E j \in 1 .. Len(Sockets) - 1 :
        /\ sock[Sockets[j]] # <<>>
        /\ GetPacket(Sockets[j])
        /\ lh' = [pc |-> "drain", last |-> j - 1, k |-> 0, found |-> FALSE]
    /\ UNCHANGED <<script, net, proc>>
\* A good select starts a cycle at the first socket with data.
Select ==
    /\ lh.pc = "select" /\ ~stopped
    /\ \E j \in 1 .. Len(Sockets) :
        /\ sock[Sockets[j]] # <<>> /\ \A k \in 1 .. j - 1 : sock[Sockets[k]] = <<>>
        /\ GetPacket(Sockets[j])
        /\ lh' = [pc |-> "drain", last |-> j - 1, k |-> 0, found |-> FALSE]
    /\ UNCHANGED <<script, net, proc>>

\* Round robin from the socket after the one the cycle started at.
NextSocket == Sockets[((lh.last + 1 + lh.k) % Len(Sockets)) + 1]

Drain ==
    /\ lh.pc = "drain" /\ ~stopped
    /\ IF sock[NextSocket] # <<>> THEN GetPacket(NextSocket)
       ELSE UNCHANGED <<line, sock, faults>>
    /\ LET found == lh.found \/ sock[NextSocket] # <<>>
       IN  lh' = IF lh.k + 1 < Len(Sockets) THEN [lh EXCEPT !.k = @ + 1, !.found = found]
                 ELSE IF found THEN [lh EXCEPT !.k = 0, !.found = FALSE]
                 ELSE [Loop0 EXCEPT !.pc = "select"]
    /\ UNCHANGED <<script, net, proc>>

\* In FAST mode the header is copied by its length, which a short datagram does not
\* have: the process is killed, unless the datagram is taken for a duplicate.
Reads(c) ==
    /\ sock[c] # <<>>
    /\ \/ lh.pc = "drain" /\ c = NextSocket
       \/ /\ lh.pc = "select"
          /\ \E j \in 1 .. Len(Sockets) :
                c = Sockets[j] /\ \A k \in 1 .. j - 1 : sock[Sockets[k]] = <<>>

RuntKills ==
    /\ ~stopped /\ script.fast /\ Faults(RuntFaults)
    /\ \E c \in Range(Sockets) :
        /\ Reads(c)
        /\ \E b \in Buffers(c, Head(sock[c])) :
               b.type # "heartbeat" /\ \E p \in RuntPackets(b) : Action(g, c, p).pub
    /\ main' = "killed" /\ mg' = "end" /\ lh' = [Loop0 EXCEPT !.pc = "end"]
    /\ UNCHANGED <<script, line, net, sock, sem, stopped>>

LhEnd ==
    /\ Listening /\ stopped
    /\ lh' = [Loop0 EXCEPT !.pc = "end"]
    /\ UNCHANGED <<script, line, net, sock, proc, faults>>

MainThread == Boot \/ MgmtStart \/ LhStart \/ LhStartFails \/ MgmtWait \/ LhWait \/ FreeGroups
MgmtThread == MgmtPost \/ MgmtProcess \/ MgmtEnd
LhThread == LhPost \/ Select \/ Drain \/ RuntKills \/ LhEnd
Net == \E c \in Range(Sockets) : Carry(c) \/ Lose(c) \/ Repeat(c)

ArcaNext == MainThread \/ MgmtThread \/ LhThread \/ Net \/ StopSignal

ArcaSpec == ArcaInit /\ [][ArcaNext]_arca

\* Threads that can run do; the manager, the signals and the network need not act.
ArcaFairSpec ==
    /\ ArcaSpec
    /\ WF_arca(Boot \/ MgmtStart \/ LhStart \/ MgmtWait \/ LhWait \/ FreeGroups)
    /\ WF_arca(MgmtPost \/ MgmtEnd)
    /\ WF_arca(LhThread)

-----------------------------------------------------------------------------
ArcaTypeOK ==
    /\ g.exp \in [Copies -> Nat] /\ g.in_sequence \in BOOLEAN /\ g.status \in BOOLEAN
    /\ g.missing \subseteq Nat /\ {g.base, g.count, g.lowest, g.highest} \subseteq Nat
    /\ net \in [Copies -> 0 .. Len(Pkts)]
    /\ \A c \in Copies : Len(sock[c]) <= MaxQueue
    /\ lh.pc \in {"none", "init", "select", "drain", "end"}
    /\ mg \in {"none", "init", "run", "end"} /\ sem \in 0 .. 1 /\ stopped \in BOOLEAN

\* The numbers published since the last reset handled.
PubNums == {Pkts[j].sn : j \in {k \in Range(out) : k > LastReset}}
\* need_2_publish drops what either copy has brought before: no packet is
\* published twice, unless a second gap put it back into the window
\* (second_gap) or a reset was handled while the copies were not in step.
PublishedOnce ==
    \A j, k \in 1 .. Len(out) :
        j # k /\ out[j] = out[k] => out[j] \in again \/ Pkts[out[j]].type = "reset" \/ mixed

\* The window tells exactly what can still be recovered: out of sequence, every
\* number of it that has not been published is marked missing, unless the first
\* packet of a copy passed over it; only numbers given back by second_gap are marked
\* besides, the count is theirs, and the line is out of sequence, and has said so,
\* just as long as one is marked.
WindowExact ==
    ~mixed =>
        /\ g.count = Cardinality(g.missing)
        /\ g.status = g.in_sequence /\ g.in_sequence = (g.missing = {})
        /\ ~g.in_sequence =>
            /\ (g.base .. MostAdvanced - 1) \ PubNums \subseteq g.missing \cup skipped
            /\ g.missing \cap PubNums \subseteq {Pkts[j].sn : j \in again}
            /\ g.lowest \in g.missing /\ \A n \in g.missing : n >= g.lowest

(***************************************************************************)
(* What the exchange's own records say after the messages the first n      *)
(* packets announce and hold.                                              *)
(***************************************************************************)
Parsed(feed, p) ==
    p.type \in KnownTypes(feed) /\ \A k \in 1 .. Held(p) : p.msgs[k].ok /\ p.msgs[k].type # "?"
Whole(feed, p) == p.decodes /\ Parsed(feed, p)
Broken(feed, p) == p.decodes /\ Held(p) > 0 /\ ~Parsed(feed, p)

Exchange(t, m) ==
    CASE m.type = "symbol_mapping" -> [t EXCEPT !.sym = Put(@, m.x, m.name)]
      [] m.type = "firm_mapping" -> [t EXCEPT !.firm = Put(@, m.f, m.firm)]
      [] m.type \in {"add", "mod"} -> [t EXCEPT !.order = Put(@, m.id, OrderOf(m))]
      [] m.type = "del" -> [t EXCEPT !.order = Cut(@, m.id)]
      [] OTHER -> t

NoRecords == [sym |-> Empty, firm |-> Empty, order |-> Empty]
Recorded(t, msgs) == FoldLeft(Exchange, t, msgs)
Records ==
    [s \in Scripts |-> [n \in 0 .. Len(s.pkts) |->
        Recorded(NoRecords,
                 FlattenSeq([k \in 1 .. n |-> SubSeq(s.pkts[k].msgs, 1, Held(s.pkts[k]))]))]]

InOrderUntil(n) == blank = {} /\ \A k \in 1 .. n : out[k] = k /\ Whole(script.feed, Pkts[k])

\* As long as the packets have been published in order and whole, the tables are
\* the exchange's records, also of what a failing hook has kept from the
\* subscribers, and a delete has gone out with the volume, the price to four
\* decimals and the names of the order it deletes, which it does not carry.
RecordsKept ==
    InOrderUntil(Len(out)) =>
        /\ [f \in DOMAIN NoRecords |-> d[f]] = Records[script][Len(out)]
        /\ \A k \in 1 .. Len(d.wire) :
               d.wire[k].kind = "delete_order" =>
                   \E b \in {d.wire[k].body} :
                   \E e \in {Recorded(Records[script][Len(out) - 1],
                                   SubSeq(Pkts[Len(out)].msgs, 1, d.wire[k].at - 1))} :
                       /\ b.vol = e.order[b.id].vol /\ b.price = e.order[b.id].price
                       /\ MakePrice(b.sc, b.px) = b.price - (b.price % 100)
                       /\ b.name = e.sym[b.x] /\ b.firm = e.firm[b.f]

\* A packet with a message that cannot be parsed is alerted under its number, a
\* short datagram taken for a packet under none, and no packet is alerted that is
\* neither (parse_error, runt_packet_error in process_packet and get_packet); what
\* has been sent for a packet is flushed with it.
CutTold ==
    /\ \A j \in Range(out) \ blank : Broken(script.feed, Pkts[j]) => Pkts[j].sn \in g.alerts
    /\ blank # {} => 0 \in g.alerts
    /\ g.alerts \subseteq {0} \cup {Number(j) : j \in blank} \cup
           {Pkts[j].sn : j \in {k \in Range(out) : Broken(script.feed, Pkts[k])}}
    /\ d.pending = 0

\* Only one thread initialises at a time (fh_arca_main: "ensure that only one
\* thread is initialized at a time").
OneInit == ~(mg = "init" /\ lh.pc = "init")

\* The groups are freed only when the line handler thread has ended, and the
\* management thread too when both were started.
FreedLast ==
    /\ main \in {"done", "done_unjoined"} => lh.pc \in {"none", "end"}
    /\ main = "done" => mg \in {"none", "end"}

\* A datagram on the last socket of the set, the one a busy first socket could
\* starve, is taken, or the process stops or is killed (rcv_loop).
LastSocket == Sockets[Len(Sockets)]
Served == sock[LastSocket] # <<>> ~> (sock[LastSocket] = <<>> \/ stopped \/ main = "killed")

\* Once told to stop, the process comes to its end.
Exits == stopped ~> main \in {"done", "done_unjoined"}

\* Duplicate and gap detection over both copies.
CopiesMerged == ArcaTypeOK /\ PublishedOnce /\ WindowExact

\* The tables and the deletes sent are what the exchange's records say, and what
\* cannot be parsed has been alerted.
BookTold == RecordsKept /\ CutTold

\* The threads start one after the other and nothing they use is freed under them.
ThreadsOrdered == OneInit /\ FreedLast

\* Nothing waits for ever: neither a datagram on the last socket nor the end.
NothingStarves == Served /\ Exits

=============================================================================
