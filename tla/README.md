# A TLA+ model of the feed handler project

The repository is a set of market data feed handlers (ITCH, BATS, DirectEdge,
OPRA, ARCA), the library they share, and the daemon and tools that manage them.
A feed handler receives an exchange's messages, usually on two mirrored multicast
connections per line, arbitrates between the copies, keeps tables of symbols and
orders, and hands each message to a plugin. This directory holds modules for
the parts of it where the logic is hard to test, TLC configurations, and proofs.

Paths below are relative to `src/`.

## 1. Inventory

| part | state | operations | interacts with | hard |
|---|---|---|---|---|
| gap list (`feeds/shared/gap_mgmt`) | a doubly linked list of records (number, size, time) from a fixed pool | push, find, del (may split), flush | parsers of ITCH and BATS | full list, splits that reuse the head node |
| ITCH parser (`feeds/itch`) | per line `next_seq_no`, gap list, statistics; per connection the time of day | packet, message, duplicate check | gap list, order table, plugin hooks | loss, copies, reordering, expiry, failing hooks, sessions |
| BATS parser (`feeds/bats`) | per line `next_seq_no`; one static gap list and gap node per process | packet, message, duplicate check | gap list, order table, hooks | a stale gap node, four lines on one list |
| order and symbol tables (`feeds/shared/lookup_tables`, `common/fh_htable.c`, `common/fh_mpool.c`) | hash table, element pool, entry pool, count | get, add, del | order message handlers of three feeds | full pools, entries used after free, 32-bit shares |
| line handler thread (`feeds/shared/line_handler`) | sockets, counters, `finished` | select loop, read, flush, statistics | parsers, management thread, main | shutdown, counters shared without a lock |
| management thread (`feeds/shared/mgmt_thread`) | connection to fhmgr, `finished` | run, reconnect, requests | fhmgr, line handler | reconnect races, shutdown |
| mirrored multicast main (`feeds/shared/mirrored_mcast`) | process record, signal handlers | start, signal, join | both threads | start order, signals |
| TCP line handler and DirectEdge session (`feeds/shared/tcp_feed`, `feeds/directedge`) | static `part_rx`, `offset`, `still_more`, the sequence number, the heart beat counter | connect, login, peek, read the rest, heart beat, debug message, end of session | DirectEdge parser, the server | a byte stream cut anywhere, broken connections, repeats after a login |
| manager (`mgmt/fhmgr`) | services with their flags, groups with their timers, connections | start, stop, restart, respawn, registration, requests, SIGTERM | feed handlers, fhctl | crashes, late answers, timers racing registrations |
| management messages (`mgmt/lib`, `common/fh_tcp.c`) | the bytes of a connection | pack, unpack, send, peek, receive | manager, services, fhctl | cut messages, nested answers, timeouts |
| OPRA (`feeds/opra/fast`) | a window per fault-tolerant line, reset flags per copy, the option table, taps; three threads | packet, window update, reset, message processing, publication | plugins, manager | copies out of step, resets on both, windows that overrun |
| ARCA (`feeds/arca`) | expected number per copy, a bit map of missing numbers, order, symbol and firm tables; three threads | packet, first and second gap, fill, reset, message processing | plugins, manager | copies out of step, gaps beyond the window, start and stop |
| FAST codecs (`feeds/opra/fast/codec`, `feeds/arca/codec`) | the value every field had last, presence maps | encode, decode | OPRA and ARCA line handlers | state carried from message to message, cut packets |
| management shell (`mgmt/cli`, `mgmt/fhctl`) | the line, the history ring and file, the command tree, aliases, the filter | keys, completion, search, commands, aliases | manager | abbreviations that change meaning, ring at its limit |
| configuration, logging, sockets, plugins, measurement | | | | see section 6 |

What makes the modelled parts correct: a message is delivered at most once and
is either delivered, still recoverable or counted as lost; what a line says of its
state is true; a table entry says what the exchange says as long as nothing was
lost, and losing something never corrupts a table's own structure; a stop ends a
process and a waiting packet is read; a service has one process and the state the
manager believes it has; what is encoded comes out as it went in.

## 2. Modules

    GapList ----------- values: the gap list as a sequence of records
      |      \
    GapHeap   GapTracker - the linked list with its pool;  the abstract list
      |      /
    GapCaller ---------- the list, the time and the bounds a caller has
      |      \
    GapFill   BatsLine - any caller, implements GapTracker;  BATS packets
    ItchLine ----------- ITCH packets over the sequence; implements Arbiter
    Arbiter ------------ what arbitration promises
    OrderTable --------- values: the order table and the order messages
    Orders ------------- exchange + Arbiter + order table
    FeedProcess -------- main, line handler thread and management thread
    EdgeLine ----------- TCP line handler, DirectEdge session, server
    FhMgr -------------- the manager with its services' processes
    Adm ---------------- the management messages over a connection
    OpraLine, OpraOption - values: the window; the option table and messages
    Opra --------------- an OPRA process over both
    ArcaLine, ArcaBook - values: gap detection; messages and tables
    Arca --------------- an ARCA process over both
    FastBytes ---------- values: bytes and digits of FAST
    ArcaFast, FastApi, OpraFast - the codecs
    CliHist, CliCmd, Cli - history; command tree, aliases, fhctl; the key loop
    Eager -------------- evaluation order for TLC
    MCFeedProcess, MCFhMgr, MCOpra, MCArca, MCAlone - instances for TLC
    LeftFold ----------- what a fold computes, for any operator
    GapListProofs, GapFillProofs, ItchLineProofs, OrdersProofs,
    FeedProcessProofs, OpraProofs, FhMgrProofs - theorems

**GapList** has the operators on sequences of records (`PushGap`, `FindGap`,
`DelGap`, `ExpiredPrefix` ...), written as function constructors and predicates
so that TLAPS can reason about them. **GapHeap** is `fh_shr_gap_fill.h` at pointer
level: nodes with `next` and `prev`, `head`, `tail`, `count`, the free stack of
`fh_mpool.c`, and `ok`, which turns FALSE when a NULL pointer is followed.
**GapFill** calls them in every order a parser can (push from the expected
number up, find then del, flush, clock ticks) and refines **GapTracker**, with
the records read along `next` as the refinement mapping.

**ItchLine** is `fh_itch_parse_pkt`, `fh_itch_parse_msg` and
`fh_itch_is_duplicate`. A packet is one `DataPkt` step, one step per message and
`EndPkt`; only the clock moves in between, as in the single-threaded code. The
network is not a component: any packet may arrive at any time on any connection,
which covers loss, copies, delay and reordering. How a message ends is chosen
from `Outcome`: well, malformed, refused by the plugin's hook, or refused by the
send hook after it was counted. `BeatSpec` is one session with heartbeats,
`SessionsSpec` several sessions without them.

**BatsLine** is `fh_bats_parse_pkt` and `fh_bats_parse_duplicate` over the linked
list, with the static `gapnode` as a pointer that outlives its packet.

**OrderTable** has what `fh_shr_lkp_order.c` and the order handlers of the three
parsers do to the table; shares are kept modulo `ShareMod` (2^32 in the code).
**Orders** puts it behind the **Arbiter**: an exchange sends a legal history,
the arbiter (which `ItchLine` is proved to implement) decides what is processed,
and the exchange's own book is the reference. A hook that fails after the table
was changed is the action `Refuse`. A BATS execution at a price (`BatsExecutePrice`) names
the shares that remain, so that it may leave, rewrite or delete the entry.

**FeedProcess** is a running process: `fh_shr_mmcast_main` from the start of the
threads on, `fh_shr_lh_run` and `fh_shr_mgmt_run` with `fh_mgmt_cl_init` and
`fh_mgmt_cl_process`. `pc` says where each thread is; a step is what a thread does
between two points where another one can see a difference, so that `packets++` is
a load (`LhRead`) and a store (`LhParse`), and the reading and the storing of the
thread id in main are apart. What a packet does in the parser is left to the
other modules: here it hands messages to the plugin, which the flush hook has to
follow. A packet arrives in a socket at any time; a read or a select may fail; the
manager may refuse, drop or answer. `pending`, `unlucky`, `since`, `raced` and
`answer` are history. `FD_ISSET` on the socket of a disabled connection reads
memory `malloc` left uninitialised: the model lets it answer either way.

**EdgeLine** is `fh_shr_tcp_lh_run` with the static variables it keeps its place
in the byte stream by, `fh_edge_login.c` and the numbering of `fh_edge_parse.c`.
The stream is modelled byte by byte, with a header of five bytes instead of ten
and bodies of two: every `Deliver` hands over any number of bytes, so each cut of
each message, header, heart beat and debug message happens, and the connection can
close or be reset after any byte. The server is external; it sends, ends a
session and begins the next, and answers a login with the stream from the number
asked for. How a message ends in `fh_edge_parse_msg` is chosen: published, refused by its
hook, which leaves the number where it was, or counted and not sent. A read inside an
attributed quote that finds nothing is a step of its own (`AttributedWaits`), from where the
next read has no limit. `torn` and `rolled` record the cuts by which the code is known
to lose its place (section 5); the properties say what holds outside them. `lost` are the
messages that were cut in two, refused or not sent: they are all that is ever lost, and
`lag` is by how many of them the number is behind.

**FhMgr** is the manager: `serv_flags`, the groups' ticks, `serv_conn` and the
connections, every request of the command line, `fh_mgmt_sg_timers`, the
registration, the detach and SIGTERM. It is one thread, so a handler is one step,
the two seconds it may wait for an answer included; what the calls of the step
meet (a command that fails, a service that is slow) is chosen with it. A handler is
an operator on the record `State` makes, and the walks over a group's services and
over `sg_list` (the constant `Groups`) are folds of the `*Visit` operators over it,
which `Become` stores. The
services' processes start, register, answer, give up, are orphaned or crash, each
as the management client does. `slipped` records that an answer or a registration
has missed its two seconds, from where the code no longer promises one instance.

**Adm** has `adm_*_pack` and `adm_*_unpack` for every message of
`mgmt/lib/admin`, `fh_adm_create` and `fh_adm_parse` with the header, and
`fh_adm_recv` as a peek and a read over a connection that cuts bytes and delays
them. Memory is bytes, byte order is what `htonl` does to it, and an array holds
`AnyByte` where nobody wrote.

**OpraLine** is `fh_opra_lh_is_dup` and `fh_opra_lh_win_update`: the window of a
fault-tolerant line, its state, the resets and jumps of the two copies.
**OpraOption** has each message category's `process` function with the fields and
flags it changes, the table with its pool, the listed options, and what the
`send` functions put on the wire. **Opra** is the process: main, line handler and
management thread, taps, and a network that delivers a script of packets on two
copies with losses, repeats and bad packets. `d.sub` and `d.wire` are two
subscribers, one that copies the fields whose flag is set and one that copies
what the messages carry. Any of the sends a packet asks for may fail (`u`), in the pack hook
or in the messaging layer; `d.missed` and `d.unread` are the fields of such messages that
nothing sent since has brought to either subscriber. `ScriptAssumption` and `OpraMsg` say what an exchange can send:
control messages travel alone, as `fh_opra_lh_v2.c` notes, and the options of an index
value are `IndexKeys`, whose keys have no expiration and which therefore never meet the
messages of options. Messages carry a symbol of at most five characters; one that is blank
(`BlankKeys`) fails the assertion in `lo_khash` and ends the process (`main` is "asserted").
`BadRoots` are roots of the file of listed options, which `lo_db_add` refuses.

**ArcaLine** is `need_2_publish` with `first_gap`, `second_gap` and the bit map of
`fh_feed_group`. **ArcaBook** has the parsers and publications of the book and
the trade feed, `process_packet`, and the tables of the reference plugins, which
are not in the repository and modelled from the hooks. A packet announces `bodies` messages
and may hold more or fewer; in FAST mode it may not decode. The hooks of any of its messages
may fail, which keeps the message from the subscribers and not from the tables. Prices have a
numerator and a scale, which `MakePrice` brings to six decimals and a delete cuts to four.
**Arca** is the process with
`rcv_loop` and the semaphore that orders the start of its threads. A read may fail, and a
datagram may be shorter than a header (`Runt`): it is alerted without a number and goes on with
whatever type and number the buffer has, its own or those of the packet before it, and with
messages read from bytes that are not its own (`Garbage`); in FAST mode it kills the process
(`RuntKills`). `blank` are the positions such a datagram was taken for. `skipped` are the
numbers that the first packet of a copy has passed over, which nobody marks when the line is
out of sequence (section 5).

**ArcaFast** has both decoders of the ARCA codec, the exchange's original and the
rewritten one that is built, field by field, and the packets an encoder makes;
**FastApi** the codec library of OPRA in both directions; **OpraFast** the messages
of version 2 and the loop over a packet, with the one codec that is peeked with,
skipped and never reset. Integers have `WordBytes` bytes; the digits of seven bits,
the stop bits and the signs are those of the code.

**CliHist**, **CliCmd** and **Cli** are the shell: the ring of commands and its
file, the tree of commands with the length that makes each unique, the aliases,
the filter, what fhctl registers, and the loop over keys with editing, history,
completion and search. The unique lengths are told with the case of the letters (`Same`,
`strncmp`) and commands found without (`SameLetters`, `strncasecmp`). The commands' words come from `Spelling`, so that an
instance can use short ones with the prefixes they share.

**Eager** has `Then` and `Fold`, which make TLC evaluate an argument once and
before its use; they change no meaning.

## 3. Runs

| run | bounds | shows |
|---|---|---|
| `gapfill_refines` | 3 nodes, numbers to 7, clock to 2 | links, count and pool agree, records are ordered and below the cursor (`ListSound`); what is lost is reported; the linked list implements the abstract one |
| `itch_full` | list of 2, numbers to 6, packets of 2, heartbeats | nothing processed twice, gaps really missing, the arbiter implemented |
| `itch_session` | list of 2, numbers to 4, two connections, two sessions | `SessionsSound`: the list stays within its pool over the end of a session with gaps open; `lost_messages` is exact in the first session and misses nothing in the second, but for what a split on a full list drops and what an alert hook keeps from being counted |
| `bats_line` | list of 2, one line, numbers to 5 | the list survives stale gap nodes and losses are reported (`GapsSound`); the cursor never goes back |
| `orders_feeds` | 3 orders, table of 2, 4 messages, 3 feeds | pools and hash agree; table sound and complete in turn; no wrap while no hook fails |
| `process_run` | 2 lines of which one is disabled, 2 packets, 1 failure, 1 request, signals | flushes, counters and status responses; a packet is read; a signal or stop ends the process |
| `edge_run` | 2 sessions, 2 messages of 2 kinds, 1 fault, 1 failing hook | `StreamExact`: place and numbering are kept, what is published is what was sent, what is lost is known; every other message arrives in the end; a stop ends the thread |
| `fhmgr_run` | 2 services in 2 groups, 2 connections, 2 processes, 1 fault | flags, connections and answers agree (`ServicesSound`); one process per service; an administrative stop holds; a respawn and a stop come to their end (`ServiceLives`) |
| `opra_run` | window of 4, three days of 5 or 6 packets, table of 2, 2 faults | decoded once and missing counted (`DecodedOnce`); the line tells the truth (`LineTold`); options are newest (`OptionsCurrent`) and known to subscribers but for what could not be sent (`SubscribersAgree`); a stop ends the process |
| `arca_run` | window of 4, six scripts of 3 or 4 packets, one of them FAST, 2 faults | published once, window exact (`CopiesMerged`); tables and deletes are the exchange's, also of what a failing hook kept back, and what cannot be parsed is alerted (`BookTold`); start and free in order (`ThreadsOrdered`); nobody starves (`NothingStarves`) |
| `alone_run` | packets of 3 ARCA messages, 3 fields, 2 OPRA packets, 4 inputs to the shell, 2 management messages | the two ARCA decoders agree, codecs round-trip and notice cuts; commands mean what they say, the history is true, the search finds; management messages arrive as sent |
| `alone_maps` (violation) | as above, with one-byte presence maps | the rewritten ARCA decoder refuses a map of one byte, the original takes it |

Why the bounds are enough. The gap list treats head, tail and middle
differently and an overflow differently from a split: three nodes have all three
positions, seven numbers open three gaps of which one can be cut in the middle
while the list is full. Timeouts compare a record's time with now: two ticks make
a record young, just at the limit and expired. For the parsers two records and
five or six numbers make the list overflow and split; packets of two messages
let the second message meet what the first one did; over two sessions four
numbers suffice to overflow a list of two with the gaps of both and to split a
record on the full list. A table of two
with three orders fills up, frees and fills again, and four messages allow add, two
trades and a delete, or add, replace and a trade. `ShareMod` = 8 is larger than twice
the largest quantity, so that a wrapped difference is told from a real one.

In `process_run` two packets can be on the two sides of one line or behind each
other on one side, the failure can hit either read or the select, and the one
request can be of any kind; a signal is possible at any time. In `edge_run` the two
messages may be in one session, before and after a reconnect, or in two, and the
one fault is any of a close, a reset, a refusal, a timeout, a heart beat or a debug
message, at any byte; one hook fails besides, for any message. In `fhmgr_run` the second service keeps the timers and
requests of a group apart from those of the first; one fault is a crash, a failing
command or a missed answer; two processes are what a second instance needs. The
windows of four in `opra_run` and `arca_run` are overrun by packets whose numbers jump, with two of
them lost, repeated or late; a fault is also a send or a hook that fails, in ARCA a read, and
a datagram shorter than a header counts as two of them (`RuntFaults`), to keep the liveness check
small: the invariants were run with it as one, too; the scripts hold a start of day, resets, jumps, each
message category, and orders that are added, changed and deleted. In `alone_run` the
three messages of a packet make a field left out in the second and present in the
third, and 10 kinds of message share the table; the numbers stand on both sides of
each change of length and sign. The ring of the history holds three of the four
inputs, and one of the start files fills it. Bytes of management messages arrive in
pieces that cut headers and bodies.

Deadlock is checked except in `orders_feeds`, where the exchange stops after
`MaxMsgs` messages, and in the runs of processes and scripts, which end.

Fairness. `process_run`: weak fairness of each of the three threads: select and usleep
return after their intervals (100 ms in the line handler, `FH_SHR_MGMT_SLEEP` in
the management thread), a read after select finds its packet, and a registration is
answered, refused or given up after the two seconds of `fh_adm_expect`. Packets,
signals and requests need never come. Failing reads are bounded: a socket that
fails for ever starves the other side of its line, since the code goes on with the
next line. `fhmgr_run`: the manager's select returns every second for its timers and
for what is readable, and a process handles what it is sent; faults need never
happen. `edge_run`: the thread runs, TCP delivers what was sent while the
connection is up, and the server takes a login in the end. `opra_run` and
`arca_run`: each thread runs; no packet need come. The parsers' properties are safety
properties: every call returns, and nothing promises that the network delivers.

Every property has a mutant in `PROJECT.json`: an operator next to the
definition it replaces, named for the mistake it makes. They are used by no
specification.

## 4. Proofs

The theorems hold for every value of the constants that the named assumptions
allow. Each follows from an inductive invariant, shown action by action; the
invariants were first run as invariants by TLC.

| module | about | theorems |
|---|---|---|
| `GapListProofs` | operators on records | lemmas only |
| `GapFillProofs` | `GapFill!Spec` | `ListInvariant`, `ListCorrect`, `LossesReported`, `ListRefines` |
| | `BatsLine!BatsSpec` | `BatsGaps`, `BatsAdvances` |
| `ItchLineProofs` | `BeatSpec` and `SessionsSpec` | `Invariance`, `TypeCorrect`, `NeverTwice`, `GapsMissing`, `Refinement`, `LossesCounted` |
| `OrdersProofs` | `Orders!Spec` | `OrdersInvariant`, `PoolsCorrect`, `TableCorrect`, `OrdersCorrect` |
| `FeedProcessProofs` | `FeedProcess!Spec` | `ProcInvariant`, `TypeCorrect`, `NeverForgotten`, `CountersCorrect`, `StatusComplete` |
| | `Arca!ArcaSpec` | `ThreadsInvariant`, `ThreadsCorrect`, `CopiesInvariant`, `CopiesAreMerged` |
| `OpraProofs` | `Opra!Spec` | `OpraInvariant`, `WindowCorrect`, `LineTrue`, `TablesInvariant`, `OptionsAreCurrent`, `SubscribersDoAgree` |
| `FhMgrProofs` | `FhMgr!Spec` | `MgrInvariant`, `ServicesAreSound`, `OneInstanceAlways`, `AdminStopsStick` |
| `LeftFold` | `FoldLeft` | `FoldRuns`, `FoldKeeps`, `FoldReaches`, `FoldSteps`, `FoldEmpty` |

**LeftFold.** A sum over records, the book after k messages and the loop of a packet
over the window are folds. The library's induction theorems take an operator as a
parameter, which the provers cannot instantiate; `LeftFold` has the operator as a
CONSTANT instead, which an INSTANCE substitutes, and states induction with a set: a
set of numbers that holds 0 and every successor holds all. From it follows that the
function `FoldLeft` chooses exists, is unique and takes one step per element
(`FoldSteps`), that what every step keeps the fold keeps (`FoldKeeps`), and the same
for an invariant that names how far the fold has come (`FoldReaches`).
`GapListProofs` instantiates it with the sum of sizes, `OrdersProofs` with `Trade`,
`OpraProofs` with `WinStep` and the walks over messages, indices and listed roots,
`FeedProcessProofs` with the messages of an ARCA packet, `GapFillProofs` with the step of a BATS packet, `FhMgrProofs`
with the eight walks of the manager.

**GapListProofs.** What the list operators do to the set `Missing(gaps)` and to order:
a push adds exactly the numbers of the new gap, del removes the number and perhaps
the records pushed out, flush removes a prefix; each keeps the records
non-overlapping, ascending and below the cursor. For ordered records `Sizes` is the
number of elements of `Missing`, which turns the counters of the code into
cardinalities.

**GapFillProofs.** For any number of nodes greater than one, any numbers, sizes and
times (`GapAssumption`, `BoundAssumption`): `ListCorrect` is `[]ListSound`,
`LossesReported` is `[]LossNoticed`, `ListRefines` is `Spec => ImplementsTracker`.
`ListSound` reads the list along `next`, from the head, and is not inductive in
that form: to say what an assignment to a pointer does to the walk one has to know that
no chunk occurs twice. `ListInv` therefore asks for a sequence c of distinct chunks
that `next`, `prev`, `head` and `tail` follow (`Linked`) and that shares the pool with
the free stack, none left over (`Pool`); with it, the ordered records and
`LossNoticed` itself. The argument has three layers: pointer stores change one field of
one node (`NextOnly`, `PrevOnly`); linking a chunk in or out turns a list with chunks c
into one with c extended or shortened (`InsertLinked` and its companions); push, del and
flush are such changes, with the chunk taken from or put on the free stack, and do to
the records what `PushGap`, `DelGap` and `DropPrefix` do. The last gives the
refinement, with `Records(list)` for the abstract list. The hypothesis `GapMax >= 2`
is needed: on a full list of one node push leaves `head` NULL (section 5).

About BATS, on top of the same lemmas: `BatsGaps` is `[]GapsSound` for a process of one
line with two nodes or more, `BatsAdvances` is `CursorAdvances` for any number of lines
and any list, broken ones included: whatever the list answers, a packet leaves the cursor,
counts it up or sets it to a later number. `gapnode` is static and outlives its packet, so the
node it points at may since have been flushed, reused for another gap or cut. The
invariant says what is still true of it: whether in the list or on the free stack, a
node only ever holds numbers below the cursor, since a freed node keeps the numbers it
had and a reused one gets those of a gap (`HeldOK`). The messages of a packet in order or
ahead are at the cursor or beyond, so that del finds none of them in a stale `gapnode` and
leaves the list alone; a packet that is behind looks its node up anew. The packet is a
fold over its numbers, for which this is an invariant with the number reached in it.
`lost_messages` is compared with the numbers that left the list, with `unreported` for what a split on a
full list drops. With several lines on the one list `GapsSound` does not hold (section 5).

**ItchLineProofs.** From `ItchAssumption` and `GapAssumption`, about one session with
heartbeats: `NeverTwice`, `GapsMissing` and `Refinement` follow from
`[](TypeOK /\ LineInv)`. `ProcessedOnce` is not inductive: a duplicate is recognised
because its number is below the cursor and in no record, so the invariant has to say
that every processed number is below the cursor and in no record; that a split or a
push keeps this needs the records to be in order and below the cursor (a record that
overlapped another one would bring a deleted number back). `PktInv` keeps the number
being parsed inside the session. About any number of sessions without heartbeats:
`LossesCounted`, `[]SessionsSound`. The alert hook that is called between the push and the count of what it dropped may
overwrite that count; `unreported` holds what was so lost without a word, beside what a split
misstates, and the theorem says that nothing else is. The end of a session leaves the records in the list,
so that they are neither ordered nor below the cursor any more. What remains true is
that a record that is dropped adds its size to the counter, and its size is at least
the number of numbers it takes out of `Missing` (`SessInv`); in the first session the
records are in order and it is exactly that.

**OrdersProofs.** From `TableAssumption` and `OrdersAssumption`, for every set of
orders, table size, number of messages and feed. `TableInv` is the structure of one
table: entries, pool, hash table and its own pool have the same keys and
complementary room. It is kept by every message, legal or not (`PoolsCorrect`).
`WireInv` says that each message was legal for the book of those before it and that
an order number is new when it is introduced; `TableFollows`, that while every
message is taken in its turn the table is sound for the book, and complete as long as
the book never was larger than the table (`TableCorrect`, `OrdersCorrect`). That no
subtraction wraps when messages come late or never is a matter of counting:
`SharesInv` represents the shares an execution takes as a set of pairs, and says that
those the exchange has taken and the table has not been told of are still in the
table's entry (`OwedHeld`), since they never exceed what the order was introduced with
(`TakenBounded`).

**FeedProcessProofs.** For every number of lines, every set of enabled connections and
without a bound on packets, failures or requests (`ProcessAssumption`). What has to be
added to the properties: an increment in flight holds the counter's value or its
connection is in `raced` (`InLine`); `to_publish` is set from the read to the flush
(`FlushInv`); once main is past `fill` the pid is there, and what a response in the
making is copied from can no longer be overwritten, because main has stored its thread
id (`StatusInv`); a thread is off until main starts it (`Started`).

**FeedProcessProofs, ARCA.** `ThreadsCorrect`, `[]ThreadsOrdered`, for every script and bound.
`ThreadInv` says where each thread can be at each place of main (`Progress`) and that the
one permit of `fh_arca_thread_init` is in the semaphore or with the thread that
initialises (`PermitKept`), unless a short datagram has killed the process.

`CopiesAreMerged`, `[]CopiesMerged`, for every window, every set of sockets and every script
of packets with natural numbers (`ArcaAssumption`), with what a short datagram may be read as
any set of messages (`GarbageAssumption`; `StringAssumption` only says that three strings are
strings). `CopyInv` says that, as long as every reset was handled in step and no short datagram
reset the numbers or went by a number its copy did not bring (`mixed`),

* the bit map, its count and the two flags agree, and a missing number is within the
  window and below the more advanced copy (`WindowOK`);
* what was published since the last reset is below the more advanced copy, and is marked
  missing only if it was marked anew; every number of the window is missing, published or
  passed over (`Told`). A packet below the more advanced copy is published only if its number is
  marked, so that it is new;
* nothing but a reset and what was marked anew is published twice (`Once`), and no copy has
  yet to bring a packet from before the last reset (`Ahead`), whose numbers would be taken
  for those after it.

The branches of `need_2_publish` are shown to keep window and history one by one (`Merged`,
`PacketKeeps`); the messages of the packet, a fold, leave the window alone and, in any packet
but a reset, what the copies expect (`GoesOn`).

**OpraProofs.** For every window size, jump threshold and script of packets
(`OpraLineAssumption`, `OpraAssumption`, and `ScriptAssumption`, which says that
numbers and counts in a header are natural numbers and what a message can be). `WinOK` ties the window to the set of
numbers decoded: the slot of a number within the window holds it exactly when it was
decoded, and `ftl_missing` is the number of those between the last restart and the
highest number that were not. `Lossless` says that a line that is OK has nothing
undecoded behind its window. Each branch of `fh_opra_lh_is_dup` is shown to keep both
(`Goes`), the loop over a packet by induction over its numbers. `WindowCorrect` is
`[]DecodedOnce`, `LineTrue` is `[]LineTold`. Sequence numbers do not wrap at
2^32 here, as in the model.

`OptionsAreCurrent` is `[]OptionsCurrent` and `SubscribersDoAgree` is `[]SubscribersAgree`, for
every table size, every list of options and every script (`OpraOptionAssumption`).
`TablesInv` has for each key (`KeyOK`): the option's number is at least the highest offered
(a message is dropped exactly when it is behind), the subscriber who follows the flags has
the option's fields except those in `missed`, the other one nothing that differs from them
outside `unread` but the zeros of a quote with one best price, and if it has the
expiration the option has one, since the first message sets it and none changes it. A key
without an option was never told of, and if a number was offered there never will be one:
the pool is used up, and chunks of options do not come back, the topic does not fit, or the
symbol is blank and the process has ended (`Unaddable`). Without that clause a later option would begin behind its number.
What a message changes is flagged and, expiration and participant apart, carried by it
(`Covers`); this is shown for each `process` function with the `send` function of its
category (`Carries`). A message that is not sent adds the fields it flagged to both sets, and one
that is takes out of them what it flags and what it carries. That a late message is recognised needs its number to be positive, as
`FH_OPRA_DROP_DUPS` does not ask for 0: the window takes only numbers above the
last restart (`SequencedGoes`), and what passes without being asked has only control messages.
Packets, index groups and the file of listed options are folds.

**FhMgrProofs.** From `MgrAssumption`, which says what the configuration code ensures (a
service has one group; the restart time is cut off at the end of the day) and that the
absent value is no name: for every configuration file, any number of services, groups,
connections and processes, and any number of faults. `ServicesAreSound` is
`[]ServicesSound`, `OneInstanceAlways` is `[]OneInstance`, `AdminStopsStick` is
`Spec => AdminStopSticks`. That a service has one process is far from inductive:
a second one is started because the first was believed to be gone, so the invariant has to
tie the flags of a service, its connection and its process to each other. `IInv` does so:

* `LifeOK`, `Ends`: a service is in one state of the life cycle, runs exactly while
  it is attached, and each end of an attachment points to the other;
* `OneOK`, as long as nothing has slipped: every process has yet to connect, or its
  registration is in a connection that was not read, or its service runs on its
  connection (`Placed`); a registration is of a service that is STARTED and there is
  one of it (`Claims`). Each of these places excludes a start, which needs the service
  stopped;
* `Quiet`, as long as nothing has slipped: no answer is on its way that nobody waits for,
  and a request that was not handled is behind a stop. Without it the manager could take
  one answer for another or close a connection in use.

Each handler is shown to map the states in which the books agree (`OK`) into themselves
and to touch no service but its own (`Near`), no group but its own (`Within`, `Apart`),
no respawn timer unless it is the timers' (`Punctual`); the walks over services and groups
follow by `FoldKeeps` and `FoldReaches`. `AdminStopSticks` needs the last of these and that
groups share no service: what one group's monitor keeps another group's restart, in the same
second, must not touch (`Sofar`).

Only model-checked:

* liveness (`Shutdown`, `Drained`, `Delivered`, `ServiceLives`, `NothingStarves`, the
  `Exits` of each process): the provers have no rule for fairness;
* what the codecs, the shell and the management messages compute: recursion over
  bytes and words;
* `BookTold` of ARCA: the tables are compared with a fold over the script's messages, which is
  exact only while the tables and the hooks of the run suffice;
* `StreamExact` of DirectEdge, a parser of a byte stream cut anywhere.

## 5. Observations

`alone_maps` is the one violation kept as a run and a finding. The following was met
while modelling and confirmed in the models or by reading. Several were once runs of
their own; the properties above exclude them where they say so.

Gap list and parsers

* a record split off into the reused head node keeps the old head's time
  (`gap_fill.h:188-215`), so times are not sorted along the list, which flush
  relies on (`:294`): such a record can outlive its timeout;
* del on a full list drops the head record but returns the size of the record
  it cut (`:208`), not "the number of lost sequence numbers" (`:159`); the unit test
  uses records of equal size, which hides it; `LossNoticed` claims for del only
  that a loss is reported, and `LossCounted` of ITCH and `LossReported` of BATS carry
  the difference in the history variable `unreported` (one BATS line over five numbers
  does not get that far: there it stays 0);
* when a push on a full list drops a gap, ITCH calls the alert hook with `&rc` before it adds
  `rc` to `lost_messages` (`fh_itch_parse.c:1076-1083`): a hook that stores its own status
  there, as the sample plugin does (`plugins/sample/itch/itch_plugin.c`, `*rc = FH_OK`), keeps
  the loss from being counted; BATS counts first (`fh_bats_parse.c:1043`). `LossCounted`
  carries this in `unreported` too;
* with a list of one node a push on the full list leaves `head` NULL (`:86-119`);
* del returns 0, not the documented -1, for a number the record does not hold (`:158`);
* the end of an ITCH session resets `next_seq_no` and keeps the gaps
  (`fh_itch_parse.c:1391`): a number of the next session is found in an old gap and
  processed twice, although `fh_itch_is_duplicate` is to return "0 if message is a
  duplicate" (`:1028`); `ProcessedOnce` is checked and proved for one session;
* without a gap list, the default, the first data packet follows the NULL
  `gaplist` (`:1414`, `:1045`), a case `:1091` means to support ("if there is no gap
  list, just add the size of the gap to the message loss counter");
* the time of day is kept per connection and time messages are deduplicated per
  line (`:1158`), so a header can carry an old time, not the "last millisecond
  timestamp before message" (`fh_itch_msg.h:75`);
* a heartbeat that names a later number moves the ITCH line on without counting
  a loss (`:1383-1388`), which is why `itch_session` has no heartbeats;
* a recovered ITCH message is published with the line's cursor as its number (`:465`);
* `itch.conf:51` documents a default gap list of 10; the code's default is 0;
* a BATS packet in order does not clear `gapnode` (`fh_bats_parse.c:1111`): when one
  is left over from a packet that filled a gap in part, the line does not advance and the
  copy of the packet is processed again;
* the BATS gap list is static (`:68`) while a process has four lines: packets of one
  line fill gaps of another, whose loss is then not reported;
* a BATS order executed to zero shares is never removed (`:273`), though the comment
  at `:265` says it can be; an execution at a price does remove it (`:348`); `TableComplete` leaves BATS out;
* ITCH and BATS reductions subtract unsigned shares without looking.

Threads of a feed handler

* `pthread_create` returns a positive number when it fails, so the test `< 0`
  (`fh_shr_lh.c:431`, `fh_shr_mgmt.c:368`, and in OPRA and ARCA) never sees it;
* a connection to the manager that is lost is not closed before the next one is
  opened (`fh_shr_mgmt.c:323-326`);
* a failed registration leaves `mcl_fd` at -1 (`fh_mgmt_client.c:104`), which the
  management thread takes for standalone mode: it never connects again.

TCP line handler

* one byte of a header left by a closed connection is peeked at for ever
  (`fh_shr_tcp_lh.c:595`), what `:618` wants to avoid ("getting stuck in a loop,
  where we PEEK but never read"); `Delivered` excludes it (`Stranded`);
* a message whose body comes in two pieces is parsed with the wrong type byte and
  dropped while the number stays behind, so that a later login repeats messages;
* `part_rx` survives a reconnect, a body in two pieces and a debug message, and a header in
  three pieces is overwritten from its beginning; the message after it is wrong (`torn`);
* `get_rest_of_attributed_data` compares `rx_len` with itself (`:214`): a short read
  counts as complete; and the socket does not block, so that a read that finds nothing sets
  `rx_len` to -1 and the next one has no limit (`:207`): it swallows whatever follows
  the quote, past the end of the buffer if it is more (`torn`);
* `fh_edge_parse_msg` returns before `(*seq_no)++` when a hook refuses the message
  (`fh_edge_parse.c:527`), and its result is ignored (`fh_shr_tcp_lh.c:536`): the number stays
  behind for the rest of the session, so that the next login has as many messages repeated, and
  the refused one is not among them once later messages have counted; a message that
  `hook_msg_send` fails to send counts and is lost; the result of the hook of an executed order
  is not tested at all (`:540`);
* a rejected login returns FH_OK, and `init_login_msg` copies the session the wrong way;
* the connect loop of `send_hb_msg` (`:159`) and `get_and_send_debug_msg` do not look at
  `finished`; a debug message without a line feed never ends (`DebugStuck`).

Manager and management messages

* `fh_adm_expect` returns FH_OK on a wrong type, length or transaction id
  (`fh_mgmt_admin.c:585`), against "verify that it corresponds to a given transaction ID"
  (`:520`): after one late answer the next request reports success without an answer;
  `AnswersMatch` holds until the first one;
* a late answer nobody waits for frees the connection: the service counts as stopped
  while it runs, and a respawn starts a second instance; `OneInstance` excludes it;
* a restart of a service that is STARTED leaves RESTART set, which undoes a later
  administrative stop (`fh_mgmt_service.c:1113`); a service that dies before it
  registers stays STARTED (`:1015`); groups without statistics or restart never respawn;
  a manager started in the very second of the restart time never restarts (`:161`);
* a sender that ends within a header leaves `fh_tcp_readex` peeking for ever
  (`common/fh_tcp.c:487`); after a read that times out half way fhctl keeps the
  connection and every later answer fails on its magic number; an answer larger than
  the caller's buffer leaves it unwritten with FH_OK.

OPRA

* a start of day that comes late on the second copy makes a stale line OK
  (`fh_opra_lh.c:574`), against "the line will never get out of stale state" (`:500`);
  `LossTold` excludes it (`reopened`);
* a tapping process ends with the first tap that is full, since the loop reads
  `tap_table[l->l_index]` at every turn (`fh_opra_lh_tap.c:153`);
* a late packet of several messages is dropped when its first number was received, and
  two missing numbers in one slot leave the later one dropped as late;
* a jump on one copy resets its healthy peer; after a reset to lower numbers an
  option's own number stays high and its messages are dropped until they catch up;
* a pack hook or a send that fails returns from the `send` function (`fh_opra_msg.c:347` and its
  siblings) with nobody looking, and the next message clears the flags (`:741`): whoever follows
  the flags keeps the old value until the field changes again, whoever reads the messages until
  the next one that carries it; `SubscribersAgree` claims the rest;
* a message whose symbol is blank ends the process in `FH_ASSERT(klen)` (`fh_opra_lo.c:285`)
  before the check for an empty root (`:222`); a symbol is copied up to five characters (`:444`);
* main may leave before the line handler has stored its thread id and then does not
  join it (`:1030`);
* daily values are never reset, a daily low of 0 stands for none, and an end of day
  overwrites the opening price.

ARCA

* the first packet of a copy that starts later sets its expected number, and what the
  slower copy still has below it is dropped as a duplicate (`seq_handling.c:186`) although
  no copy ever brought it (`:155` says "duplicate of itself or duplicated by other feed");
  out of sequence the numbers it passes over are not marked missing either, so that the line is
  in sequence again without them (`skipped`);
* a first gap wider than the window is not declared lost (`:72`); a second gap beyond
  the window rebuilds it over numbers received, which are then published twice (`again`);
* a FAST packet that does not decode is logged and left (`rcv_feed_packets.c:219`) after its number
  was taken, without an alert, and the good copy is dropped as a duplicate; a packet with fewer
  messages than it announces ends without a word (`:244`); `CutTold` claims an alert for neither;
* a hook that fails to set up, pack or send a message leaves the subscribers behind the tables for
  good; `RecordsKept` is about the tables and what was sent;
* a delete is sent with its price divided by 100 (`publications.c:904-909`), which cuts the last
  two of six decimals;
* a datagram shorter than a header is alerted and processed all the same (`rcv_feed_packets.c:588`),
  with what is left of an earlier one in the buffer: it may use up a number, so that the good copy
  is a duplicate, reset the numbers, or publish bytes that nobody sent; in FAST mode the header
  length of -1 goes to `memcpy` (`:201`) and the process ends;
* a sequence reset handled while the copies are not in step drops or repeats packets
  (`mixed`); a reset lost on one copy makes everything after it a duplicate;
* the order table is updated only by registered hooks, and a symbol clear removes nothing.

FAST

* the rewritten ARCA decoder leaves the caller's table changed after an error and
  skips the length of an unknown message twice;
* the OPRA codec is never reset; a last message longer than 255 bytes throws the
  loop over a packet off (`fast_process.c:217`).

Shell

* the unique length of a command is computed with `strncmp` (`fh_cli_cmd.c:67`) and the command
  found with `strncasecmp` (`:400`, `:404`): an alias `Sh1`, which stands first, has the length 1
  beside `show` and `service` and takes `s` and `sh` from them. `RunsTheOneMeant` therefore asks
  that no other command begins with the name's letters in the name's case;
* deleting an alias that is not the newest moves only its neighbour and loses those
  behind it (`fh_cli_alias.c:241`); `AliasRuns` excludes it (`tidy`);
* `!start` that only the oldest command fits, and `!0`, run the last command;
* TAB behind an alias or a leading blank runs the command; an alias that calls itself
  recurses without end; the end of the input spins.

## 6. Not modelled

* Configuration (`common/fh_config.c` with its grammar, the per-feed `cfg` files): a file
  read once at start into values that are the CONSTANTS here. Of fhmgr, where defaults
  decide the life of services, it is modelled.
* Logging, histograms, system monitoring, rates and statistics output: measurement.
* Sockets: system call wrappers, whose results the models choose; `fh_tcp_readex` is
  in `Adm`.
* Plugins: the hooks of messages, packs, sends and alerts succeed or fail in `ItchLine`, `Orders`,
  `EdgeLine`, `OpraOption` and `ArcaBook`; in `BatsLine` a packet ends with the first message that
  fails; `FeedProcess` ignores what the parser returns, as the code does. The samples print.
* The message envelope and the layouts of messages: conversions without control, except
  for FAST and the management messages.
* `fh_shr_tcp.c`, main of the DirectEdge handler: the threads and joins of the
  multicast process once more.

Left out inside the modelled parts: the hash function (a key is found or not),
prices, sides and plugin contexts in the order table, two orders with the same
number, the prices of BATS executions, padding bytes in keys, the time stamps of OPRA and ARCA, what the shell draws.

## 7. Plan

Of the invariants that are only model-checked, the next worth a proof is `BookTold` of ARCA,
along `CopyInv`, with an invariant that ties the tables to the published prefix of each
script. The codecs, the shell and the management messages stay with TLC.
