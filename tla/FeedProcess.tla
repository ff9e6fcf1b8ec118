----------------------------- MODULE FeedProcess -----------------------------
(***************************************************************************)
(* A mirrored multicast feed handler process: main (fh_shr_mmcast.c)       *)
(* starts the line handler thread (fh_shr_lh.c) and the management thread  *)
(* (fh_shr_mgmt.c, with the client side of mgmt/lib), fills in proc_info   *)
(* and joins them.  A signal or a request of the manager sets the two      *)
(* finished flags.  No lock protects anything.  A plugin has registered    *)
(* the flush hook.                                                         *)
(***************************************************************************)
EXTENDS Integers, FiniteSets

CONSTANTS
  NumLines,     \* config->num_lines
  Enabled,      \* the enabled connections, <<line, side>>
  Standalone,   \* values of options.standalone to consider
  MaxPackets,   \* bound on the packets that arrive
  MaxFailures,  \* bound on failing reads and selects
  MaxRequests   \* bound on the requests of the manager

Side == {"primary", "secondary"}

ASSUME ProcessAssumption ==
  /\ NumLines \in Nat
  /\ Enabled \subseteq (1..NumLines) \X Side
  /\ Standalone \subseteq BOOLEAN
  /\ MaxPackets \in Nat /\ MaxFailures \in Nat /\ MaxRequests \in Nat

VARIABLES
  pc,          \* where the threads main, lh and mgmt are
  finished,    \* the static finished of fh_shr_lh.c and of fh_shr_mgmt.c
  queue,       \* packets waiting in each socket
  loop,        \* the line handler's for loop: line, count, set (read_set)
  to_publish,  \* static to_publish
  pending,     \* messages were handed to the plugin and not flushed since
  unlucky,     \* history: a read failed while to_publish was set
  packets,     \* stats.packets of each connection
  loaded,      \* the value packets++ has loaded
  since,       \* history: packets counted since the last clear
  raced,       \* history: connections cleared in the middle of packets++
  standalone,  \* options.standalone
  mcl_fd,      \* conn_context.mcl_fd: -1, 0 (static zero) or 1 (a socket)
  connected,   \* connected, with -1 for every negative value
  to_clear,    \* connections fh_shr_lh_clear_stats has not reached yet
  lh_tid,      \* lh_tid is set
  proc_info,   \* whether pid and tid are filled in
  fetched,     \* the tid main has fetched
  answer,      \* the last status response; settled: nothing was missing when asked
  budget       \* packets, failures and requests still to come

loopVars == <<loop, to_publish, pending, unlucky>>
statVars == <<packets, loaded, since, raced>>
mgrVars == <<mcl_fd, connected, to_clear>>
infoVars == <<lh_tid, proc_info, fetched, answer>>
vars == <<pc, finished, queue, loopVars, statVars, standalone, mgrVars, infoVars, budget>>

NoLoop == [line |-> 1, count |-> 0, set |-> {}]

Init ==
  /\ pc = [main |-> "lh_start", lh |-> "off", mgmt |-> "off"]
  /\ finished = [lh |-> FALSE, mgmt |-> FALSE]
  /\ queue = [c \in Enabled |-> 0]
  /\ loop = NoLoop
  /\ to_publish = FALSE /\ pending = FALSE /\ unlucky = FALSE
  /\ packets = [c \in Enabled |-> 0]
  /\ loaded = 0
  /\ since = [c \in Enabled |-> 0]
  /\ raced = {}
  /\ standalone \in Standalone
  /\ mcl_fd = 0 /\ connected = 0 /\ to_clear = {}
  /\ lh_tid = FALSE
  /\ proc_info = [pid |-> FALSE, tid |-> FALSE]
  /\ fetched = FALSE
  /\ answer = [settled |-> FALSE, pid |-> FALSE, tid |-> FALSE]
  /\ budget = [packets |-> MaxPackets, failures |-> MaxFailures, requests |-> MaxRequests]

Alive == pc.main \notin {"failed", "done"}

Goto(thread, from, to) == Alive /\ pc[thread] = from /\ pc' = [pc EXCEPT ![thread] = to]

Spend(what) == budget[what] > 0 /\ budget' = [budget EXCEPT ![what] = @ - 1]

-----------------------------------------------------------------------------
(* fh_shr_mmcast_main, from fh_shr_lh_start on, and the signal handler.     *)

MainStartLh ==
  /\ \/ Goto("main", "lh_start", "failed")
     \/ /\ Alive /\ pc.main = "lh_start"
        /\ pc' = [pc EXCEPT !.main = "mgmt_start", !.lh = "boot"]
  /\ UNCHANGED <<finished, queue, loopVars, statVars, standalone, mgrVars, infoVars, budget>>

MainStartMgmt ==
  /\ mcl_fd' = IF standalone THEN -1 ELSE mcl_fd
  /\ \/ Goto("main", "mgmt_start", "failed")
     \/ /\ Alive /\ pc.main = "mgmt_start"
        /\ pc' = [pc EXCEPT !.main = "fill", !.mgmt = "test"]
  /\ UNCHANGED <<finished, queue, loopVars, statVars, standalone, connected, to_clear,
                 infoVars, budget>>

\* memset, then pid; the tid is fetched before it is stored.
MainFill ==
  /\ Goto("main", "fill", "tid")
  /\ proc_info' = [pid |-> TRUE, tid |-> FALSE]
  /\ fetched' = lh_tid
  /\ UNCHANGED <<finished, queue, loopVars, statVars, standalone, mgrVars, lh_tid, answer,
                 budget>>

MainTid ==
  /\ Goto("main", "tid", "join_mgmt")
  /\ proc_info' = [proc_info EXCEPT !.tid = fetched]
  /\ fetched' = FALSE
  /\ UNCHANGED <<finished, queue, loopVars, statVars, standalone, mgrVars, lh_tid, answer,
                 budget>>

MainJoin ==
  /\ \/ pc.mgmt = "done" /\ Goto("main", "join_mgmt", "join_lh")
     \/ pc.lh = "done" /\ Goto("main", "join_lh", "done")
  /\ UNCHANGED <<finished, queue, loopVars, statVars, standalone, mgrVars, infoVars, budget>>

\* fh_shr_mmcast_exit sets both flags; each thread reads only its own.
ExitMgmt ==   \* mutant: only the management thread is told
  finished' = [finished EXCEPT !.mgmt = TRUE]

Exit == finished' = [lh |-> TRUE, mgmt |-> TRUE]

Signal ==
  /\ Alive /\ ~finished.mgmt
  /\ Exit
  /\ UNCHANGED <<pc, queue, loopVars, statVars, standalone, mgrVars, infoVars, budget>>

-----------------------------------------------------------------------------
(* fh_shr_lh_run.                                                           *)

LhBoot ==
  /\ Goto("lh", "boot", "test")
  /\ lh_tid' = TRUE
  /\ UNCHANGED <<finished, queue, loopVars, statVars, standalone, mgrVars, proc_info, fetched,
                 answer, budget>>

LhTest ==
  /\ Goto("lh", "test", IF finished.lh THEN "done" ELSE "select")
  /\ UNCHANGED <<finished, queue, loopVars, statVars, standalone, mgrVars, infoVars, budget>>

Ready == {c \in Enabled : queue[c] > 0}

LhSelect ==
  /\ Goto("lh", "select", "line")
  /\ Ready # {}
  /\ loop' = [line |-> 1, count |-> Cardinality(Ready), set |-> Ready]
  /\ UNCHANGED <<finished, queue, to_publish, pending, unlucky, statVars, standalone, mgrVars,
                 infoVars, budget>>

\* The wakeup interval is over, or a signal interrupts the call.
LhSelectEmpty ==
  /\ Goto("lh", "select", "test")
  /\ IF Ready = {} THEN UNCHANGED budget ELSE Spend("failures")
  /\ UNCHANGED <<finished, queue, loopVars, statVars, standalone, mgrVars, infoVars>>

\* (What the loop leaves behind is dead, and is reset here.)
LhLoopEnds ==
  /\ Goto("lh", "line", "test")
  /\ loop.count = 0 \/ loop.line > NumLines
  /\ loop' = NoLoop
  /\ UNCHANGED <<finished, queue, to_publish, pending, unlucky, statVars, standalone, mgrVars,
                 infoVars, budget>>

AtLine == loop.count > 0 /\ loop.line <= NumLines

Isset(side) == <<loop.line, side>> \in loop.set

NextLine == loop' = [loop EXCEPT !.line = @ + 1]

LhSkipPrimary ==   \* mutant: a line is skipped when its primary has nothing
  /\ Goto("lh", "line", "line")
  /\ AtLine /\ ~Isset("primary")
  /\ NextLine
  /\ UNCHANGED <<finished, queue, to_publish, pending, unlucky, statVars, standalone, mgrVars,
                 infoVars, budget>>

LhSkipLine ==
  /\ Goto("lh", "line", "line")
  /\ AtLine /\ \A s \in Side : ~Isset(s)
  /\ NextLine
  /\ UNCHANGED <<finished, queue, to_publish, pending, unlucky, statVars, standalone, mgrVars,
                 infoVars, budget>>

LhEnterResets ==   \* mutant: to_publish is not static
  /\ Goto("lh", "line", "primary")
  /\ AtLine /\ \E s \in Side : Isset(s)
  /\ to_publish' = FALSE
  /\ UNCHANGED <<finished, queue, loop, pending, unlucky, statVars, standalone, mgrVars,
                 infoVars, budget>>

\* FD_ISSET is also asked about the socket of a disabled connection, which was
\* never initialised: its answer may be anything.
LhEnterLine ==
  /\ Goto("lh", "line", "primary")
  /\ AtLine /\ \E s \in Side : Isset(s) \/ <<loop.line, s>> \notin Enabled
  /\ UNCHANGED <<finished, queue, loopVars, statVars, standalone, mgrVars, infoVars, budget>>

After(side) == IF side = "primary" THEN "secondary" ELSE "flush"

Counting(side) == IF side = "primary" THEN "count_primary" ELSE "count_secondary"

LhPassOver(side) ==
  /\ Goto("lh", side, After(side))
  /\ ~Isset(side)
  /\ UNCHANGED <<finished, queue, loopVars, statVars, standalone, mgrVars, infoVars, budget>>

LhReadFailsCounted(side) ==   \* mutant: the packet is counted before the read
  LET c == <<loop.line, side>> IN
  /\ Goto("lh", side, "line")
  /\ Isset(side)
  /\ Spend("failures")
  /\ NextLine
  /\ packets' = [packets EXCEPT ![c] = @ + 1]
  /\ unlucky' = (unlucky \/ to_publish)
  /\ UNCHANGED <<finished, queue, to_publish, pending, loaded, since, raced, standalone,
                 mgrVars, infoVars>>

\* A failing read goes on with the next line: no count--, no flush.
LhReadFails(side) ==
  /\ Goto("lh", side, "line")
  /\ Isset(side)
  /\ Spend("failures")
  /\ NextLine
  /\ unlucky' = (unlucky \/ to_publish)
  /\ UNCHANGED <<finished, queue, to_publish, pending, statVars, standalone, mgrVars, infoVars>>

LhRead(side) ==
  LET c == <<loop.line, side>> IN
  /\ Goto("lh", side, Counting(side))
  /\ Isset(side)
  /\ queue' = [queue EXCEPT ![c] = @ - 1]
  /\ to_publish' = TRUE
  /\ loaded' = packets[c]
  /\ loop' = [loop EXCEPT !.count = @ - 1]
  /\ UNCHANGED <<finished, pending, unlucky, packets, since, raced, standalone, mgrVars,
                 infoVars, budget>>

\* The end of packets++, and the parser, which hands messages to the plugin.
\* After a secondary packet the flush hook is called at once.
LhParse(side) ==
  LET c == <<loop.line, side>> IN
  /\ Goto("lh", Counting(side), After(side))
  /\ packets' = [packets EXCEPT ![c] = loaded + 1]
  /\ loaded' = 0
  /\ since' = [since EXCEPT ![c] = @ + 1]
  /\ IF side = "primary"
       THEN pending' = TRUE /\ UNCHANGED <<to_publish, unlucky>>
       ELSE pending' = FALSE /\ to_publish' = FALSE /\ unlucky' = FALSE
  /\ UNCHANGED <<finished, queue, loop, raced, standalone, mgrVars, infoVars, budget>>

LhFlush ==
  /\ Goto("lh", "flush", "line")
  /\ NextLine
  /\ to_publish' = FALSE
  /\ pending' = (pending /\ ~to_publish)
  /\ unlucky' = (unlucky /\ ~to_publish)
  /\ UNCHANGED <<finished, queue, statVars, standalone, mgrVars, infoVars, budget>>

Arrive(c) ==
  /\ Alive
  /\ Spend("packets")
  /\ queue' = [queue EXCEPT ![c] = @ + 1]
  /\ UNCHANGED <<pc, finished, loopVars, statVars, standalone, mgrVars, infoVars>>

-----------------------------------------------------------------------------
(* fh_shr_mgmt_run, fh_mgmt_cl_init and fh_mgmt_cl_process.                 *)

MgmtTest ==
  /\ Goto("mgmt", "test", IF finished.mgmt THEN "done"
                          ELSE IF mcl_fd = -1 THEN "sleep"
                          ELSE IF connected <= 0 THEN "init" ELSE "serve")
  /\ UNCHANGED <<finished, queue, loopVars, statVars, standalone, mgrVars, infoVars, budget>>

MgmtSleep ==
  /\ Goto("mgmt", "sleep", "test")
  /\ UNCHANGED <<finished, queue, loopVars, statVars, standalone, mgrVars, infoVars, budget>>

\* The manager does not accept the connection; it does, but does not answer the
\* registration; it answers.
MgmtConnectFails ==
  /\ Goto("mgmt", "init", "test")
  /\ connected' = -1
  /\ UNCHANGED <<finished, queue, loopVars, statVars, standalone, mcl_fd, to_clear, infoVars,
                 budget>>

MgmtConnect ==
  /\ Goto("mgmt", "init", "register")
  /\ mcl_fd' = 1
  /\ UNCHANGED <<finished, queue, loopVars, statVars, standalone, connected, to_clear,
                 infoVars, budget>>

MgmtRegisterFails ==
  /\ Goto("mgmt", "register", "test")
  /\ mcl_fd' = -1
  /\ connected' = -1
  /\ UNCHANGED <<finished, queue, loopVars, statVars, standalone, to_clear, infoVars, budget>>

MgmtRegister ==
  /\ Goto("mgmt", "register", "test")
  /\ connected' = 1
  /\ UNCHANGED <<finished, queue, loopVars, statVars, standalone, mcl_fd, to_clear, infoVars,
                 budget>>

\* No request for a second, or the connection is lost.
MgmtServed ==
  /\ Goto("mgmt", "serve", "test")
  /\ connected' \in {0, 1}
  /\ UNCHANGED <<finished, queue, loopVars, statVars, standalone, mcl_fd, to_clear, infoVars,
                 budget>>

\* Requests for statistics and for the version only read.
MgmtRequest(r) ==
  /\ Goto("mgmt", "serve", IF r = "read" THEN "serve" ELSE r)
  /\ Spend("requests")
  /\ to_clear' = IF r = "clear" THEN Enabled ELSE to_clear
  /\ UNCHANGED <<finished, queue, loopVars, statVars, standalone, mcl_fd, connected, infoVars>>

\* fh_shr_lh_clear_stats.
MidCount(c) == \E side \in Side : pc.lh = Counting(side) /\ c = <<loop.line, side>>

MgmtClear(c) ==
  /\ Goto("mgmt", "clear", "clear")
  /\ to_clear' = to_clear \ {c}
  /\ packets' = [packets EXCEPT ![c] = 0]
  /\ since' = [since EXCEPT ![c] = 0]
  /\ raced' = IF MidCount(c) THEN raced \cup {c} ELSE raced \ {c}
  /\ UNCHANGED <<finished, queue, loopVars, loaded, standalone, mcl_fd, connected, infoVars,
                 budget>>

MgmtCleared ==
  /\ to_clear = {}
  /\ Goto("mgmt", "clear", "serve")
  /\ UNCHANGED <<finished, queue, loopVars, statVars, standalone, mgrVars, infoVars, budget>>

\* The stop action.
MgmtStop ==
  /\ Goto("mgmt", "stop", "serve")
  /\ Exit
  /\ UNCHANGED <<queue, loopVars, statVars, standalone, mgrVars, infoVars, budget>>

Settled == pc.main \in {"join_mgmt", "join_lh"} /\ lh_tid

MgmtStatusOnce ==   \* mutant: a missing tid is not fetched again
  /\ Goto("mgmt", "status", "reply")
  /\ answer' = [answer EXCEPT !.settled = Settled]
  /\ UNCHANGED <<finished, queue, loopVars, statVars, standalone, mgrVars, lh_tid, proc_info,
                 fetched, budget>>

\* fh_shr_mmcast_status fetches a missing tid again and returns &proc_info,
\* which the response is copied from.
MgmtStatus ==
  /\ Goto("mgmt", "status", "reply")
  /\ proc_info' = [proc_info EXCEPT !.tid = @ \/ lh_tid]
  /\ answer' = [answer EXCEPT !.settled = Settled]
  /\ UNCHANGED <<finished, queue, loopVars, statVars, standalone, mgrVars, lh_tid, fetched,
                 budget>>

MgmtReply ==
  /\ Goto("mgmt", "reply", "serve")
  /\ answer' = [answer EXCEPT !.pid = proc_info.pid, !.tid = proc_info.tid]
  /\ UNCHANGED <<finished, queue, loopVars, statVars, standalone, mgrVars, lh_tid, proc_info,
                 fetched, budget>>

-----------------------------------------------------------------------------

Main == MainStartLh \/ MainStartMgmt \/ MainFill \/ MainTid \/ MainJoin

Lh ==
  \/ LhBoot \/ LhTest \/ LhSelect \/ LhSelectEmpty
  \/ LhLoopEnds \/ LhSkipLine \/ LhEnterLine \/ LhFlush
  \/ \E side \in Side : LhPassOver(side) \/ LhReadFails(side) \/ LhRead(side) \/ LhParse(side)

Mgmt ==
  \/ MgmtTest \/ MgmtSleep
  \/ MgmtConnectFails \/ MgmtConnect \/ MgmtRegisterFails \/ MgmtRegister
  \/ MgmtServed \/ MgmtCleared \/ MgmtStop \/ MgmtStatus \/ MgmtReply
  \/ \E r \in {"read", "clear", "stop", "status"} : MgmtRequest(r)
  \/ \E c \in to_clear : MgmtClear(c)

Next == Main \/ Lh \/ Mgmt \/ Signal \/ \E c \in Enabled : Arrive(c)

Spec == Init /\ [][Next]_vars

\* Every thread runs: select and usleep return after their interval, and a
\* registration is answered, refused, or given up after the two seconds of
\* fh_adm_expect.  Signals, packets and requests need never come.
FairSpec == Spec /\ WF_vars(Main) /\ WF_vars(Lh) /\ WF_vars(Mgmt)

-----------------------------------------------------------------------------

MainPc == {"lh_start", "mgmt_start", "fill", "tid", "join_mgmt", "join_lh", "failed", "done"}
LhPc == {"off", "boot", "test", "select", "line", "primary", "secondary", "count_primary",
         "count_secondary", "flush", "done"}
MgmtPc == {"off", "test", "sleep", "init", "register", "serve", "clear", "stop", "status",
           "reply", "done"}

TypeOK ==
  /\ pc \in [main : MainPc, lh : LhPc, mgmt : MgmtPc]
  /\ finished \in [lh : BOOLEAN, mgmt : BOOLEAN]
  /\ queue \in [Enabled -> Int]
  /\ loop \in [line : 1..(NumLines + 1), count : Int, set : SUBSET Enabled]
  /\ to_publish \in BOOLEAN /\ pending \in BOOLEAN /\ unlucky \in BOOLEAN
  /\ packets \in [Enabled -> Nat] /\ loaded \in Nat
  /\ since \in [Enabled -> Nat] /\ raced \in SUBSET Enabled
  /\ mcl_fd \in {-1, 0, 1} /\ connected \in {-1, 0, 1}
  /\ to_clear \in SUBSET Enabled
  /\ lh_tid \in BOOLEAN /\ fetched \in BOOLEAN
  /\ proc_info \in [pid : BOOLEAN, tid : BOOLEAN]
  /\ answer \in [settled : BOOLEAN, pid : BOOLEAN, tid : BOOLEAN]

\* What the plugin was handed is flushed before the line handler waits for more,
\* unless a read failed in between; even then to_publish survives, so that the
\* next packet on any line flushes it (the static flag of fh_shr_lh_run).
NothingForgotten ==
  /\ pending => to_publish
  /\ pending /\ pc.lh \in {"test", "select", "done"} => unlucky

\* packets++ in the line handler thread and the management thread's clear share
\* no lock: a connection's counter is off only when a clear fell between the load
\* and the store of an increment, and exact otherwise.
CountersExact ==
  \A c \in Enabled : c \notin raced => packets[c] = since[c]

\* Once main has filled in proc_info and the line handler has published its
\* thread id, a status response is complete, although main stores an id that it
\* may have fetched too early, while the management thread repairs it.
StatusFilled == answer.settled /\ pc.mgmt # "reply" => answer.pid /\ answer.tid

\* What makes these hold, step after step.  A thread is off until main starts it.
\* Inside a line the loop is within
\* bounds; an increment that no clear has met still holds the counter's value;
\* messages wait without a failed read only between the two sides of a line; what
\* a settled response is about to be copied from is complete and stays so.
Started ==
  /\ pc.main = "lh_start" => pc.lh = "off"
  /\ pc.main \in {"lh_start", "mgmt_start"} => pc.mgmt = "off"

InLine ==
  /\ pc.lh \in {"primary", "secondary", "count_primary", "count_secondary", "flush"} =>
       loop.line <= NumLines
  /\ \A side \in Side :
       pc.lh = Counting(side) =>
         /\ <<loop.line, side>> \in Enabled
         /\ <<loop.line, side>> \in raced \/ loaded = packets[<<loop.line, side>>]

FlushInv ==
  /\ pending => to_publish
  /\ pc.lh \in {"count_primary", "count_secondary"} => to_publish
  /\ pending /\ pc.lh \notin {"secondary", "count_primary", "count_secondary", "flush"} => unlucky

StatusInv ==
  /\ pc.main \in {"tid", "join_mgmt", "join_lh"} => proc_info.pid
  /\ answer.settled /\ pc.mgmt # "reply" => answer.pid /\ answer.tid
  /\ answer.settled /\ pc.mgmt = "reply" =>
       proc_info.pid /\ proc_info.tid /\ pc.main \in {"join_mgmt", "join_lh", "done"}

ProcInv == TypeOK /\ Started /\ InLine /\ CountersExact /\ FlushInv /\ StatusInv

\* A signal or a stop request ends the process: both threads leave their loops
\* and main joins them (fh_shr_mmcast_exit, and the wakeup intervals "to make
\* sure the line handler will exit, even when idle").
Shutdown == (finished.lh \/ finished.mgmt) ~> ~Alive

\* No socket is starved: whatever the order of lines and sides, and although a
\* failing read leaves the rest of its line for later, a waiting packet is read
\* unless the process is told to stop.
Drained == \A c \in Enabled : queue[c] > 0 ~> (queue[c] = 0 \/ finished.lh \/ ~Alive)

-----------------------------------------------------------------------------

===============================================================================
