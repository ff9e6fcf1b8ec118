------------------------------- MODULE FhMgr -------------------------------
(***************************************************************************)
(* The feed handler manager: service groups and their timers, the services *)
(* it starts, stops, restarts and respawns, the connections on which they  *)
(* register and answer, and the requests of the command line.  The manager *)
(* is one thread; each handler is one step, the two seconds it waits for   *)
(* an answer included.  The processes of the services are modelled from    *)
(* what the management client does.                                        *)
(***************************************************************************)
EXTENDS Naturals, FiniteSets, SequencesExt, Eager

CONSTANTS
  Serv, Grp,           \* service and group names
  Groups,              \* Seq(Grp): sg_list, in the configured order
  Members,             \* [Grp -> Seq(Serv)]: sg_serv_lh, in the configured order
  Confs,               \* the configuration files: services and groups
  Conn, Proc,          \* connections and processes that can exist at once
  SpawnDelay, StatsPeriod, RestartDeadline,   \* in ticks of one second
  RestartTime,         \* when groups restart: seconds after midnight
  MaxOut,              \* requests a service may be behind with
  MaxFaults,           \* failed commands, crashes and missed answers
  None

YesNo == {"yes", "no", "missing"}
ServText == [action : {"wait", "spawn", "respawn"}, disable : YesNo, cli : YesNo, shutdown : YesNo]
GrpText == [disable : YesNo, stats : YesNo, restart : YesNo]

\* fh_mgmt_sg_add_serv refuses a service that has a group; fh_mgmt_sg_restart_time
\* cuts the restart time off at the end of the day.
ASSUME MgrAssumption ==
  /\ Groups \in Seq(Grp) /\ Range(Groups) = Grp /\ IsInjective(Groups)
  /\ IsFiniteSet(Serv)
  /\ Members \in [Grp -> Seq(Serv)]
  /\ \A s \in Serv : \E g \in Grp : s \in Range(Members[g])
  /\ \A g, h \in Grp : Range(Members[g]) \cap Range(Members[h]) # {} => g = h
  /\ Confs \subseteq [serv : [Serv -> ServText], grp : [Grp -> GrpText]]
  /\ {SpawnDelay, StatsPeriod, RestartDeadline, RestartTime, MaxOut, MaxFaults} \subseteq Nat
  /\ RestartTime <= RestartDeadline
  /\ None \notin Serv \cup Conn \cup Proc \cup {"fresh", "stale"}

VARIABLES
  conf,       \* the configuration read
  flags,      \* [Serv -> SUBSET Flag]: serv_flags
  sconn,      \* [Serv -> Conn \cup {None}]: serv_conn
  conn,       \* [Conn -> ConnState]
  proc,       \* [Proc -> [serv, st, conn]]: the processes
  ticks,      \* [Grp -> [stats, respawn, restart : Nat]]
  up,         \* the manager runs
  answer,     \* what the last answer taken for good was: None, "fresh" or "stale"
  faults,     \* how many faults have happened
  slipped     \* some answer or registration has missed its two seconds

vars == <<conf, flags, sconn, conn, proc, ticks, up, answer, faults, slipped>>

Life == {"STARTED", "RUNNING", "STOPPED", "ADMIN_STOPPED"}
Flag == Life \cup {"ENABLED", "DISABLED", "RESTART", "STOPPING", "ADMIN_STOPPING"}

\* peer: the process at the other end; reg: the service whose registration is in the socket;
\* late: answers nobody waits for any more are; eof: it has closed; out: what it
\* has been sent and has not handled.
Free == [type |-> "free", serv |-> None, peer |-> None, reg |-> None, late |-> 0,
         eof |-> FALSE, out |-> <<>>]
NoProc == [serv |-> None, st |-> "none", conn |-> None]

GroupOf(s) == CHOOSE g \in Grp : s \in Range(Members[g])

-----------------------------------------------------------------------------
(* Reading the configuration.                                               *)

\* fh_mgmt_cfg_yesno in cfg_serv_load and cfg_sg_load: what is not said to be
\* enabled is disabled, what is not asked for is off.
CfgServLoad(c) ==
  [action |-> c.action, disable |-> c.disable # "no", cli |-> c.cli = "yes",
   shutdown |-> c.shutdown = "yes"]

CfgSgLoad(c) ==
  [disable |-> c.disable # "no", stats |-> c.stats = "yes", restart |-> c.restart = "yes"]

\* fh_mgmt_cfg_load.
CfgLoad(f) ==
  [serv |-> [s \in Serv |-> CfgServLoad(f.serv[s])], grp |-> [g \in Grp |-> CfgSgLoad(f.grp[g])]]

\* fh_mgmt_serv_new: stopped at first, and enabled or disabled.
ServNew(s) == {"STOPPED", IF conf.serv[s].disable THEN "DISABLED" ELSE "ENABLED"}

\* fh_mgmt_sg_add_serv: a service that only its group disables is not even
\* stopped any more.
SgAddServ(s, f) ==
  IF conf.grp[GroupOf(s)].disable /\ "DISABLED" \notin f THEN {"DISABLED"} ELSE f

\* fh_mgmt_sg_restart_time: the ticks that the day has behind it.
RestartTicks(now) ==
  IF now <= RestartTime THEN RestartDeadline + now - RestartTime ELSE now - RestartTime

\* fh_mgmt_serv_post_init: only enabled groups with statistics or a restart
\* time are in the list of timers.
Timed(g) == ~conf.grp[g].disable /\ (conf.grp[g].stats \/ conf.grp[g].restart)

\* Started in the second of RestartTime itself, the ticks begin at the deadline
\* and pass it without ever being equal to it; README, observations.
Init ==
  /\ conf \in {CfgLoad(f) : f \in Confs}
  /\ flags = [s \in Serv |-> SgAddServ(s, ServNew(s))]
  /\ sconn = [s \in Serv |-> None]
  /\ conn = [c \in Conn |-> Free]
  /\ proc = [p \in Proc |-> NoProc]
  /\ \E now \in (0..(RestartDeadline - 1)) \ {RestartTime} :
       ticks = [g \in Grp |-> [stats |-> 0, respawn |-> 0,
                               restart |-> IF conf.grp[g].restart THEN RestartTicks(now) ELSE 0]]
  /\ up = TRUE
  /\ answer = None
  /\ faults = 0
  /\ slipped = FALSE

-----------------------------------------------------------------------------
(* The state a handler works on, with the command it carries out and what   *)
(* it does not decide: bad are the services whose command fails, slow those *)
(* that do not answer in time.                                              *)

State(o, cmd) ==
  [flags |-> flags, sconn |-> sconn, conn |-> conn, proc |-> proc, ticks |-> ticks,
   answer |-> answer, slipped |-> slipped, rc |-> "OK", bad |-> o.bad, slow |-> o.slow,
   cmd |-> cmd]

Become(m) ==
  /\ flags' = m.flags
  /\ sconn' = m.sconn
  /\ conn' = m.conn
  /\ proc' = m.proc
  /\ ticks' = m.ticks
  /\ answer' = m.answer
  /\ slipped' = m.slipped

Oracle ==
  { o \in [bad : SUBSET {s \in Serv : "ENABLED" \in flags[s]},
          slow : SUBSET {s \in Serv : "RUNNING" \in flags[s]}] :
      faults + Cardinality(o.bad) + Cardinality(o.slow) <= MaxFaults }
NoFault == [bad |-> {}, slow |-> {}]

\* Every fault an oracle announces is counted, so there are only so many.
Spend(o) == faults' = faults + Cardinality(o.bad) + Cardinality(o.slow)

Result(m, rc) == [m EXCEPT !.rc = rc]
Has(m, s, f) == f \in m.flags[s]
Down(m, s) == m.flags[s] \cap {"STOPPED", "ADMIN_STOPPED"} # {}
SetFlags(m, s, minus, plus) == [m EXCEPT !.flags[s] = (@ \ minus) \cup plus]

\* system(): the command leaves a process behind, unless it is one to wait for.
Spawned(m, s) ==
  LET p == CHOOSE q \in Proc : m.proc[q] = NoProc
  IN  [m EXCEPT !.proc[p] = [serv |-> s, st |-> "starting", conn |-> None], !.rc = "OK"]

CanSpawn(m) == \E p \in Proc : m.proc[p] = NoProc

StartNotStopped(m, s) ==   \* mutant: a service that has not stopped is started too
  IF Has(m, s, "DISABLED") THEN Result(m, "OK")
  ELSE IF s \in m.bad \/ ~CanSpawn(m) THEN Result(m, "ERROR")
  ELSE IF conf.serv[s].action = "wait" THEN Result(m, "OK")
  ELSE Spawned(SetFlags(m, s, {"STOPPED", "ADMIN_STOPPED"},
                        IF Has(m, s, "RUNNING") THEN {} ELSE {"STARTED"}), s)

\* fh_mgmt_serv_start.
Start(m, s) ==
  IF Has(m, s, "DISABLED") \/ ~Down(m, s) THEN Result(m, "OK")
  ELSE IF s \in m.bad \/ ~CanSpawn(m) THEN Result(m, "ERROR")
  ELSE IF conf.serv[s].action = "wait" THEN Result(m, "OK")
  ELSE Then(SetFlags(m, s, {"STOPPED", "ADMIN_STOPPED"}, {"STARTED"}), LAMBDA n : Spawned(n, s))

\* fh_adm_send: a write to a service that has closed its end fails.
Send(m, c, what) ==
  IF m.conn[c].eof THEN Result(m, "ERROR")
  ELSE Result([m EXCEPT !.conn[c].out = Append(@, what)], "OK")

\* serv_post, behind serv_action.
Post(m, s, what) == Send(m, m.sconn[s], what)

\* What both stops do; the group reports at the next tick.
Stopping(n, s, flag) ==
  IF n.rc # "OK" THEN n
  ELSE [SetFlags(n, s, {}, {flag}) EXCEPT !.ticks[GroupOf(s)].stats = StatsPeriod]

StopWith(m, s, flag) ==
  IF Down(m, s) \/ ~Has(m, s, "RUNNING") THEN Result(m, "OK")
  ELSE Then(Post(m, s, "stop"), LAMBDA n : Stopping(n, s, flag))

\* fh_mgmt_serv_stop and fh_mgmt_serv_admin_stop.
Stop(m, s) == StopWith(m, s, "STOPPING")
AdminStop(m, s) == StopWith(m, s, "ADMIN_STOPPING")

\* fh_mgmt_serv_restart.
ToRestart(n, s) == IF n.rc # "OK" THEN n ELSE SetFlags(n, s, {}, {"RESTART"})
Restart(m, s) ==
  IF Down(m, s) THEN Start(m, s) ELSE Then(Stop(m, s), LAMBDA n : ToRestart(n, s))

\* fh_mgmt_serv_clrstats.
ClrStats(m, s) == IF Has(m, s, "RUNNING") THEN Post(m, s, "clear") ELSE Result(m, "OK")

\* fh_mgmt_serv_disable: the result of the stop is ignored.
Disable(m, s) ==
  IF conf.grp[GroupOf(s)].disable \/ Has(m, s, "DISABLED") THEN Result(m, "OK")
  ELSE Result(SetFlags(Stop(m, s), s, {"ENABLED"}, {"DISABLED"}), "OK")

\* fh_mgmt_serv_enable.
Enable(m, s) ==
  IF conf.grp[GroupOf(s)].disable THEN Result(m, "ERROR")
  ELSE IF Has(m, s, "ENABLED") THEN Result(m, "OK")
  ELSE Then(SetFlags(m, s, {"DISABLED"}, {"ENABLED"}), LAMBDA n : Start(n, s))

AttachRunning(m, s, c) ==   \* mutant: a service that is running is attached again
  IF Has(m, s, "ADMIN_STOPPED") THEN Result(m, "ERROR")
  ELSE Result([SetFlags(m, s, {"STARTED", "STOPPED"}, {"RUNNING"}) EXCEPT
                 !.sconn[s] = c, !.conn[c].serv = s], "OK")

\* fh_mgmt_serv_attach: a stopped service that registers by itself is taken too.
Attach(m, s, c) ==
  IF ~Has(m, s, "STARTED") /\ ~Has(m, s, "STOPPED") THEN Result(m, "ERROR")
  ELSE Result([SetFlags(m, s, {"STARTED", "STOPPED"}, {"RUNNING"}) EXCEPT
                 !.sconn[s] = c, !.conn[c].serv = s], "OK")

\* fh_mgmt_serv_detach, of a service that RUNS (anything else fails an assertion
\* of conn_free): stopped, and started again if it was to be restarted.
Detached(m, s) ==
  [SetFlags(m, s, {"RUNNING", "STOPPING", "ADMIN_STOPPING", "RESTART"},
            {IF Has(m, s, "ADMIN_STOPPING") THEN "ADMIN_STOPPED" ELSE "STOPPED"}) EXCEPT
     !.sconn[s] = None, !.conn[m.sconn[s]].serv = None]

Detach(m, s) ==
  IF Has(m, s, "RESTART") THEN Then(Detached(m, s), LAMBDA n : Start(n, s)) ELSE Detached(m, s)

\* fh_adm_expect on connection c, where the request has just been sent.  What
\* arrives first is taken: the answer, or one that an earlier request did not
\* wait for, which is dropped and yet returns FH_OK.
Expect(m, slow, c) ==
  LET out == m.conn[c].out
      first == CHOOSE i \in DOMAIN out :
                 out[i] = "request" /\ \A j \in 1..(i - 1) : out[j] # "request"
  IN  IF m.conn[c].late > 0
      THEN Result([m EXCEPT !.conn[c].late = @ - 1, !.answer = "stale"], "OK")
      ELSE IF "stop" \in Range(out) THEN Result(m, "ERROR")
      ELSE IF slow THEN Result([m EXCEPT !.slipped = TRUE], "ERROR")
      ELSE Result([m EXCEPT !.conn[c].out = SubSeq(out, first + 1, Len(out)),
                            !.answer = IF first = Len(out) THEN "fresh" ELSE "stale"], "OK")

\* serv_reqresp.
Answered(n, s) == IF n.rc # "OK" THEN n ELSE Expect(n, s \in n.slow, n.sconn[s])
ReqResp(m, s) == Then(Send(m, m.sconn[s], "request"), LAMBDA n : Answered(n, s))

\* serv_get_version, serv_get_stats and serv_get_status ask only a service that
\* runs, the last not one that is stopping.
GetVersion(m, s) == IF Has(m, s, "RUNNING") THEN ReqResp(m, s) ELSE Result(m, "OK")
GetStats(m, s) == IF Has(m, s, "RUNNING") THEN ReqResp(m, s) ELSE Result(m, "OK")
GetStatus(m, s) ==
  IF Has(m, s, "RUNNING") /\ ~Has(m, s, "STOPPING") THEN ReqResp(m, s) ELSE Result(m, "OK")

\* serv_request.
Request(m, s) ==
  CASE m.cmd = "status"   -> GetStatus(m, s)
    [] m.cmd = "stats"    -> GetStats(m, s)
    [] m.cmd = "version"  -> GetVersion(m, s)
    [] m.cmd = "enable"   -> Enable(m, s)
    [] m.cmd = "disable"  -> Disable(m, s)
    [] m.cmd = "start"    -> Start(m, s)
    [] m.cmd = "stop"     -> AdminStop(m, s)
    [] m.cmd = "restart"  -> Restart(m, s)
    [] m.cmd = "clrstats" -> ClrStats(m, s)
    [] OTHER              -> Result(m, "ERROR")

Command == {"status", "stats", "version",
            "enable", "disable", "start", "stop", "restart", "clrstats"}

\* sg_request: the services the command line manages, up to the first error.
RequestVisit(m, s) == IF m.rc # "OK" \/ ~conf.serv[s].cli THEN m ELSE Request(m, s)
GroupRequest(m, g) == FoldLeft(RequestVisit, m, Members[g])

\* fh_mgmt_serv_request_all, up to the first error too.
AllVisit(m, g) == IF m.rc # "OK" THEN m ELSE GroupRequest(m, g)
AllRequest(m) == FoldLeft(AllVisit, m, Groups)

-----------------------------------------------------------------------------
(* Timers.                                                                  *)

MonitorVisitAdminToo(m, s) ==   \* mutant: every service that is down is respawned
  IF conf.serv[s].action = "respawn" THEN Start(m, s) ELSE m

\* sg_serv_monitor.
MonitorVisit(m, s) ==
  IF conf.serv[s].action = "respawn" /\ Has(m, s, "STOPPED") THEN Start(m, s) ELSE m

MonitorNoReset(m, g) ==   \* mutant: the tick that starts them never comes
  [m EXCEPT !.ticks[g].respawn = (@ + 1) % (SpawnDelay + 1)]

Monitor(m, g) ==
  IF m.ticks[g].respawn >= SpawnDelay
  THEN [FoldLeft(MonitorVisit, m, Members[g]) EXCEPT !.ticks[g].respawn = 0]
  ELSE [m EXCEPT !.ticks[g].respawn = @ + 1]

\* sg_stats_report: services that do not answer are left out.
StatsVisit(m, s) == IF Has(m, s, "STOPPING") THEN m ELSE GetStats(m, s)
StatsReport(m, g) == FoldLeft(StatsVisit, m, Members[g])

\* fh_mgmt_sg_timers for a group of the list.
StatsTick(m, g) ==
  IF ~conf.grp[g].stats THEN m
  ELSE IF m.ticks[g].stats + 1 >= StatsPeriod
       THEN [StatsReport(m, g) EXCEPT !.ticks[g].stats = 0]
       ELSE [m EXCEPT !.ticks[g].stats = @ + 1]

RestartTick(m, g) ==
  IF ~conf.grp[g].restart THEN m
  ELSE IF m.ticks[g].restart + 1 = RestartDeadline
       THEN [FoldLeft(Restart, m, Members[g]) EXCEPT !.ticks[g].restart = 0]
       ELSE [m EXCEPT !.ticks[g].restart = @ + 1]

GroupTick(m, g) ==
  IF ~Timed(g) THEN m
  ELSE Then(Then(Monitor(m, g), LAMBDA n : StatsTick(n, g)), LAMBDA n : RestartTick(n, g))

\* A service that is behind has room for the requests of this step.
Room == \A c \in Conn : Len(conn[c].out) <= MaxOut

Timers(o) ==
  /\ up /\ Room
  /\ \E g \in Grp : Timed(g)
  /\ Spend(o)
  /\ \E m \in {FoldLeft(GroupTick, State(o, None), Groups)} : Become(m)
  /\ UNCHANGED <<conf, up>>

-----------------------------------------------------------------------------
(* The command line: fh_mgmt_cli_process.                                   *)

CliService(o, s, cmd) ==
  /\ up /\ Room
  /\ Spend(o)
  /\ \E m \in {Request(State(o, cmd), s)} : Become(m)
  /\ UNCHANGED <<conf, up>>

CliGroup(o, g, cmd) ==
  /\ up /\ Room
  /\ Spend(o)
  /\ \E m \in {GroupRequest(State(o, cmd), g)} : Become(m)
  /\ UNCHANGED <<conf, up>>

CliAll(o, cmd) ==
  /\ up /\ Room
  /\ Spend(o)
  /\ \E m \in {AllRequest(State(o, cmd))} : Become(m)
  /\ UNCHANGED <<conf, up>>

-----------------------------------------------------------------------------
(* Connections.                                                             *)

\* conn_free.
ConnFree(m, c) ==
  [IF m.conn[c].serv # None THEN Detach(m, m.conn[c].serv) ELSE m EXCEPT !.conn[c] = Free]

\* conn_client_registration, whose failure frees the connection.
Registered(m, s, c, p) ==
  IF m.rc # "OK" THEN ConnFree(m, c)
  ELSE [m EXCEPT !.ticks[GroupOf(s)].stats = StatsPeriod,
                 !.proc[p].st = IF m.proc[p].conn = c THEN "serving" ELSE @]

ConnRegister(c) ==
  /\ up
  /\ conn[c].type = "client"
  /\ \E m \in {[State(NoFault, None) EXCEPT !.conn[c].reg = None, !.conn[c].type = "service"]} :
       Become(Registered(Attach(m, conn[c].reg, c), conn[c].reg, c, conn[c].peer))
  /\ UNCHANGED <<conf, up, faults>>

\* fh_mgmt_serv_process: nothing that a service sends by itself is expected, so
\* an answer that comes late costs it its connection, as its end does.
ConnService(o, c) ==
  /\ up
  /\ conn[c].type = "service" /\ (conn[c].late > 0 \/ conn[c].eof)
  /\ Spend(o)
  /\ \E m \in {ConnFree(State(o, None), c)} : Become(m)
  /\ UNCHANGED <<conf, up>>

\* fh_mgmt_serv_sigterm: stops what is to be stopped with the manager and exits.
SigTermVisit(m, s) ==
  IF conf.serv[s].shutdown /\ Has(m, s, "RUNNING") THEN Stop(m, s) ELSE m
SigTermGroup(m, g) == FoldLeft(SigTermVisit, m, Members[g])

\* The exit closes every connection.
Exited(m) ==
  [m EXCEPT !.conn = [c \in Conn |-> IF m.conn[c].type = "free" THEN Free
                                      ELSE [m.conn[c] EXCEPT !.type = "closed", !.serv = None]]]

SigTerm ==
  /\ up
  /\ \E m \in {FoldLeft(SigTermGroup, State(NoFault, None), Groups)} : Become(Exited(m))
  /\ up' = FALSE
  /\ UNCHANGED <<conf, faults>>

-----------------------------------------------------------------------------
(* The processes of the services: fh_shr_mgmt_run and fh_mgmt_cl_init.      *)

Alive(p) == proc[p].st # "none"
Fault == faults < MaxFaults /\ faults' = faults + 1
MgrUnchanged == UNCHANGED <<conf, flags, sconn, ticks, up, answer>>
Mine(p) == proc[p].conn # None /\ conn[proc[p].conn].peer = p

\* conn_server_process and conn_new accept it; the registration follows.
ProcConnect(p) ==
  /\ up /\ proc[p].st = "starting"
  /\ \E k \in Conn : conn[k] = Free
  /\ LET c == CHOOSE k \in Conn : conn[k] = Free
     IN  /\ conn' = [conn EXCEPT ![c].type = "client", ![c].peer = p,
                                  ![c].reg = proc[p].serv]
         /\ proc' = [proc EXCEPT ![p].st = "registering", ![p].conn = c]
  /\ MgrUnchanged /\ UNCHANGED <<faults, slipped>>

\* What ends the process' side of connection c.
Closed(c) == [conn EXCEPT ![c] = IF @.type = "closed" THEN Free
                                 ELSE [@ EXCEPT !.eof = TRUE, !.out = <<>>]]

\* No answer to the registration for two seconds: it never tries again.
ProcGivesUp(p) ==
  /\ proc[p].st = "registering" /\ Mine(p) /\ up
  /\ Fault
  /\ slipped' = TRUE
  /\ conn' = Closed(proc[p].conn)
  /\ proc' = [proc EXCEPT ![p].st = "orphan", ![p].conn = None]
  /\ MgrUnchanged

\* The manager has closed the connection: connect again, unless it was the
\* registration that failed.
ProcLost(p) ==
  /\ proc[p].st \in {"registering", "serving"}
  /\ ~Mine(p) \/ (conn[proc[p].conn].type = "closed" /\ conn[proc[p].conn].out = <<>>)
  /\ proc' = [proc EXCEPT ![p].conn = None,
                          ![p].st = IF @ = "serving" THEN "starting" ELSE "orphan"]
  /\ conn' = IF Mine(p) THEN [conn EXCEPT ![proc[p].conn] = Free] ELSE conn
  /\ MgrUnchanged /\ UNCHANGED <<faults, slipped>>

\* fh_mgmt_cl_process: the next request.  A request that was not waited for is
\* answered all the same; on a stop it exits.
ProcServes(p) ==
  /\ proc[p].st = "serving" /\ Mine(p) /\ conn[proc[p].conn].out # <<>>
  /\ LET c == proc[p].conn
         r == Head(conn[c].out)
     IN  IF r = "stop"
         THEN /\ conn' = Closed(c)
              /\ proc' = [proc EXCEPT ![p] = NoProc]
         ELSE /\ conn' = [conn EXCEPT ![c].out = Tail(@),
                                      ![c].late = IF r = "request" /\ conn[c].type # "closed"
                                                  THEN @ + 1 ELSE @]
              /\ proc' = proc
  /\ MgrUnchanged /\ UNCHANGED <<faults, slipped>>

ProcCrash(p) ==
  /\ Alive(p)
  /\ Fault
  /\ conn' = IF Mine(p) THEN Closed(proc[p].conn) ELSE conn
  /\ proc' = [proc EXCEPT ![p] = NoProc]
  /\ MgrUnchanged /\ UNCHANGED slipped

-----------------------------------------------------------------------------

Handle(o) == \E c \in Conn : ConnService(o, c)
Cli(o) ==
  \/ \E s \in Serv, cmd \in Command : CliService(o, s, cmd)
  \/ \E g \in Grp, cmd \in Command : CliGroup(o, g, cmd)
  \/ \E cmd \in Command : CliAll(o, cmd)
Process(p) == ProcConnect(p) \/ ProcLost(p) \/ ProcServes(p)

Next ==
  \/ \E o \in Oracle : Timers(o) \/ Handle(o) \/ Cli(o)
  \/ \E c \in Conn : ConnRegister(c)
  \/ SigTerm
  \/ \E p \in Proc : Process(p) \/ ProcGivesUp(p) \/ ProcCrash(p)

Spec == Init /\ [][Next]_vars

\* The manager goes round its loop: it reads what is readable and its timers
\* tick every second; a process handles what it is sent.  Faults are not
\* required to happen.
FairSpec ==
  /\ Spec
  /\ WF_vars(Timers(NoFault))
  /\ \A c \in Conn : WF_vars(ConnRegister(c) \/ ConnService(NoFault, c))
  /\ \A p \in Proc : WF_vars(Process(p))

-----------------------------------------------------------------------------
(* Properties.                                                              *)

TypeOK ==
  /\ conf \in {CfgLoad(f) : f \in Confs}
  /\ flags \in [Serv -> SUBSET Flag]
  /\ sconn \in [Serv -> Conn \cup {None}]
  /\ conn \in [Conn -> [type : {"free", "client", "service", "closed"}, serv : Serv \cup {None},
                        peer : Proc \cup {None}, reg : Serv \cup {None}, late : Nat,
                        eof : BOOLEAN, out : Seq({"request", "stop", "clear"})]]
  /\ proc \in [Proc -> [serv : Serv \cup {None}, conn : Conn \cup {None},
                        st : {"none", "starting", "registering", "serving", "orphan"}]]
  /\ ticks \in [Grp -> [stats : Nat, respawn : 0..SpawnDelay, restart : Nat]]
  /\ up \in BOOLEAN /\ slipped \in BOOLEAN
  /\ answer \in {None, "fresh", "stale"}
  /\ faults \in 0..MaxFaults

\* A service runs exactly while one connection is attached to it, and each end
\* points to the other (serv_conn, conn_serv): what conn_free asserts of
\* fh_mgmt_serv_detach and what serv_post dereferences without a test.
Attached ==
  up => /\ \A s \in Serv : "RUNNING" \in flags[s] <=> sconn[s] # None
        /\ \A s \in Serv, c \in Conn : sconn[s] = c <=> conn[c].serv = s

\* serv_flags hold one state of the life cycle, or none when it is the group
\* that disables the service; a stop is under way only of a service that runs.
OneLife ==
  \A s \in Serv :
    /\ Cardinality(flags[s] \cap Life) = IF ~conf.serv[s].disable /\ conf.grp[GroupOf(s)].disable
                                         THEN 0 ELSE 1
    /\ Cardinality(flags[s] \cap {"ENABLED", "DISABLED"}) = 1
    /\ flags[s] \cap {"STOPPING", "ADMIN_STOPPING"} # {} => "RUNNING" \in flags[s]

\* "We have to wait until it is down before starting a new instance of the
\* service": however starts, restarts, crashes and respawns interleave, one
\* process of a service exists, as long as no answer has come too late.
OneInstance ==
  slipped \/ \A s \in Serv : Cardinality({p \in Proc : proc[p].serv = s}) <= 1

\* The seconds that pass bring back a service that was stopped from the command
\* line only when the restart of its group is due.
AdminStopSticks ==
  [][\A g \in Grp :
       ticks'[g].respawn # ticks[g].respawn /\ (conf.grp[g].restart => ticks'[g].restart # 0) =>
       \A i \in DOMAIN Members[g] :
         "ADMIN_STOPPED" \in flags[Members[g][i]] =>
           "ADMIN_STOPPED" \in flags'[Members[g][i]]]_vars

\* "Wait for a given command and verify that it corresponds to a given
\* transaction ID" (fh_adm_expect): an answer taken for good is the answer to
\* the question that was asked, as long as no answer has come too late; after
\* that fh_adm_expect drops the late one and reports success.
AnswersMatch == slipped \/ answer # "stale"

\* What the manager believes of its services is consistent: the life cycle, the
\* connections they are attached to, and the answers it takes from them.
ServicesSound == TypeOK /\ Attached /\ OneLife /\ AnswersMatch

Respawns(s) == conf.serv[s].action = "respawn" /\ Timed(GroupOf(s))
Due(s) == up /\ {"STOPPED", "ENABLED"} \subseteq flags[s] /\ (\E p \in Proc : proc[p] = NoProc)

\* A respawned service that is found stopped does not stay so.
Respawned == \A s \in Serv : Respawns(s) => (Due(s) ~> ~Due(s))

\* A service that has been told to stop is detached in the end: it handles the
\* request, or is lost, or the manager ends first.
StopsInTheEnd ==
  \A s \in Serv :
    (up /\ flags[s] \cap {"STOPPING", "ADMIN_STOPPING"} # {}) ~>
    (~up \/ flags[s] \cap {"STOPPING", "ADMIN_STOPPING"} = {})

\* Neither a stopped service of a respawn group nor one that is told to stop stays so.
ServiceLives == Respawned /\ StopsInTheEnd

=============================================================================
