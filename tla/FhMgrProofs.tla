----------------------------- MODULE FhMgrProofs -----------------------------
(***************************************************************************)
(* The feed handler manager, for every configuration, every number of      *)
(* services, groups, connections and processes, and every fault.           *)
(*                                                                         *)
(* What is true of it is true between its handlers.  IInv says that three  *)
(* sets of books agree: the flags of the services, the connections, and    *)
(* the processes.  As long as nothing has slipped every process of a       *)
(* service is in one of three places (Placed): it has yet to connect, its  *)
(* registration is in a connection nobody has read, or its service runs on *)
(* its connection.  The flags rule out two of the three for any second     *)
(* process, which is why there is none.  That nothing slips by itself      *)
(* needs the messages: no answer is on its way that nobody waits for, and  *)
(* a request that was not handled is behind a stop (Quiet).                *)
(*                                                                         *)
(* A handler works on a record m of that state.  OK is the set of those in *)
(* which the books agree; each handler is shown to map OK into itself and  *)
(* to touch no service and no timer but its own (Near, Within, Punctual),  *)
(* the walks over services and groups by the induction of LeftFold.  The   *)
(* steps of the manager and of the processes follow.                       *)
(***************************************************************************)
EXTENDS FhMgr, FiniteSetTheorems, TLAPS

-----------------------------------------------------------------------------
(* The types of what a handler works on.                                    *)

Message == {"request", "stop", "clear"}
FlagsT == [Serv -> SUBSET Flag]
SconnT == [Serv -> Conn \cup {None}]
ConnT == [type : {"free", "client", "service", "closed"}, serv : Serv \cup {None},
          peer : Proc \cup {None}, reg : Serv \cup {None}, late : Nat,
          eof : BOOLEAN, out : Seq(Message)]
ProcT == [serv : Serv \cup {None}, conn : Conn \cup {None},
          st : {"none", "starting", "registering", "serving", "orphan"}]
TickT == [stats : Nat, respawn : 0..SpawnDelay, restart : Nat]
AnswerT == {None, "fresh", "stale"}
Rc == {"OK", "ERROR"}

MState ==
  [flags : FlagsT, sconn : SconnT, conn : [Conn -> ConnT], proc : [Proc -> ProcT],
   ticks : [Grp -> TickT], answer : AnswerT, slipped : BOOLEAN, rc : Rc,
   bad : SUBSET Serv, slow : SUBSET Serv, cmd : Command \cup {None}]

-----------------------------------------------------------------------------
(* The invariant, of the parts of a handler's state.                        *)

\* A service that its group alone disables: it is in no state of the life cycle.
Dead(s) == ~conf.serv[s].disable /\ conf.grp[GroupOf(s)].disable

Only(x, a, b, c, d) == a \in x /\ b \notin x /\ c \notin x /\ d \notin x

\* The flags of a service.
ServOK(x, dead) ==
  /\ IF dead
     THEN "STARTED" \notin x /\ "RUNNING" \notin x /\ "STOPPED" \notin x /\ "ADMIN_STOPPED" \notin x
     ELSE \/ Only(x, "STARTED", "RUNNING", "STOPPED", "ADMIN_STOPPED")
          \/ Only(x, "RUNNING", "STARTED", "STOPPED", "ADMIN_STOPPED")
          \/ Only(x, "STOPPED", "RUNNING", "STARTED", "ADMIN_STOPPED")
          \/ Only(x, "ADMIN_STOPPED", "RUNNING", "STOPPED", "STARTED")
  /\ "ENABLED" \in x <=> "DISABLED" \notin x
  /\ "STOPPING" \in x \/ "ADMIN_STOPPING" \in x => "RUNNING" \in x

LifeOK(f) == \A s \in Serv : ServOK(f[s], Dead(s))

\* A service is attached to a connection while it runs, and to no other.
Ends(f, sc, cn) ==
  /\ \A s \in Serv : "RUNNING" \in f[s] <=> sc[s] # None
  /\ \A s \in Serv, c \in Conn : sc[s] = c <=> cn[c].serv = s

\* Only what is accepted as a service's is attached, and what registers names one.
ConnOK(cn) ==
  \A c \in Conn :
    /\ cn[c].type # "closed"
    /\ cn[c].type # "service" => cn[c].serv = None
    /\ cn[c].type = "client" => cn[c].reg \in Serv /\ cn[c].peer \in Proc

\* A process is one of a service, and has a connection when it registers or serves.
ProcOK(pr) ==
  \A p \in Proc : /\ pr[p].serv \in Serv <=> pr[p].st # "none"
                  /\ pr[p].conn # None => pr[p].st \in {"registering", "serving"}

\* A request that is not handled is behind a stop.
Behind(q) == \A i \in DOMAIN q : q[i] = "request" => \E j \in 1..(i - 1) : q[j] = "stop"

\* As long as every answer has come in time, none is on its way that nobody waits for.
Quiet(cn, sl) == sl \/ \A c \in Conn : cn[c].late = 0 /\ Behind(cn[c].out)

AnswerOK(an, sl) == sl \/ an # "stale"

Unique(pr, sl) ==
  sl \/ \A p, q \in Proc : pr[p].serv = pr[q].serv /\ pr[p].serv \in Serv => p = q

\* Connection c holds the registration of service s.
Registers(cn, c, s) == cn[c].type = "client" /\ cn[c].reg = s

\* Where a process of a service can be: it has yet to connect, or it has a connection
\* whose registration is to be read, or the service runs on its connection.
Placed(f, sc, cn, p, r) ==
  \/ /\ "STARTED" \in f[r.serv] /\ r.st = "starting"
     /\ \A d \in Conn : ~Registers(cn, d, r.serv)
  \/ /\ "STARTED" \in f[r.serv] /\ r.st = "registering" /\ r.conn \in Conn
     /\ Registers(cn, r.conn, r.serv) /\ cn[r.conn].peer = p /\ ~cn[r.conn].eof
  \/ /\ "RUNNING" \in f[r.serv] /\ r.st = "serving" /\ r.conn \in Conn
     /\ sc[r.serv] = r.conn /\ cn[r.conn].peer = p /\ ~cn[r.conn].eof

\* One registration at most, and only of a service that has been started.
Claims(f, cn) ==
  /\ \A c \in Conn : cn[c].type = "client" => "STARTED" \in f[cn[c].reg]
  /\ \A c, d \in Conn :
       cn[c].type = "client" /\ cn[d].type = "client" /\ cn[c].reg = cn[d].reg => c = d

OneOK(f, sc, cn, pr, sl) ==
  sl \/ /\ Claims(f, cn)
        /\ \A p \in Proc : pr[p].serv \in Serv => Placed(f, sc, cn, p, pr[p])

Good(m) ==
  /\ LifeOK(m.flags) /\ Ends(m.flags, m.sconn, m.conn) /\ ConnOK(m.conn) /\ ProcOK(m.proc)
  /\ Quiet(m.conn, m.slipped) /\ AnswerOK(m.answer, m.slipped) /\ Unique(m.proc, m.slipped)
  /\ OneOK(m.flags, m.sconn, m.conn, m.proc, m.slipped)

\* The states in which a handler begins, continues and ends.
OK == {m \in MState : Good(m)}

-----------------------------------------------------------------------------
(* What the code walks through: the services of a group, and the groups.   *)

RequestFold == INSTANCE LeftFold WITH Op <- RequestVisit
MonitorFold == INSTANCE LeftFold WITH Op <- MonitorVisit
StatsFold == INSTANCE LeftFold WITH Op <- StatsVisit
RestartFold == INSTANCE LeftFold WITH Op <- Restart
SigTermFold == INSTANCE LeftFold WITH Op <- SigTermVisit
AllFold == INSTANCE LeftFold WITH Op <- AllVisit
TickFold == INSTANCE LeftFold WITH Op <- GroupTick
ExitFold == INSTANCE LeftFold WITH Op <- SigTermGroup

-----------------------------------------------------------------------------
(* The configuration.                                                       *)

\* Every service is in a group, and in one.
LEMMA GroupsOK ==
  /\ \A s \in Serv : GroupOf(s) \in Grp
  /\ \A g \in Grp : DOMAIN Members[g] = 1..Len(Members[g]) /\ Len(Members[g]) \in Nat
  /\ \A g \in Grp : \A i \in 1..Len(Members[g]) : Members[g][i] \in Serv
  /\ DOMAIN Groups = 1..Len(Groups) /\ Len(Groups) \in Nat
  /\ \A i \in 1..Len(Groups) : Groups[i] \in Grp
<1>1. \A s \in Serv : GroupOf(s) \in Grp
  BY MgrAssumption DEF GroupOf
<1>2. ASSUME NEW g \in Grp
      PROVE  /\ DOMAIN Members[g] = 1..Len(Members[g]) /\ Len(Members[g]) \in Nat
             /\ \A i \in 1..Len(Members[g]) : Members[g][i] \in Serv
  <2>1. Members[g] \in Seq(Serv)
    BY MgrAssumption
  <2> QED
    BY <2>1
<1>3. Groups \in Seq(Grp)
  BY MgrAssumption
<1> QED
  BY <1>1, <1>2, <1>3

\* A service of a group is a service of no other.
LEMMA OneGroup ==
  ASSUME NEW g \in Grp, NEW h \in Grp, NEW i \in 1..Len(Members[g]), NEW j \in 1..Len(Members[h]),
         Members[g][i] = Members[h][j]
  PROVE  g = h
<1>1. Members[g][i] \in Range(Members[g]) /\ Members[h][j] \in Range(Members[h])
  BY GroupsOK DEF Range
<1>2. Range(Members[g]) \cap Range(Members[h]) # {} => g = h
  BY MgrAssumption
<1> QED
  BY <1>1, <1>2

\* A group is in sg_list once.
LEMMA GroupsDistinct ==
  ASSUME NEW i \in 1..Len(Groups), NEW j \in 1..Len(Groups), Groups[i] = Groups[j]
  PROVE  i = j
<1>1. IsInjective(Groups) /\ DOMAIN Groups = 1..Len(Groups)
  BY GroupsOK, MgrAssumption
<1> QED
  BY <1>1 DEF IsInjective

\* The constants that are numbers.
LEMMA Numbers ==
  /\ SpawnDelay \in Nat /\ StatsPeriod \in Nat /\ RestartDeadline \in Nat
  /\ RestartTime \in Nat /\ MaxOut \in Nat /\ MaxFaults \in Nat
  /\ RestartTime <= RestartDeadline
  BY MgrAssumption

\* No service, connection, process or answer is the absent one.
LEMMA NoneIsNone ==
  None \notin Serv /\ None \notin Conn /\ None \notin Proc /\ None # "stale"
  BY MgrAssumption

-----------------------------------------------------------------------------
(* What the handlers do to the flags of one service.                        *)

Flagged(x, minus, plus) == (x \ minus) \cup plus

\* Flags x in place of y leave a service in the life it is in.
Alike(x, y, d) ==
  /\ ServOK(y, d)
  /\ "STARTED" \in y <=> "STARTED" \in x
  /\ "RUNNING" \in y <=> "RUNNING" \in x
  /\ "ADMIN_STOPPED" \in y <=> "ADMIN_STOPPED" \in x

\* A service that is down is started.
LEMMA FlagsStart ==
  ASSUME NEW x \in SUBSET Flag, NEW d, ServOK(x, d), "STOPPED" \in x \/ "ADMIN_STOPPED" \in x,
         NEW y, y = (x \ {"STOPPED", "ADMIN_STOPPED"}) \cup {"STARTED"}
  PROVE  /\ y \in SUBSET Flag /\ ServOK(y, d) /\ "STARTED" \in y /\ "RUNNING" \notin y
         /\ "STARTED" \notin x /\ "RUNNING" \notin x
  BY DEF ServOK, Only, Flag, Life

\* A service that runs is told to stop.
LEMMA FlagsStopping ==
  ASSUME NEW x \in SUBSET Flag, NEW d, ServOK(x, d), "RUNNING" \in x,
         NEW flag \in {"STOPPING", "ADMIN_STOPPING"},
         NEW y, y = Flagged(x, {}, {flag})
  PROVE  Alike(x, y, d)
  BY DEF ServOK, Only, Flag, Life, Alike, Flagged

\* A service is to be restarted, enabled or disabled.
LEMMA FlagsMarked ==
  ASSUME NEW x \in SUBSET Flag, NEW d, ServOK(x, d), NEW y,
         \/ y = Flagged(x, {}, {"RESTART"})
         \/ y = Flagged(x, {"DISABLED"}, {"ENABLED"})
         \/ y = Flagged(x, {"ENABLED"}, {"DISABLED"})
  PROVE  Alike(x, y, d)
  BY DEF ServOK, Only, Flag, Life, Alike, Flagged

\* A service that was started or is stopped registers.
LEMMA FlagsAttach ==
  ASSUME NEW x \in SUBSET Flag, NEW d, ServOK(x, d), "STARTED" \in x \/ "STOPPED" \in x,
         NEW y, y = (x \ {"STARTED", "STOPPED"}) \cup {"RUNNING"}
  PROVE  /\ y \in SUBSET Flag /\ ServOK(y, d) /\ "RUNNING" \in y /\ "STARTED" \notin y
         /\ "RUNNING" \notin x
  BY DEF ServOK, Only, Flag, Life

\* A service that runs is lost.
LEMMA FlagsDetach ==
  ASSUME NEW x \in SUBSET Flag, NEW d, ServOK(x, d), "RUNNING" \in x,
         NEW z \in {"ADMIN_STOPPED", "STOPPED"},
         NEW y, y = (x \ {"RUNNING", "STOPPING", "ADMIN_STOPPING", "RESTART"}) \cup {z}
  PROVE  /\ y \in SUBSET Flag /\ ServOK(y, d) /\ "RUNNING" \notin y /\ "STARTED" \notin y
         /\ "STARTED" \notin x
  BY DEF ServOK, Only, Flag, Life

-----------------------------------------------------------------------------
(* The primitive updates of a handler's state.                              *)

\* What a handler does to a service leaves the other services' flags and the times
\* of the next respawn and the next restart alone.
Near(m, n, s) ==
  /\ \A t \in Serv \ {s} : n.flags[t] = m.flags[t]
  /\ \A g \in Grp : n.ticks[g].respawn = m.ticks[g].respawn
                    /\ n.ticks[g].restart = m.ticks[g].restart

\* Two handlers for one service in a row.
LEMMA NearTwice ==
  ASSUME NEW l, NEW m, NEW n, NEW s, Near(l, m, s), Near(m, n, s)
  PROVE  Near(l, n, s)
  BY DEF Near

\* The result of a handler.
LEMMA ResultIs ==
  ASSUME NEW m \in MState, NEW r \in Rc, NEW n, n = Result(m, r)
  PROVE  /\ n \in MState /\ n.rc = r
         /\ n.flags = m.flags /\ n.sconn = m.sconn /\ n.conn = m.conn /\ n.proc = m.proc
         /\ n.ticks = m.ticks /\ n.answer = m.answer /\ n.slipped = m.slipped
  BY DEF Result, MState

\* The flags of one service.
LEMMA SetFlagsIs ==
  ASSUME NEW m \in MState, NEW s \in Serv, NEW minus, NEW plus \in SUBSET Flag,
         NEW n, n = SetFlags(m, s, minus, plus)
  PROVE  /\ n \in MState /\ n.rc = m.rc
         /\ n.flags[s] = (m.flags[s] \ minus) \cup plus
         /\ \A t \in Serv \ {s} : n.flags[t] = m.flags[t]
         /\ n.sconn = m.sconn /\ n.conn = m.conn /\ n.proc = m.proc
         /\ n.ticks = m.ticks /\ n.answer = m.answer /\ n.slipped = m.slipped
<1> DEFINE y == (m.flags[s] \ minus) \cup plus
<1>1. m.flags \in FlagsT /\ m.flags[s] \in SUBSET Flag
  BY DEF MState, FlagsT
<1>2. y \in SUBSET Flag
  BY <1>1
<1> DEFINE f == [m.flags EXCEPT ![s] = y]
<1>3. f \in FlagsT /\ f[s] = y /\ \A t \in Serv \ {s} : f[t] = m.flags[t]
  BY <1>1, <1>2 DEF FlagsT
<1>4. n = [m EXCEPT !.flags = f]
  BY DEF SetFlags
<1> HIDE DEF f
<1> QED
  BY <1>3, <1>4 DEF MState

\* The ticks of one group: the statistics only.
StatsAt(m, g, k) == [m EXCEPT !.ticks[g].stats = k]

\* Setting the ticks to the next statistics touches no other timer.
LEMMA SetStatsIs ==
  ASSUME NEW m \in MState, NEW g \in Grp, NEW k \in Nat,
         NEW n, n = StatsAt(m, g, k)
  PROVE  /\ n \in MState /\ n.rc = m.rc
         /\ \A h \in Grp : n.ticks[h].respawn = m.ticks[h].respawn
                           /\ n.ticks[h].restart = m.ticks[h].restart
         /\ n.flags = m.flags /\ n.sconn = m.sconn /\ n.conn = m.conn /\ n.proc = m.proc
         /\ n.answer = m.answer /\ n.slipped = m.slipped
<1>1. m.ticks \in [Grp -> TickT] /\ m.ticks[g] \in TickT
  BY DEF MState
<1> DEFINE r == [m.ticks[g] EXCEPT !.stats = k]
<1>2. r \in TickT /\ r.respawn = m.ticks[g].respawn /\ r.restart = m.ticks[g].restart
  BY <1>1 DEF TickT
<1> DEFINE t == [m.ticks EXCEPT ![g] = r]
<1>3. n = [m EXCEPT !.ticks = t]
  BY DEF StatsAt
<1> HIDE DEF r
<1>4. t \in [Grp -> TickT] /\ t[g] = r /\ \A h \in Grp \ {g} : t[h] = m.ticks[h]
  BY <1>1, <1>2
<1> HIDE DEF t
<1>5. n.ticks = t
  BY <1>3 DEF MState
<1>6. \A h \in Grp : t[h].respawn = m.ticks[h].respawn /\ t[h].restart = m.ticks[h].restart
  BY <1>2, <1>4
<1>7. /\ n \in MState /\ n.rc = m.rc
      /\ n.flags = m.flags /\ n.sconn = m.sconn /\ n.conn = m.conn /\ n.proc = m.proc
      /\ n.answer = m.answer /\ n.slipped = m.slipped
  BY <1>3, <1>4 DEF MState
<1> QED
  BY <1>5, <1>6, <1>7

-----------------------------------------------------------------------------
(* Updates that move no service and no process.                             *)

SameRuns(f, g) ==
  \A s \in Serv : /\ "STARTED" \in g[s] <=> "STARTED" \in f[s]
                  /\ "RUNNING" \in g[s] <=> "RUNNING" \in f[s]

SameEnds(cn, dn) ==
  \A c \in Conn : /\ dn[c].type = cn[c].type /\ dn[c].serv = cn[c].serv /\ dn[c].peer = cn[c].peer
                  /\ dn[c].reg = cn[c].reg /\ dn[c].eof = cn[c].eof

\* Flags that do not start or stop, and messages that are sent and read, leave the
\* services where they are.
LEMMA Unmoved ==
  ASSUME NEW m \in OK, NEW n \in MState,
         SameRuns(m.flags, n.flags), SameEnds(m.conn, n.conn),
         n.sconn = m.sconn, n.proc = m.proc, m.slipped => n.slipped,
         LifeOK(n.flags), Quiet(n.conn, n.slipped), AnswerOK(n.answer, n.slipped)
  PROVE  n \in OK
<1>1. m \in MState /\ Good(m)
  BY DEF OK
<1>2. Ends(n.flags, n.sconn, n.conn)
  BY <1>1 DEF Good, Ends, SameRuns, SameEnds
<1>3. ConnOK(n.conn)
  BY <1>1 DEF Good, ConnOK, SameEnds
<1>4. ProcOK(n.proc) /\ Unique(n.proc, n.slipped)
  BY <1>1 DEF Good, Unique
<1>5. ASSUME Claims(m.flags, m.conn) PROVE Claims(n.flags, n.conn)
  BY <1>1, <1>5 DEF Good, ConnOK, Claims, SameEnds, SameRuns
<1>6. ASSUME NEW p \in Proc, m.proc[p].serv \in Serv,
             Placed(m.flags, m.sconn, m.conn, p, m.proc[p])
      PROVE  Placed(n.flags, n.sconn, n.conn, p, n.proc[p])
  <2> DEFINE r == m.proc[p]
  <2>1. r.serv \in Serv /\ n.proc[p] = r /\ Placed(m.flags, m.sconn, m.conn, p, r)
    BY <1>6
  <2> HIDE DEF r
  <2>2. \A d \in Conn : Registers(n.conn, d, r.serv) <=> Registers(m.conn, d, r.serv)
    BY DEF Registers, SameEnds
  <2>3. Placed(n.flags, n.sconn, n.conn, p, r)
    BY <2>1, <2>2 DEF Placed, SameEnds, SameRuns
  <2> QED
    BY <2>1, <2>3
<1>7. OneOK(n.flags, n.sconn, n.conn, n.proc, n.slipped)
  BY <1>1, <1>5, <1>6 DEF Good, OneOK
<1> QED
  BY <1>2, <1>3, <1>4, <1>7 DEF Good, OK

\* A state in which only the result differs.
LEMMA ResultOK ==
  ASSUME NEW m \in OK, NEW r \in Rc, NEW s
  PROVE  Result(m, r) \in OK /\ Near(m, Result(m, r), s)
<1> DEFINE n == Result(m, r)
<1>1. m \in MState /\ Good(m)
  BY DEF OK
<1>2. /\ n \in MState
      /\ n.flags = m.flags /\ n.sconn = m.sconn /\ n.conn = m.conn /\ n.proc = m.proc
      /\ n.ticks = m.ticks /\ n.answer = m.answer /\ n.slipped = m.slipped
  BY <1>1, ResultIs
<1> HIDE DEF n
<1>3. n \in OK
  BY <1>1, <1>2 DEF Good, OK
<1>4. Near(m, n, s)
  BY <1>2 DEF Near
<1> QED
  BY <1>3, <1>4 DEF n

\* The flags of a service that is told to stop, marked, enabled or disabled.
LEMMA MarkOK ==
  ASSUME NEW m \in OK, NEW s \in Serv, NEW minus, NEW plus \in SUBSET Flag,
         Alike(m.flags[s], Flagged(m.flags[s], minus, plus), Dead(s)),
         NEW n, n = SetFlags(m, s, minus, plus)
  PROVE  n \in OK /\ Near(m, n, s) /\ n.rc = m.rc
         /\ n.flags[s] = Flagged(m.flags[s], minus, plus)
<1> DEFINE y == (m.flags[s] \ minus) \cup plus
<1>1. m \in MState /\ Good(m)
  BY DEF OK
<1>2. /\ n \in MState /\ n.rc = m.rc
      /\ n.flags[s] = y
      /\ \A t \in Serv \ {s} : n.flags[t] = m.flags[t]
      /\ n.sconn = m.sconn /\ n.conn = m.conn /\ n.proc = m.proc
      /\ n.ticks = m.ticks /\ n.answer = m.answer /\ n.slipped = m.slipped
  BY <1>1, SetFlagsIs
<1>3. /\ ServOK(y, Dead(s))
      /\ "STARTED" \in y <=> "STARTED" \in m.flags[s]
      /\ "RUNNING" \in y <=> "RUNNING" \in m.flags[s]
  BY DEF Alike, Flagged
<1> HIDE DEF y
<1>4. LifeOK(n.flags)
  BY <1>1, <1>2, <1>3 DEF Good, LifeOK
<1>5. SameRuns(m.flags, n.flags) /\ SameEnds(m.conn, n.conn)
  BY <1>2, <1>3 DEF SameRuns, SameEnds
<1>6. Quiet(n.conn, n.slipped) /\ AnswerOK(n.answer, n.slipped)
  BY <1>1, <1>2 DEF Good
<1>7. n \in OK
  BY <1>2, <1>4, <1>5, <1>6, Unmoved
<1> QED
  BY <1>2, <1>7 DEF Near, Flagged, y

\* The time of the next report.
LEMMA SetStatsOK ==
  ASSUME NEW m \in OK, NEW g \in Grp, NEW k \in Nat, NEW s,
         NEW n, n = StatsAt(m, g, k)
  PROVE  n \in OK /\ Near(m, n, s) /\ n.rc = m.rc /\ n.flags = m.flags
<1>1. m \in MState /\ Good(m)
  BY DEF OK
<1>2. /\ n \in MState /\ n.rc = m.rc
      /\ \A h \in Grp : n.ticks[h].respawn = m.ticks[h].respawn
                        /\ n.ticks[h].restart = m.ticks[h].restart
      /\ n.flags = m.flags /\ n.sconn = m.sconn /\ n.conn = m.conn /\ n.proc = m.proc
      /\ n.answer = m.answer /\ n.slipped = m.slipped
  BY <1>1, SetStatsIs
<1> QED
  BY <1>1, <1>2 DEF Good, OK, Near

-----------------------------------------------------------------------------
(* fh_mgmt_serv_start.                                                      *)

\* A process that is spawned takes the place of none.
LEMMA SpawnedIs ==
  ASSUME NEW m \in MState, NEW s \in Serv, CanSpawn(m), NEW n, n = Spawned(m, s)
  PROVE  /\ n \in MState
         /\ n.flags = m.flags /\ n.sconn = m.sconn /\ n.conn = m.conn
         /\ n.ticks = m.ticks /\ n.answer = m.answer /\ n.slipped = m.slipped
         /\ \E p \in Proc :
              /\ m.proc[p] = NoProc
              /\ n.proc[p].serv = s /\ n.proc[p].st = "starting" /\ n.proc[p].conn = None
              /\ \A q \in Proc \ {p} : n.proc[q] = m.proc[q]
<1> DEFINE p == CHOOSE q \in Proc : m.proc[q] = NoProc
           r == [serv |-> s, st |-> "starting", conn |-> None]
           pr == [m.proc EXCEPT ![p] = r]
<1>1. p \in Proc /\ m.proc[p] = NoProc
  BY DEF CanSpawn
<1>2. r \in ProcT /\ r.serv = s /\ r.st = "starting" /\ r.conn = None
  BY DEF ProcT
<1>3. n = [m EXCEPT !.proc = pr, !.rc = "OK"]
  BY DEF Spawned
<1> HIDE DEF p, r
<1>4. pr \in [Proc -> ProcT] /\ pr[p] = r /\ \A q \in Proc \ {p} : pr[q] = m.proc[q]
  BY <1>1, <1>2 DEF MState
<1> HIDE DEF pr
<1>5. /\ n \in MState /\ n.proc = pr
      /\ n.flags = m.flags /\ n.sconn = m.sconn /\ n.conn = m.conn
      /\ n.ticks = m.ticks /\ n.answer = m.answer /\ n.slipped = m.slipped
  BY <1>3, <1>4 DEF MState, Rc
<1> QED
  BY <1>1, <1>2, <1>4, <1>5

\* A service that is down has neither a process nor a registration under way, so the
\* process that is started is its only one.
LEMMA LaunchOK ==
  ASSUME NEW m \in OK, NEW s \in Serv, Down(m, s), CanSpawn(m),
         NEW n, n = Spawned(SetFlags(m, s, {"STOPPED", "ADMIN_STOPPED"}, {"STARTED"}), s)
  PROVE  n \in OK /\ Near(m, n, s)
<1> DEFINE k == SetFlags(m, s, {"STOPPED", "ADMIN_STOPPED"}, {"STARTED"})
           x == m.flags[s]
           y == (x \ {"STOPPED", "ADMIN_STOPPED"}) \cup {"STARTED"}
<1>1. m \in MState /\ Good(m)
  BY DEF OK
<1>2. /\ k \in MState
      /\ k.flags[s] = y
      /\ \A t \in Serv \ {s} : k.flags[t] = m.flags[t]
      /\ k.sconn = m.sconn /\ k.conn = m.conn /\ k.proc = m.proc
      /\ k.ticks = m.ticks /\ k.answer = m.answer /\ k.slipped = m.slipped
  BY <1>1, SetFlagsIs DEF Flag, Life
<1>3. n = Spawned(k, s) /\ CanSpawn(k)
  BY <1>2 DEF CanSpawn
<1>4. x \in SUBSET Flag /\ ServOK(x, Dead(s)) /\ ("STOPPED" \in x \/ "ADMIN_STOPPED" \in x)
  BY <1>1 DEF Down, Good, LifeOK, MState, FlagsT
<1>5. /\ ServOK(y, Dead(s)) /\ "STARTED" \in y /\ "RUNNING" \notin y
      /\ "STARTED" \notin x /\ "RUNNING" \notin x
  BY <1>4, FlagsStart
<1> HIDE DEF k, x, y
<1>6. /\ n \in MState
      /\ n.flags = k.flags /\ n.sconn = k.sconn /\ n.conn = k.conn
      /\ n.ticks = k.ticks /\ n.answer = k.answer /\ n.slipped = k.slipped
      /\ \E p \in Proc :
           /\ k.proc[p] = NoProc
           /\ n.proc[p].serv = s /\ n.proc[p].st = "starting" /\ n.proc[p].conn = None
           /\ \A q \in Proc \ {p} : n.proc[q] = k.proc[q]
  BY <1>2, <1>3, SpawnedIs
<1>7. PICK p \in Proc : /\ m.proc[p] = NoProc
                        /\ n.proc[p].serv = s /\ n.proc[p].st = "starting"
                        /\ n.proc[p].conn = None
                        /\ \A q \in Proc \ {p} : n.proc[q] = m.proc[q]
  BY <1>2, <1>6
<1>8. /\ n.flags[s] = y /\ x = m.flags[s]
      /\ \A t \in Serv \ {s} : n.flags[t] = m.flags[t]
      /\ n.sconn = m.sconn /\ n.conn = m.conn
      /\ n.ticks = m.ticks /\ n.answer = m.answer /\ n.slipped = m.slipped
  BY <1>2, <1>6 DEF x
<1>9. LifeOK(n.flags)
  BY <1>1, <1>5, <1>8 DEF Good, LifeOK
<1>10. Ends(n.flags, n.sconn, n.conn)
  BY <1>1, <1>5, <1>8 DEF Good, Ends
<1>11. ProcOK(n.proc)
  BY <1>1, <1>7 DEF Good, ProcOK
<1>12. ASSUME ~m.slipped
       PROVE  /\ Unique(n.proc, n.slipped)
              /\ OneOK(n.flags, n.sconn, n.conn, n.proc, n.slipped)
  <2>1. /\ Claims(m.flags, m.conn)
        /\ \A q \in Proc : m.proc[q].serv \in Serv => Placed(m.flags, m.sconn, m.conn, q, m.proc[q])
    BY <1>1, <1>12 DEF Good, OneOK
  <2>2. \A q \in Proc : m.proc[q].serv # s
    BY <1>5, <1>8, <2>1 DEF Placed
  <2>3. Unique(n.proc, n.slipped)
    BY <1>1, <1>7, <1>8, <1>12, <2>2 DEF Good, Unique
  <2>4. \A c \in Conn : m.conn[c].type = "client" => m.conn[c].reg # s
    BY <1>5, <1>8, <2>1 DEF Claims
  <2>5. Claims(n.flags, n.conn)
    BY <1>1, <1>8, <2>1, <2>4 DEF Good, ConnOK, Claims
  <2>6. ASSUME NEW q \in Proc, n.proc[q].serv \in Serv
        PROVE  Placed(n.flags, n.sconn, n.conn, q, n.proc[q])
    <3>1. CASE q = p
      BY <1>5, <1>7, <1>8, <2>4, <3>1 DEF Placed, Registers
    <3>2. CASE q # p
      <4> DEFINE r == m.proc[q]
      <4>1. r.serv \in Serv /\ r.serv # s /\ n.proc[q] = r
            /\ Placed(m.flags, m.sconn, m.conn, q, r)
        BY <1>7, <2>1, <2>2, <2>6, <3>2
      <4> HIDE DEF r
      <4>2. n.flags[r.serv] = m.flags[r.serv]
        BY <1>8, <4>1
      <4>3. Placed(n.flags, n.sconn, n.conn, q, r)
        BY <1>8, <4>1, <4>2 DEF Placed
      <4> QED
        BY <4>1, <4>3
    <3> QED
      BY <3>1, <3>2
  <2> QED
    BY <2>3, <2>5, <2>6 DEF OneOK
<1>13. Unique(n.proc, n.slipped) /\ OneOK(n.flags, n.sconn, n.conn, n.proc, n.slipped)
  BY <1>8, <1>12 DEF Unique, OneOK
<1>14. ConnOK(n.conn) /\ Quiet(n.conn, n.slipped) /\ AnswerOK(n.answer, n.slipped)
  BY <1>1, <1>8 DEF Good
<1>15. n \in OK
  BY <1>6, <1>9, <1>10, <1>11, <1>13, <1>14 DEF Good, OK
<1> QED
  BY <1>8, <1>15 DEF Near

\* Starting a service.
LEMMA StartOK ==
  ASSUME NEW m \in OK, NEW s \in Serv
  PROVE  Start(m, s) \in OK /\ Near(m, Start(m, s), s)
<1> DEFINE n == Spawned(SetFlags(m, s, {"STOPPED", "ADMIN_STOPPED"}, {"STARTED"}), s)
<1>1. ASSUME Down(m, s), CanSpawn(m) PROVE n \in OK /\ Near(m, n, s)
  BY <1>1, LaunchOK
<1>2. Start(m, s) = IF Has(m, s, "DISABLED") \/ ~Down(m, s) THEN Result(m, "OK")
                    ELSE IF s \in m.bad \/ ~CanSpawn(m) THEN Result(m, "ERROR")
                    ELSE IF conf.serv[s].action = "wait" THEN Result(m, "OK") ELSE n
  BY DEF Start, Then
<1> HIDE DEF n
<1>3. /\ Result(m, "OK") \in OK /\ Near(m, Result(m, "OK"), s)
      /\ Result(m, "ERROR") \in OK /\ Near(m, Result(m, "ERROR"), s)
  BY ResultOK DEF Rc
<1> QED
  BY <1>1, <1>2, <1>3

-----------------------------------------------------------------------------
(* Messages to a service that runs.                                         *)

\* A service that runs has a connection.
LEMMA RunsOn ==
  ASSUME NEW m \in OK, NEW s \in Serv, Has(m, s, "RUNNING")
  PROVE  m.sconn[s] \in Conn
  BY DEF OK, Good, Ends, Has, MState, SconnT

\* The connections with other messages on one of them.
Talked(cn, c, q, l) == [cn EXCEPT ![c].out = q, ![c].late = l]

\* Another message in the socket and another number of late answers.
LEMMA TalkIs ==
  ASSUME NEW m \in MState, NEW c \in Conn, NEW q \in Seq(Message), NEW l \in Nat,
         NEW cn, cn = Talked(m.conn, c, q, l)
  PROVE  /\ cn \in [Conn -> ConnT] /\ SameEnds(m.conn, cn)
         /\ cn[c].out = q /\ cn[c].late = l
         /\ \A d \in Conn \ {c} : cn[d].out = m.conn[d].out /\ cn[d].late = m.conn[d].late
<1>1. m.conn \in [Conn -> ConnT] /\ m.conn[c] \in ConnT
  BY DEF MState
<1> DEFINE r == [m.conn[c] EXCEPT !.out = q, !.late = l]
<1>2. /\ r \in ConnT /\ r.out = q /\ r.late = l
      /\ r.type = m.conn[c].type /\ r.serv = m.conn[c].serv /\ r.peer = m.conn[c].peer
      /\ r.reg = m.conn[c].reg /\ r.eof = m.conn[c].eof
  BY <1>1 DEF ConnT
<1>3. cn = [m.conn EXCEPT ![c] = r]
  BY <1>1 DEF Talked
<1> HIDE DEF r
<1>4. cn \in [Conn -> ConnT] /\ cn[c] = r /\ \A d \in Conn \ {c} : cn[d] = m.conn[d]
  BY <1>1, <1>2, <1>3
<1>5. SameEnds(m.conn, cn)
  BY <1>2, <1>4 DEF SameEnds
<1> QED
  BY <1>2, <1>4, <1>5

\* Appending keeps what is behind a stop behind it.
LEMMA BehindAppend ==
  ASSUME NEW q \in Seq(Message), NEW w \in Message, Behind(q),
         w = "request" => \E i \in DOMAIN q : q[i] = "stop"
  PROVE  Append(q, w) \in Seq(Message) /\ Behind(Append(q, w))
<1> DEFINE a == Append(q, w)
<1>1. /\ a \in Seq(Message) /\ DOMAIN q = 1..Len(q) /\ Len(q) \in Nat
      /\ DOMAIN a = 1..(Len(q) + 1) /\ a[Len(q) + 1] = w
      /\ \A i \in 1..Len(q) : a[i] = q[i]
  OBVIOUS
<1> HIDE DEF a
<1>2. ASSUME NEW i \in DOMAIN a, a[i] = "request"
      PROVE  \E j \in 1..(i - 1) : a[j] = "stop"
  <2>1. CASE i \in 1..Len(q)
    <3>1. PICK j \in 1..(i - 1) : q[j] = "stop"
      BY <1>1, <1>2, <2>1 DEF Behind
    <3> QED
      BY <1>1, <2>1, <3>1
  <2>2. CASE i = Len(q) + 1
    BY <1>1, <1>2, <2>2
  <2> QED
    BY <1>1, <2>1, <2>2
<1> QED
  BY <1>1, <1>2 DEF Behind, a

\* The post of a message that needs no answer.
LEMMA PostOK ==
  ASSUME NEW m \in OK, NEW s \in Serv, Has(m, s, "RUNNING"), NEW w \in {"stop", "clear"}
  PROVE  /\ Post(m, s, w) \in OK /\ Near(m, Post(m, s, w), s)
         /\ Post(m, s, w).flags = m.flags
<1> DEFINE c == m.sconn[s]
           q == m.conn[c].out
           a == Append(q, w)
           cn == [m.conn EXCEPT ![c].out = a]
           k == [m EXCEPT !.conn = cn]
           n == Result(k, "OK")
<1>1. m \in MState /\ Good(m) /\ c \in Conn
  BY RunsOn DEF OK
<1>2. q \in Seq(Message) /\ m.conn[c].late \in Nat /\ m.conn \in [Conn -> ConnT]
      /\ m.conn[c] \in ConnT
  BY <1>1 DEF MState, ConnT
<1>3. Post(m, s, w) = IF m.conn[c].eof THEN Result(m, "ERROR") ELSE n
  BY DEF Post, Send
<1>4. CASE m.conn[c].eof
  <2>1. Result(m, "ERROR") \in OK /\ Near(m, Result(m, "ERROR"), s)
    BY ResultOK DEF Rc
  <2>2. Result(m, "ERROR").flags = m.flags
    BY <1>1, ResultIs DEF Rc
  <2> QED
    BY <1>3, <1>4, <2>1, <2>2
<1>5. CASE ~m.conn[c].eof
  <2>1. a \in Seq(Message) /\ (Behind(q) => Behind(a))
    <3>1. a \in Seq(Message)
      BY <1>2 DEF Message
    <3>2. Behind(q) => Behind(a)
      BY <1>2, BehindAppend DEF Message
    <3> QED
      BY <3>1, <3>2
  <2>2. cn = Talked(m.conn, c, a, m.conn[c].late)
    BY <1>1, <1>2 DEF ConnT, Talked
  <2> HIDE DEF a, q, c, cn
  <2>3. /\ cn \in [Conn -> ConnT] /\ SameEnds(m.conn, cn)
        /\ cn[c].out = a /\ cn[c].late = m.conn[c].late
        /\ \A d \in Conn \ {c} : cn[d].out = m.conn[d].out /\ cn[d].late = m.conn[d].late
    BY <1>1, <1>2, <2>1, <2>2, TalkIs
  <2>4. /\ k \in MState /\ k.conn = cn
        /\ k.flags = m.flags /\ k.sconn = m.sconn /\ k.proc = m.proc
        /\ k.ticks = m.ticks /\ k.answer = m.answer /\ k.slipped = m.slipped
    BY <1>1, <2>3 DEF MState
  <2> HIDE DEF k
  <2>5. Quiet(k.conn, k.slipped)
    BY <1>1, <2>1, <2>3, <2>4 DEF Good, Quiet, q
  <2>6. SameRuns(m.flags, k.flags) /\ SameEnds(m.conn, k.conn)
    BY <2>3, <2>4 DEF SameRuns
  <2>7. k \in OK
    BY <1>1, <2>4, <2>5, <2>6, Unmoved DEF Good
  <2>8. Near(m, k, s)
    BY <2>4 DEF Near
  <2>9. n \in OK /\ Near(k, n, s)
    BY <2>7, ResultOK DEF Rc
  <2>10. n.flags = k.flags
    BY <2>4, ResultIs DEF Rc
  <2> HIDE DEF n
  <2>11. Near(m, n, s)
    BY <2>8, <2>9, NearTwice
  <2> QED
    BY <1>3, <1>5, <2>4, <2>9, <2>10, <2>11
<1> QED
  BY <1>4, <1>5

-----------------------------------------------------------------------------
(* The requests of the command line that change a service.                  *)

\* The types of a service's flags.
LEMMA FlagsOf ==
  ASSUME NEW m \in OK, NEW s \in Serv
  PROVE  m \in MState /\ m.flags[s] \in SUBSET Flag /\ ServOK(m.flags[s], Dead(s))
  BY DEF OK, Good, LifeOK, MState, FlagsT

\* fh_mgmt_serv_stop and fh_mgmt_serv_admin_stop.
LEMMA StopWithOK ==
  ASSUME NEW m \in OK, NEW s \in Serv, NEW flag \in {"STOPPING", "ADMIN_STOPPING"}
  PROVE  /\ StopWith(m, s, flag) \in OK /\ Near(m, StopWith(m, s, flag), s)
         /\ "ADMIN_STOPPED" \in StopWith(m, s, flag).flags[s] <=> "ADMIN_STOPPED" \in m.flags[s]
<1> DEFINE n == Post(m, s, "stop")
           k == SetFlags(n, s, {}, {flag})
           r == StatsAt(k, GroupOf(s), StatsPeriod)
<1>1. CASE Down(m, s) \/ ~Has(m, s, "RUNNING")
  <2>1. StopWith(m, s, flag) = Result(m, "OK")
    BY <1>1 DEF StopWith
  <2>2. Result(m, "OK").flags = m.flags
    BY FlagsOf, ResultIs DEF Rc
  <2> QED
    BY <2>1, <2>2, ResultOK DEF Rc
<1>2. CASE ~Down(m, s) /\ Has(m, s, "RUNNING")
  <2>1. StopWith(m, s, flag) = IF n.rc # "OK" THEN n ELSE r
    BY <1>2 DEF StopWith, Then, Stopping, StatsAt
  <2>2. n \in OK /\ Near(m, n, s) /\ n.flags = m.flags
    BY <1>2, PostOK
  <2> HIDE DEF n
  <2>3. "RUNNING" \in n.flags[s]
    BY <1>2, <2>2 DEF Has
  <2>4. Alike(n.flags[s], Flagged(n.flags[s], {}, {flag}), Dead(s))
    BY <2>2, <2>3, FlagsOf, FlagsStopping
  <2>5. {flag} \in SUBSET Flag
    BY DEF Flag
  <2>6. k \in OK /\ Near(n, k, s) /\ k.flags[s] = Flagged(n.flags[s], {}, {flag})
    BY <2>2, <2>4, <2>5, MarkOK
  <2> HIDE DEF k
  <2>7. r \in OK /\ Near(k, r, s) /\ r.flags = k.flags
    BY <2>6, GroupsOK, Numbers, SetStatsOK
  <2> HIDE DEF r
  <2>8. Near(m, r, s)
    BY <2>2, <2>6, <2>7, NearTwice
  <2> QED
    BY <2>1, <2>2, <2>4, <2>6, <2>7, <2>8 DEF Alike
<1> QED
  BY <1>1, <1>2

\* fh_mgmt_serv_restart.
LEMMA RestartOK ==
  ASSUME NEW m \in OK, NEW s \in Serv
  PROVE  Restart(m, s) \in OK /\ Near(m, Restart(m, s), s)
<1> DEFINE n == Stop(m, s)
           k == SetFlags(n, s, {}, {"RESTART"})
<1>1. Restart(m, s) = IF Down(m, s) THEN Start(m, s) ELSE IF n.rc # "OK" THEN n ELSE k
  BY DEF Restart, Then, ToRestart
<1>2. n \in OK /\ Near(m, n, s)
  BY StopWithOK DEF Stop
<1> HIDE DEF n
<1>3. Alike(n.flags[s], Flagged(n.flags[s], {}, {"RESTART"}), Dead(s))
  BY <1>2, FlagsOf, FlagsMarked
<1>4. k \in OK /\ Near(n, k, s)
  BY <1>2, <1>3, MarkOK DEF Flag
<1> HIDE DEF k
<1>5. Near(m, k, s)
  BY <1>2, <1>4, NearTwice
<1> QED
  BY <1>1, <1>2, <1>4, <1>5, StartOK

\* fh_mgmt_serv_clrstats.
LEMMA ClrStatsOK ==
  ASSUME NEW m \in OK, NEW s \in Serv
  PROVE  ClrStats(m, s) \in OK /\ Near(m, ClrStats(m, s), s)
  BY PostOK, ResultOK DEF ClrStats, Rc

\* fh_mgmt_serv_disable.
LEMMA DisableOK ==
  ASSUME NEW m \in OK, NEW s \in Serv
  PROVE  Disable(m, s) \in OK /\ Near(m, Disable(m, s), s)
<1> DEFINE n == Stop(m, s)
           k == SetFlags(n, s, {"ENABLED"}, {"DISABLED"})
           r == Result(k, "OK")
<1>1. \/ Disable(m, s) = Result(m, "OK")
      \/ Disable(m, s) = r
  BY DEF Disable
<1>2. n \in OK /\ Near(m, n, s)
  BY StopWithOK DEF Stop
<1> HIDE DEF n
<1>3. Alike(n.flags[s], Flagged(n.flags[s], {"ENABLED"}, {"DISABLED"}), Dead(s))
  BY <1>2, FlagsOf, FlagsMarked
<1>4. k \in OK /\ Near(n, k, s)
  BY <1>2, <1>3, MarkOK DEF Flag
<1> HIDE DEF k
<1>5. r \in OK /\ Near(k, r, s)
  BY <1>4, ResultOK DEF Rc
<1> HIDE DEF r
<1>6. Near(m, r, s)
  BY <1>2, <1>4, <1>5, NearTwice
<1> QED
  BY <1>1, <1>5, <1>6, ResultOK DEF Rc

\* fh_mgmt_serv_enable.
LEMMA EnableOK ==
  ASSUME NEW m \in OK, NEW s \in Serv
  PROVE  Enable(m, s) \in OK /\ Near(m, Enable(m, s), s)
<1> DEFINE k == SetFlags(m, s, {"DISABLED"}, {"ENABLED"})
           r == Start(k, s)
<1>1. \/ Enable(m, s) = Result(m, "ERROR")
      \/ Enable(m, s) = Result(m, "OK")
      \/ Enable(m, s) = r
  BY DEF Enable, Then
<1>2. Alike(m.flags[s], Flagged(m.flags[s], {"DISABLED"}, {"ENABLED"}), Dead(s))
  BY FlagsOf, FlagsMarked
<1>3. k \in OK /\ Near(m, k, s)
  BY <1>2, MarkOK DEF Flag
<1> HIDE DEF k
<1>4. r \in OK /\ Near(k, r, s)
  BY <1>3, StartOK
<1> HIDE DEF r
<1>5. Near(m, r, s)
  BY <1>3, <1>4, NearTwice
<1> QED
  BY <1>1, <1>4, <1>5, ResultOK DEF Rc

-----------------------------------------------------------------------------
(* The requests that wait for an answer.                                    *)

\* The state with other connections, another answer and another result.
Told(m, cn, an, sl, rc) == [m EXCEPT !.conn = cn, !.answer = an, !.slipped = sl, !.rc = rc]

\* What telling a service something changes.
LEMMA ToldIs ==
  ASSUME NEW m \in MState, NEW cn \in [Conn -> ConnT], NEW an \in AnswerT, NEW sl \in BOOLEAN,
         NEW r \in Rc, NEW n, n = Told(m, cn, an, sl, r)
  PROVE  /\ n \in MState /\ n.conn = cn /\ n.answer = an /\ n.slipped = sl
         /\ n.flags = m.flags /\ n.sconn = m.sconn /\ n.proc = m.proc /\ n.ticks = m.ticks
         /\ n.slow = m.slow
  BY DEF Told, MState

\* Messages on one connection leave everything where it is, and nothing late as long
\* as nothing has been late.
MaySay(m, q, l, an, sl) ==
  /\ q \in Seq(Message) /\ l \in Nat /\ an \in AnswerT /\ sl \in BOOLEAN
  /\ m.slipped => sl
  /\ sl \/ (l = 0 /\ Behind(q) /\ an # "stale")

Settled(m, n, s) == n \in OK /\ Near(m, n, s) /\ n.flags = m.flags

\* It may be told at any time what MaySay allows.
LEMMA ToldOK ==
  ASSUME NEW m \in OK, NEW c \in Conn, NEW q, NEW l, NEW an, NEW sl, NEW r \in Rc, NEW s,
         MaySay(m, q, l, an, sl)
  PROVE  Settled(m, Told(m, Talked(m.conn, c, q, l), an, sl, r), s)
<1> DEFINE n == Told(m, Talked(m.conn, c, q, l), an, sl, r)
<1>0. /\ q \in Seq(Message) /\ l \in Nat /\ an \in AnswerT /\ sl \in BOOLEAN
      /\ m.slipped => sl
      /\ sl \/ (l = 0 /\ Behind(q))
      /\ AnswerOK(an, sl)
  BY DEF MaySay, AnswerOK
<1> DEFINE cn == Talked(m.conn, c, q, l)
<1>1. m \in MState /\ Good(m)
  BY DEF OK
<1>2. /\ cn \in [Conn -> ConnT] /\ SameEnds(m.conn, cn)
      /\ cn[c].out = q /\ cn[c].late = l
      /\ \A d \in Conn \ {c} : cn[d].out = m.conn[d].out /\ cn[d].late = m.conn[d].late
  BY <1>0, <1>1, TalkIs
<1>3. n = Told(m, cn, an, sl, r)
  OBVIOUS
<1> HIDE DEF cn, n
<1>4. /\ n \in MState /\ n.conn = cn /\ n.answer = an /\ n.slipped = sl
      /\ n.flags = m.flags /\ n.sconn = m.sconn /\ n.proc = m.proc /\ n.ticks = m.ticks
  BY <1>0, <1>1, <1>2, <1>3, ToldIs
<1>5. Quiet(n.conn, n.slipped)
  <2>1. CASE sl
    BY <1>4, <2>1 DEF Quiet
  <2>2. CASE ~sl
    <3>1. \A d \in Conn : m.conn[d].late = 0 /\ Behind(m.conn[d].out)
      BY <1>0, <1>1, <2>2 DEF Good, Quiet
    <3>2. \A d \in Conn : cn[d].late = 0 /\ Behind(cn[d].out)
      BY <1>0, <1>2, <2>2, <3>1
    <3> QED
      BY <1>4, <3>2 DEF Quiet
  <2> QED
    BY <2>1, <2>2
<1>6. SameRuns(m.flags, n.flags) /\ SameEnds(m.conn, n.conn)
  BY <1>2, <1>4 DEF SameRuns
<1>7. LifeOK(n.flags) /\ AnswerOK(n.answer, n.slipped)
  BY <1>0, <1>1, <1>4 DEF Good
<1>8. n \in OK
  BY <1>0, <1>4, <1>5, <1>6, <1>7, Unmoved
<1> QED
  BY <1>4, <1>8 DEF Near, Settled, n

\* The first request in what has been sent, with the one of now at the end.
FirstRequest(q) ==
  CHOOSE i \in DOMAIN q : q[i] = "request" /\ \A j \in 1..(i - 1) : q[j] # "request"

\* A request that has just been sent is the first that is not handled, unless one before
\* it is behind a stop (fh_adm_expect).
LEMMA FirstIs ==
  ASSUME NEW q \in Seq(Message), NEW a, a = Append(q, "request")
  PROVE  /\ FirstRequest(a) \in 1..Len(a)
         /\ a \in Seq(Message)
         /\ \A i \in DOMAIN a : a[i] = "stop" => i \in DOMAIN q /\ q[i] = "stop"
         /\ Behind(q) /\ (\A i \in DOMAIN a : a[i] # "stop") => FirstRequest(a) = Len(a)
<1>1. /\ a \in Seq(Message) /\ DOMAIN q = 1..Len(q) /\ Len(q) \in Nat
      /\ Len(a) = Len(q) + 1 /\ DOMAIN a = 1..Len(a) /\ a[Len(a)] = "request"
      /\ \A i \in 1..Len(q) : a[i] = q[i]
  BY DEF Message
<1> DEFINE P(i) == a[i] = "request" /\ \A j \in 1..(i - 1) : a[j] # "request"
<1>2. \E i \in DOMAIN a : P(i)
  <2> DEFINE T == {i \in Nat : i \in DOMAIN a /\ a[i] = "request"}
  <2>1. T \in SUBSET Nat /\ T # {}
    BY <1>1
  <2>2. PICK i \in T : \A j \in T : i <= j
    BY <2>1, TickFold!LeastNumber
  <2>3. P(i)
    BY <1>1, <2>2
  <2> QED
    BY <2>3
<1>3. FirstRequest(a) \in DOMAIN a /\ P(FirstRequest(a))
  BY <1>2 DEF FirstRequest
<1>4. ASSUME Behind(q), \A i \in DOMAIN a : a[i] # "stop"
      PROVE  FirstRequest(a) = Len(a)
  <2>1. \A i \in 1..Len(q) : q[i] # "request"
    <3> SUFFICES ASSUME NEW i \in 1..Len(q), q[i] = "request" PROVE FALSE
      OBVIOUS
    <3>1. PICK j \in 1..(i - 1) : q[j] = "stop"
      BY <1>1, <1>4 DEF Behind
    <3> QED
      BY <1>1, <1>4, <3>1
  <2> QED
    BY <1>1, <1>3, <2>1
<1>5. \A i \in DOMAIN a : a[i] = "stop" => i \in DOMAIN q /\ q[i] = "stop"
  BY <1>1
<1> QED
  BY <1>1, <1>3, <1>4, <1>5

\* What the end of a sequence leaves.
LEMMA TailIs ==
  ASSUME NEW a \in Seq(Message), NEW i \in 1..Len(a)
  PROVE  /\ SubSeq(a, i + 1, Len(a)) \in Seq(Message)
         /\ i = Len(a) => Behind(SubSeq(a, i + 1, Len(a)))
<1>1. Len(a) \in Nat /\ DOMAIN a = 1..Len(a)
  OBVIOUS
<1>2. SubSeq(a, i + 1, Len(a)) \in Seq(Message)
  <2>1. \A j \in (i + 1)..Len(a) : a[j] \in Message
    BY <1>1
  <2> QED
    BY <1>1, <2>1
<1>3. ASSUME i = Len(a) PROVE Behind(SubSeq(a, i + 1, Len(a)))
  <2>1. SubSeq(a, i + 1, Len(a)) = << >>
    BY <1>1, <1>3
  <2> QED
    BY <2>1 DEF Behind
<1> QED
  BY <1>2, <1>3

\* What was said before does not matter to what is said now.
LEMMA ToldTwice ==
  ASSUME NEW m \in MState, NEW c \in Conn, NEW q, NEW l, NEW an, NEW sl, NEW r,
         NEW q2, NEW l2, NEW an2, NEW sl2, NEW r2,
         NEW k, k = Told(m, Talked(m.conn, c, q, l), an, sl, r)
  PROVE  Told(k, Talked(k.conn, c, q2, l2), an2, sl2, r2)
           = Told(m, Talked(m.conn, c, q2, l2), an2, sl2, r2)
<1>1. m.conn \in [Conn -> ConnT] /\ m.conn[c] \in ConnT
  BY DEF MState
<1>2. Talked(Talked(m.conn, c, q, l), c, q2, l2) = Talked(m.conn, c, q2, l2)
  BY <1>1 DEF Talked, ConnT
<1>3. k.conn = Talked(m.conn, c, q, l)
  BY DEF Told, MState
<1> DEFINE x == Talked(m.conn, c, q, l)
           y == Talked(m.conn, c, q2, l2)
<1>4. Talked(k.conn, c, q2, l2) = y /\ k = Told(m, x, an, sl, r)
  BY <1>2, <1>3
<1> HIDE DEF x, y
<1>5. Told(k, y, an2, sl2, r2) = Told(m, y, an2, sl2, r2)
  BY <1>4 DEF Told, MState
<1> QED
  BY <1>4, <1>5 DEF y

\* fh_adm_expect, as what it says of the connection.
LEMMA ExpectIs ==
  ASSUME NEW k \in MState, NEW c \in Conn, NEW b
  PROVE  LET a == k.conn[c].out
             l == k.conn[c].late
             i == FirstRequest(a)
         IN  Expect(k, b, c) =
               IF l > 0 THEN Told(k, Talked(k.conn, c, a, l - 1), "stale", k.slipped, "OK")
               ELSE IF "stop" \in Range(a)
               THEN Told(k, Talked(k.conn, c, a, l), k.answer, k.slipped, "ERROR")
               ELSE IF b THEN Told(k, Talked(k.conn, c, a, l), k.answer, TRUE, "ERROR")
               ELSE Told(k, Talked(k.conn, c, SubSeq(a, i + 1, Len(a)), l),
                         IF i = Len(a) THEN "fresh" ELSE "stale", k.slipped, "OK")
<1> DEFINE a == k.conn[c].out
           l == k.conn[c].late
           i == FirstRequest(a)
           an == IF i = Len(a) THEN "fresh" ELSE "stale"
<1>1. k.conn \in [Conn -> ConnT] /\ k.conn[c] \in ConnT
  BY DEF MState
<1>2. Talked(k.conn, c, a, l) = k.conn
  BY <1>1 DEF Talked, ConnT
<1> DEFINE e == SubSeq(a, i + 1, Len(a))
           A == Result([k EXCEPT !.conn[c].late = @ - 1, !.answer = "stale"], "OK")
           C == Result([k EXCEPT !.slipped = TRUE], "ERROR")
           D == Result([k EXCEPT !.conn[c].out = e, !.answer = an], "OK")
<1>3. Expect(k, b, c) = IF l > 0 THEN A ELSE IF "stop" \in Range(a) THEN Result(k, "ERROR")
                        ELSE IF b THEN C ELSE D
  BY DEF Expect, FirstRequest
<1> HIDE DEF e, an, i
<1>4. A = Told(k, Talked(k.conn, c, a, l - 1), "stale", k.slipped, "OK")
  <2> DEFINE z == l - 1
  <2>1. A = Result([k EXCEPT !.conn[c].late = z, !.answer = "stale"], "OK")
    OBVIOUS
  <2> HIDE DEF z
  <2>2. [k.conn EXCEPT ![c].late = z] = Talked(k.conn, c, a, z)
    BY <1>1 DEF Talked, ConnT
  <2>3. A = Told(k, [k.conn EXCEPT ![c].late = z], "stale", k.slipped, "OK")
    BY <2>1 DEF Told, Result, MState
  <2> QED
    BY <2>2, <2>3 DEF z
<1>5. Result(k, "ERROR") = Told(k, k.conn, k.answer, k.slipped, "ERROR")
  BY DEF Told, Result, MState
<1>6. C = Told(k, k.conn, k.answer, TRUE, "ERROR")
  BY DEF Told, Result, MState
<1>7. D = Told(k, Talked(k.conn, c, e, l), an, k.slipped, "OK")
  <2>2. [k.conn EXCEPT ![c].out = e] = Talked(k.conn, c, e, l)
    BY <1>1 DEF Talked, ConnT
  <2>3. D = Told(k, [k.conn EXCEPT ![c].out = e], an, k.slipped, "OK")
    BY DEF Told, Result, MState
  <2> QED
    BY <2>2, <2>3
<1> HIDE DEF A, C, D
<1> QED
  BY <1>2, <1>3, <1>4, <1>5, <1>6, <1>7, Zenon DEF e, an, i

\* serv_reqresp, whose answer comes in time or not.
LEMMA ReqRespOK ==
  ASSUME NEW m \in OK, NEW s \in Serv, Has(m, s, "RUNNING")
  PROVE  /\ ReqResp(m, s) \in OK /\ Near(m, ReqResp(m, s), s)
         /\ ReqResp(m, s).flags = m.flags
<1> DEFINE c == m.sconn[s]
           q == m.conn[c].out
           l == m.conn[c].late
           a == Append(q, "request")
           k == Told(m, Talked(m.conn, c, a, l), m.answer, m.slipped, "OK")
<1>1. m \in MState /\ Good(m) /\ c \in Conn
  BY RunsOn DEF OK
<1>2. /\ q \in Seq(Message) /\ l \in Nat /\ m.conn \in [Conn -> ConnT] /\ m.conn[c] \in ConnT
      /\ m.answer \in AnswerT /\ m.slipped \in BOOLEAN
  BY <1>1 DEF MState, ConnT
<1>3. CASE m.conn[c].eof
  <2>1. Send(m, c, "request") = Result(m, "ERROR")
    BY <1>3 DEF Send
  <2>2. Result(m, "ERROR").rc = "ERROR" /\ Result(m, "ERROR").flags = m.flags
    BY <1>1, ResultIs DEF Rc
  <2>3. ReqResp(m, s) = Result(m, "ERROR")
    BY <2>1, <2>2 DEF ReqResp, Then, Answered
  <2> QED
    BY <2>2, <2>3, ResultOK DEF Rc
<1>4. CASE ~m.conn[c].eof
  <2>1. Send(m, c, "request") = k
    BY <1>1, <1>2, <1>4 DEF Send, Told, Talked, Result, MState, ConnT
  <2>2. a \in Seq(Message) /\ FirstRequest(a) \in 1..Len(a)
    BY <1>2, FirstIs
  <2> DEFINE i == FirstRequest(a)
             e == SubSeq(a, i + 1, Len(a))
             cn == Talked(m.conn, c, a, l)
  <2>3. /\ e \in Seq(Message)
        /\ Behind(q) /\ (\A j \in DOMAIN a : a[j] # "stop") => i = Len(a) /\ Behind(e)
    <3>2. i \in 1..Len(a) /\ a = Append(q, "request") /\ i = FirstRequest(a)
      BY <2>2
    <3> HIDE DEF a, i, q
    <3>1. Behind(q) /\ (\A j \in DOMAIN a : a[j] # "stop") => i = Len(a)
      BY <1>2, <3>2, FirstIs
    <3>3. e \in Seq(Message) /\ (i = Len(a) => Behind(e))
      BY <2>2, <3>2, TailIs
    <3> QED
      BY <3>1, <3>3
  <2>4. Behind(q) /\ (\E j \in DOMAIN a : a[j] = "stop") => Behind(a)
    <3>1. \A j \in DOMAIN a : a[j] = "stop" => j \in DOMAIN q /\ q[j] = "stop"
      BY <1>2, FirstIs
    <3> QED
      BY <1>2, <3>1, BehindAppend DEF Message
  <2> HIDE DEF a, q, l, c, i, e
  <2>5. cn \in [Conn -> ConnT] /\ cn[c].out = a /\ cn[c].late = l
    BY <1>1, <1>2, <2>2, TalkIs
  <2>6. k \in MState /\ k.conn = cn /\ k.sconn = m.sconn /\ k.slow = m.slow
    BY <1>1, <1>2, <2>5, ToldIs DEF Rc
  <2>7. k.rc = "OK"
    BY <1>1 DEF Told, MState
  <2>8. ReqResp(m, s) = Expect(k, s \in k.slow, c)
    <3> HIDE DEF k
    <3>1. ReqResp(m, s) = Answered(k, s)
      BY <2>1 DEF ReqResp, Then, c
    <3> QED
      BY <2>6, <2>7, <3>1 DEF Answered, c
  <2> DEFINE an == IF i = Len(a) THEN "fresh" ELSE "stale"
             A == Told(m, Talked(m.conn, c, a, l - 1), "stale", m.slipped, "OK")
             B == Told(m, Talked(m.conn, c, a, l), m.answer, m.slipped, "ERROR")
             C == Told(m, Talked(m.conn, c, a, l), m.answer, TRUE, "ERROR")
             D == Told(m, Talked(m.conn, c, e, l), an, m.slipped, "OK")
             Stops == "stop" \in Range(a)
  <2>9. ReqResp(m, s) = IF l > 0 THEN A ELSE IF Stops THEN B ELSE IF s \in m.slow THEN C ELSE D
    <3>1. k.answer = m.answer /\ k.slipped = m.slipped
      BY <1>1, <1>2, <2>5, ToldIs DEF Rc
    <3> HIDE DEF an, k, cn
    <3>2. Expect(k, s \in k.slow, c) =
           IF l > 0 THEN Told(k, Talked(k.conn, c, a, l - 1), "stale", k.slipped, "OK")
           ELSE IF "stop" \in Range(a)
           THEN Told(k, Talked(k.conn, c, a, l), k.answer, k.slipped, "ERROR")
           ELSE IF s \in k.slow THEN Told(k, Talked(k.conn, c, a, l), k.answer, TRUE, "ERROR")
           ELSE Told(k, Talked(k.conn, c, e, l), an, k.slipped, "OK")
      <4>1. a = k.conn[c].out /\ l = k.conn[c].late /\ c \in Conn
        BY <1>1, <2>5, <2>6
      <4> QED
        BY <2>6, <4>1, ExpectIs, Zenon DEF an, i, e
    <3>3. /\ Told(k, Talked(k.conn, c, a, l - 1), "stale", k.slipped, "OK") = A
          /\ Told(k, Talked(k.conn, c, a, l), k.answer, k.slipped, "ERROR") = B
          /\ Told(k, Talked(k.conn, c, a, l), k.answer, TRUE, "ERROR") = C
          /\ Told(k, Talked(k.conn, c, e, l), an, k.slipped, "OK") = D
      <4>1. k = Told(m, Talked(m.conn, c, a, l), m.answer, m.slipped, "OK")
        BY DEF k
      <4>2. \A q2, l2, an2, sl2, r2 : Told(k, Talked(k.conn, c, q2, l2), an2, sl2, r2)
                                       = Told(m, Talked(m.conn, c, q2, l2), an2, sl2, r2)
        BY <1>1, <4>1, ToldTwice
      <4> QED
        BY <3>1, <4>2, Zenon
    <3> QED
      BY <2>6, <2>8, <3>2, <3>3, Zenon
  <2>10. Stops <=> \E j \in DOMAIN a : a[j] = "stop"
    BY <2>2 DEF Range
  <2>11. ~m.slipped => l = 0 /\ Behind(q) /\ m.answer # "stale"
    BY <1>1 DEF Good, Quiet, AnswerOK, q, l
  <2> HIDE DEF Stops
  <2>12. CASE l > 0
    <3>1. MaySay(m, a, l - 1, "stale", m.slipped) /\ "OK" \in Rc
      BY <1>2, <2>2, <2>11, <2>12 DEF AnswerT, Rc, MaySay
    <3>2. Settled(m, A, s)
      BY <1>1, <3>1, ToldOK
    <3> QED
      BY <2>9, <2>12, <3>2, Zenon DEF Settled
  <2>13. CASE ~(l > 0) /\ Stops
    <3>1. MaySay(m, a, l, m.answer, m.slipped) /\ "ERROR" \in Rc
      BY <1>2, <2>2, <2>4, <2>10, <2>11, <2>13 DEF Rc, MaySay
    <3>2. Settled(m, B, s)
      BY <1>1, <3>1, ToldOK
    <3> QED
      BY <2>9, <2>13, <3>2, Zenon DEF Settled
  <2>14. CASE ~(l > 0) /\ ~Stops /\ s \in m.slow
    <3>1. MaySay(m, a, l, m.answer, TRUE) /\ "ERROR" \in Rc
      BY <1>2, <2>2 DEF Rc, MaySay
    <3>2. Settled(m, C, s)
      BY <1>1, <3>1, ToldOK
    <3> QED
      BY <2>9, <2>14, <3>2, Zenon DEF Settled
  <2>15. CASE ~(l > 0) /\ ~Stops /\ s \notin m.slow
    <3>1. MaySay(m, e, l, an, m.slipped) /\ "OK" \in Rc
      BY <1>2, <2>3, <2>10, <2>11, <2>15 DEF Rc, MaySay, AnswerT
    <3> HIDE DEF an
    <3>2. Settled(m, D, s)
      BY <1>1, <3>1, ToldOK
    <3> QED
      BY <2>9, <2>15, <3>2, Zenon DEF Settled
  <2> QED
    BY <2>12, <2>13, <2>14, <2>15
<1> QED
  BY <1>3, <1>4

\* serv_get_version, serv_get_stats and serv_get_status.
LEMMA GetOK ==
  ASSUME NEW m \in OK, NEW s \in Serv
  PROVE  /\ GetVersion(m, s) \in OK /\ Near(m, GetVersion(m, s), s)
         /\ GetStats(m, s) \in OK /\ Near(m, GetStats(m, s), s)
         /\ GetStatus(m, s) \in OK /\ Near(m, GetStatus(m, s), s)
         /\ GetStats(m, s).flags = m.flags
<1> DEFINE r == Result(m, "OK")
<1>1. r \in OK /\ Near(m, r, s)
  BY ResultOK DEF Rc
<1>2. r.flags = m.flags
  BY FlagsOf, ResultIs DEF Rc
<1> HIDE DEF r
<1>3. \A x \in {GetVersion(m, s), GetStats(m, s), GetStatus(m, s)} :
        x = r \/ (Has(m, s, "RUNNING") /\ x = ReqResp(m, s))
  BY DEF GetVersion, GetStats, GetStatus, r
<1>4. \A x : x = r \/ (Has(m, s, "RUNNING") /\ x = ReqResp(m, s)) =>
        x \in OK /\ Near(m, x, s) /\ x.flags = m.flags
  BY <1>1, <1>2, ReqRespOK
<1> QED
  BY <1>3, <1>4

\* serv_request.
LEMMA RequestOK ==
  ASSUME NEW m \in OK, NEW s \in Serv
  PROVE  Request(m, s) \in OK /\ Near(m, Request(m, s), s)
<1>1. \/ Request(m, s) \in {GetStatus(m, s), GetStats(m, s), GetVersion(m, s)}
      \/ Request(m, s) \in {Enable(m, s), Disable(m, s), Start(m, s), AdminStop(m, s)}
      \/ Request(m, s) \in {Restart(m, s), ClrStats(m, s), Result(m, "ERROR")}
  BY DEF Request
<1>2. /\ AdminStop(m, s) \in OK /\ Near(m, AdminStop(m, s), s)
      /\ Result(m, "ERROR") \in OK /\ Near(m, Result(m, "ERROR"), s)
  BY StopWithOK, ResultOK DEF AdminStop, Rc
<1> QED
  BY <1>1, <1>2, GetOK, EnableOK, DisableOK, StartOK, RestartOK, ClrStatsOK

-----------------------------------------------------------------------------
(* What walks through the services of a group.                              *)

\* The walks through a group are folds.
LEMMA Walks ==
  /\ \A m, q : FoldLeft(RequestVisit, m, q) = RequestFold!Fold(m, q)
  /\ \A m, q : FoldLeft(MonitorVisit, m, q) = MonitorFold!Fold(m, q)
  /\ \A m, q : FoldLeft(StatsVisit, m, q) = StatsFold!Fold(m, q)
  /\ \A m, q : FoldLeft(Restart, m, q) = RestartFold!Fold(m, q)
  /\ \A m, q : FoldLeft(SigTermVisit, m, q) = SigTermFold!Fold(m, q)
<1>1. \A m, q : FoldLeft(RequestVisit, m, q) = RequestFold!Fold(m, q)
  BY DEF FoldLeft, MapThenFoldSet, Max, RequestFold!Fold,
         RequestFold!FoldLeft, RequestFold!MapThenFoldSet, RequestFold!Max
<1>2. \A m, q : FoldLeft(MonitorVisit, m, q) = MonitorFold!Fold(m, q)
  BY DEF FoldLeft, MapThenFoldSet, Max, MonitorFold!Fold,
         MonitorFold!FoldLeft, MonitorFold!MapThenFoldSet, MonitorFold!Max
<1>3. \A m, q : FoldLeft(StatsVisit, m, q) = StatsFold!Fold(m, q)
  BY DEF FoldLeft, MapThenFoldSet, Max, StatsFold!Fold,
         StatsFold!FoldLeft, StatsFold!MapThenFoldSet, StatsFold!Max
<1>4. \A m, q : FoldLeft(Restart, m, q) = RestartFold!Fold(m, q)
  BY DEF FoldLeft, MapThenFoldSet, Max, RestartFold!Fold,
         RestartFold!FoldLeft, RestartFold!MapThenFoldSet, RestartFold!Max
<1>5. \A m, q : FoldLeft(SigTermVisit, m, q) = SigTermFold!Fold(m, q)
  BY DEF FoldLeft, MapThenFoldSet, Max, SigTermFold!Fold,
         SigTermFold!FoldLeft, SigTermFold!MapThenFoldSet, SigTermFold!Max
<1> QED
  BY <1>1, <1>2, <1>3, <1>4, <1>5

\* The walks through the groups are folds.
LEMMA GroupWalks ==
  /\ \A m, q : FoldLeft(AllVisit, m, q) = AllFold!Fold(m, q)
  /\ \A m, q : FoldLeft(GroupTick, m, q) = TickFold!Fold(m, q)
  /\ \A m, q : FoldLeft(SigTermGroup, m, q) = ExitFold!Fold(m, q)
<1>1. \A m, q : FoldLeft(AllVisit, m, q) = AllFold!Fold(m, q)
  BY DEF FoldLeft, MapThenFoldSet, Max, AllFold!Fold,
         AllFold!FoldLeft, AllFold!MapThenFoldSet, AllFold!Max
<1>2. \A m, q : FoldLeft(GroupTick, m, q) = TickFold!Fold(m, q)
  BY DEF FoldLeft, MapThenFoldSet, Max, TickFold!Fold,
         TickFold!FoldLeft, TickFold!MapThenFoldSet, TickFold!Max
<1>3. \A m, q : FoldLeft(SigTermGroup, m, q) = ExitFold!Fold(m, q)
  BY DEF FoldLeft, MapThenFoldSet, Max, ExitFold!Fold,
         ExitFold!FoldLeft, ExitFold!MapThenFoldSet, ExitFold!Max
<1> QED
  BY <1>1, <1>2, <1>3

\* The times of the next respawns are as they were.
Punctual(m, n) == \A g \in Grp : n.ticks[g].respawn = m.ticks[g].respawn

\* What a handler reaches from m without a timer.
Reached(m) == {n \in OK : Punctual(m, n)}

\* A handler for one service goes on from what was reached.
LEMMA ReachedStep ==
  ASSUME NEW m, NEW a \in Reached(m), NEW b \in OK, NEW s, Near(a, b, s)
  PROVE  b \in Reached(m)
  BY DEF Reached, Punctual, Near

\* What is reached from what is reached.
LEMMA ReachedTwice ==
  ASSUME NEW l, NEW m \in Reached(l), NEW n \in Reached(m)
  PROVE  n \in Reached(l)
  BY DEF Reached, Punctual

\* Doing nothing.
LEMMA ReachedSelf ==
  ASSUME NEW m \in OK
  PROVE  m \in Reached(m)
  BY DEF Reached, Punctual

\* sg_request and fh_mgmt_serv_request_all.
LEMMA GroupRequestOK ==
  ASSUME NEW m \in OK, NEW g \in Grp
  PROVE  GroupRequest(m, g) \in Reached(m)
<1>1. ASSUME NEW a \in Reached(m), NEW k \in 1..Len(Members[g])
      PROVE  RequestVisit(a, Members[g][k]) \in Reached(m)
  <2> DEFINE s == Members[g][k]
  <2>1. a \in OK /\ s \in Serv
    BY GroupsOK DEF Reached
  <2>2. Request(a, s) \in OK /\ Near(a, Request(a, s), s)
    BY <2>1, RequestOK
  <2>3. Request(a, s) \in Reached(m)
    BY <2>2, ReachedStep
  <2> QED
    BY <2>3 DEF RequestVisit
<1> DEFINE I == Reached(m)
<1>2. m \in I
  BY ReachedSelf
<1>3. \A a \in I, k \in 1..Len(Members[g]) : RequestVisit(a, Members[g][k]) \in I
  BY <1>1
<1> HIDE DEF I
<1>4. RequestFold!Fold(m, Members[g]) \in I
  BY <1>2, <1>3, GroupsOK, RequestFold!FoldKeeps
<1> QED
  BY <1>4, Walks DEF GroupRequest, I

\* fh_mgmt_serv_request_all over the groups.
LEMMA AllRequestOK ==
  ASSUME NEW m \in OK
  PROVE  AllRequest(m) \in Reached(m)
<1>1. ASSUME NEW a \in Reached(m), NEW k \in 1..Len(Groups)
      PROVE  AllVisit(a, Groups[k]) \in Reached(m)
  <2>1. a \in OK /\ Groups[k] \in Grp
    BY GroupsOK DEF Reached
  <2>2. GroupRequest(a, Groups[k]) \in Reached(a)
    BY <2>1, GroupRequestOK
  <2>3. GroupRequest(a, Groups[k]) \in Reached(m)
    BY <2>2, ReachedTwice
  <2> QED
    BY <2>3 DEF AllVisit
<1> DEFINE I == Reached(m)
<1>2. m \in I
  BY ReachedSelf
<1>3. \A a \in I, k \in 1..Len(Groups) : AllVisit(a, Groups[k]) \in I
  BY <1>1
<1> HIDE DEF I
<1>4. AllFold!Fold(m, Groups) \in I
  BY <1>2, <1>3, GroupsOK, AllFold!FoldKeeps
<1> QED
  BY <1>4, GroupWalks DEF AllRequest, I

\* fh_mgmt_serv_sigterm.
LEMMA SigTermGroupOK ==
  ASSUME NEW m \in OK, NEW g \in Grp
  PROVE  SigTermGroup(m, g) \in Reached(m)
<1>1. ASSUME NEW a \in Reached(m), NEW k \in 1..Len(Members[g])
      PROVE  SigTermVisit(a, Members[g][k]) \in Reached(m)
  <2> DEFINE s == Members[g][k]
  <2>1. a \in OK /\ s \in Serv
    BY GroupsOK DEF Reached
  <2>2. Stop(a, s) \in OK /\ Near(a, Stop(a, s), s)
    BY <2>1, StopWithOK DEF Stop
  <2>3. Stop(a, s) \in Reached(m)
    BY <2>2, ReachedStep
  <2> QED
    BY <2>3 DEF SigTermVisit
<1> DEFINE I == Reached(m)
<1>2. m \in I
  BY ReachedSelf
<1>3. \A a \in I, k \in 1..Len(Members[g]) : SigTermVisit(a, Members[g][k]) \in I
  BY <1>1
<1> HIDE DEF I
<1>4. SigTermFold!Fold(m, Members[g]) \in I
  BY <1>2, <1>3, GroupsOK, SigTermFold!FoldKeeps
<1> QED
  BY <1>4, Walks DEF SigTermGroup, I

\* fh_mgmt_sg_sig_term over the groups.
LEMMA SigTermOK ==
  ASSUME NEW m \in OK
  PROVE  FoldLeft(SigTermGroup, m, Groups) \in Reached(m)
<1>1. ASSUME NEW a \in Reached(m), NEW k \in 1..Len(Groups)
      PROVE  SigTermGroup(a, Groups[k]) \in Reached(m)
  <2>1. a \in OK /\ Groups[k] \in Grp
    BY GroupsOK DEF Reached
  <2>2. SigTermGroup(a, Groups[k]) \in Reached(a)
    BY <2>1, SigTermGroupOK
  <2> QED
    BY <2>2, ReachedTwice
<1> DEFINE I == Reached(m)
<1>2. m \in I
  BY ReachedSelf
<1>3. \A a \in I, k \in 1..Len(Groups) : SigTermGroup(a, Groups[k]) \in I
  BY <1>1
<1> HIDE DEF I
<1>4. ExitFold!Fold(m, Groups) \in I
  BY <1>2, <1>3, GroupsOK, ExitFold!FoldKeeps
<1> QED
  BY <1>4, GroupWalks DEF I

\* What a group's timers do stays in the group.
Within(m, n, g) ==
  /\ \A t \in Serv : (\A k \in 1..Len(Members[g]) : Members[g][k] # t) => n.flags[t] = m.flags[t]
  /\ \A h \in Grp : n.ticks[h].respawn = m.ticks[h].respawn
                    /\ n.ticks[h].restart = m.ticks[h].restart

\* No service that was stopped from the command line comes back.
KeepsAdmin(m, n) ==
  \A s \in Serv : "ADMIN_STOPPED" \in m.flags[s] => "ADMIN_STOPPED" \in n.flags[s]

\* A handler for a service of the group stays within the group.
LEMMA WithinStep ==
  ASSUME NEW m, NEW n, NEW k, NEW g \in Grp, NEW i \in 1..Len(Members[g]),
         Within(m, n, g), Near(n, k, Members[g][i])
  PROVE  Within(m, k, g)
  BY DEF Within, Near

\* sg_serv_monitor's walk.
LEMMA MonitorWalk ==
  ASSUME NEW m \in OK, NEW g \in Grp
  PROVE  LET n == FoldLeft(MonitorVisit, m, Members[g])
         IN  n \in OK /\ Within(m, n, g) /\ KeepsAdmin(m, n)
<1> DEFINE I == {n \in OK : Within(m, n, g) /\ KeepsAdmin(m, n)}
<1>1. m \in I
  BY DEF Within, KeepsAdmin
<1>2. ASSUME NEW a \in I, NEW k \in 1..Len(Members[g])
      PROVE  MonitorVisit(a, Members[g][k]) \in I
  <2> DEFINE s == Members[g][k]
  <2>1. s \in Serv
    BY GroupsOK
  <2>2. CASE conf.serv[s].action = "respawn" /\ Has(a, s, "STOPPED")
    <3> DEFINE b == Start(a, s)
    <3>1. MonitorVisit(a, s) = b
      BY <2>2 DEF MonitorVisit
    <3>2. a \in OK /\ b \in OK /\ Near(a, b, s)
      BY <2>1, StartOK
    <3> HIDE DEF b
    <3>3. Within(m, b, g)
      BY <3>2, WithinStep
    <3>4. "ADMIN_STOPPED" \notin a.flags[s]
      BY <2>1, <2>2, <3>2, FlagsOf DEF Has, ServOK, Only
    <3>5. KeepsAdmin(m, b)
      BY <2>1, <3>2, <3>4 DEF KeepsAdmin, Near
    <3> QED
      BY <3>1, <3>2, <3>3, <3>5
  <2>3. CASE ~(conf.serv[s].action = "respawn" /\ Has(a, s, "STOPPED"))
    BY <2>3 DEF MonitorVisit
  <2> QED
    BY <2>2, <2>3
<1> HIDE DEF I
<1>3. \A a \in I, k \in 1..Len(Members[g]) : MonitorVisit(a, Members[g][k]) \in I
  BY <1>2
<1>4. MonitorFold!Fold(m, Members[g]) \in I
  BY <1>1, <1>3, GroupsOK, MonitorFold!FoldKeeps
<1> QED
  BY <1>4, Walks DEF I

\* sg_stats_report.
LEMMA StatsWalk ==
  ASSUME NEW m \in OK, NEW g \in Grp
  PROVE  LET n == StatsReport(m, g)
         IN  n \in OK /\ Within(m, n, g) /\ KeepsAdmin(m, n)
<1> DEFINE I == {n \in OK : Within(m, n, g) /\ KeepsAdmin(m, n)}
<1>1. m \in I
  BY DEF Within, KeepsAdmin
<1>2. ASSUME NEW a \in I, NEW k \in 1..Len(Members[g])
      PROVE  StatsVisit(a, Members[g][k]) \in I
  <2> DEFINE s == Members[g][k]
             b == GetStats(a, s)
  <2>1. s \in Serv
    BY GroupsOK
  <2>2. StatsVisit(a, s) = a \/ StatsVisit(a, s) = b
    BY DEF StatsVisit
  <2>3. a \in OK /\ b \in OK /\ Near(a, b, s) /\ b.flags = a.flags
    BY <2>1, GetOK
  <2> HIDE DEF b
  <2>4. Within(m, b, g)
    BY <2>3, WithinStep
  <2>5. KeepsAdmin(m, b)
    BY <2>3 DEF KeepsAdmin
  <2> QED
    BY <2>2, <2>3, <2>4, <2>5
<1> HIDE DEF I
<1>3. \A a \in I, k \in 1..Len(Members[g]) : StatsVisit(a, Members[g][k]) \in I
  BY <1>2
<1>4. StatsFold!Fold(m, Members[g]) \in I
  BY <1>1, <1>3, GroupsOK, StatsFold!FoldKeeps
<1> QED
  BY <1>4, Walks DEF I, StatsReport

\* sg_restart's walk.
LEMMA RestartWalk ==
  ASSUME NEW m \in OK, NEW g \in Grp
  PROVE  LET n == FoldLeft(Restart, m, Members[g]) IN n \in OK /\ Within(m, n, g)
<1> DEFINE I == {n \in OK : Within(m, n, g)}
<1>1. m \in I
  BY DEF Within
<1>2. ASSUME NEW a \in I, NEW k \in 1..Len(Members[g])
      PROVE  Restart(a, Members[g][k]) \in I
  <2> DEFINE s == Members[g][k]
             b == Restart(a, s)
  <2>1. s \in Serv
    BY GroupsOK
  <2>2. b \in OK /\ Near(a, b, s)
    BY <2>1, RestartOK
  <2> HIDE DEF b
  <2>3. Within(m, b, g)
    BY <2>2, WithinStep
  <2> QED
    BY <2>2, <2>3 DEF b
<1> HIDE DEF I
<1>3. \A a \in I, k \in 1..Len(Members[g]) : Restart(a, Members[g][k]) \in I
  BY <1>2
<1>4. RestartFold!Fold(m, Members[g]) \in I
  BY <1>1, <1>3, GroupsOK, RestartFold!FoldKeeps
<1> QED
  BY <1>4, Walks DEF I

-----------------------------------------------------------------------------
(* The timers of a group.                                                   *)

TicksAt(m, g, r) == [m EXCEPT !.ticks[g] = r]

\* The timers are no part of what is kept of the services.
LEMMA TicksOK ==
  ASSUME NEW m \in OK, NEW g \in Grp, NEW r \in TickT, NEW n, n = TicksAt(m, g, r)
  PROVE  /\ n \in OK /\ n.flags = m.flags /\ n.ticks[g] = r
         /\ \A h \in Grp \ {g} : n.ticks[h] = m.ticks[h]
<1>1. m \in MState /\ Good(m)
  BY DEF OK
<1> DEFINE t == [m.ticks EXCEPT ![g] = r]
<1>2. t \in [Grp -> TickT] /\ t[g] = r /\ \A h \in Grp \ {g} : t[h] = m.ticks[h]
  BY <1>1 DEF MState
<1>3. n = [m EXCEPT !.ticks = t]
  BY DEF TicksAt
<1> HIDE DEF t
<1>4. /\ n \in MState /\ n.ticks = t
      /\ n.flags = m.flags /\ n.sconn = m.sconn /\ n.conn = m.conn /\ n.proc = m.proc
      /\ n.answer = m.answer /\ n.slipped = m.slipped
  BY <1>1, <1>2, <1>3 DEF MState
<1>5. n \in OK
  BY <1>1, <1>4 DEF Good, OK
<1> QED
  BY <1>2, <1>4, <1>5

RespawnAt(m, g, k) == [m EXCEPT !.ticks[g].respawn = k]
RestartAt(m, g, k) == [m EXCEPT !.ticks[g].restart = k]

\* One of the timers of a group is set.
LEMMA TickSet ==
  ASSUME NEW m \in OK, NEW g \in Grp, NEW k \in Nat
  PROVE  /\ StatsAt(m, g, k) \in OK /\ StatsAt(m, g, k).flags = m.flags
         /\ StatsAt(m, g, k).ticks[g].restart = m.ticks[g].restart
         /\ \A h \in Grp \ {g} : StatsAt(m, g, k).ticks[h] = m.ticks[h]
         /\ k \in 0..SpawnDelay =>
              /\ RespawnAt(m, g, k) \in OK /\ RespawnAt(m, g, k).flags = m.flags
              /\ RespawnAt(m, g, k).ticks[g].restart = m.ticks[g].restart
              /\ \A h \in Grp \ {g} : RespawnAt(m, g, k).ticks[h] = m.ticks[h]
         /\ RestartAt(m, g, k) \in OK /\ RestartAt(m, g, k).flags = m.flags
         /\ RestartAt(m, g, k).ticks[g].restart = k
         /\ \A h \in Grp \ {g} : RestartAt(m, g, k).ticks[h] = m.ticks[h]
<1>1. m.ticks \in [Grp -> TickT] /\ m.ticks[g] \in TickT
  BY DEF OK, MState
<1> DEFINE ra == [m.ticks[g] EXCEPT !.stats = k]
           rb == [m.ticks[g] EXCEPT !.respawn = k]
           rc == [m.ticks[g] EXCEPT !.restart = k]
           a == TicksAt(m, g, ra)
           b == TicksAt(m, g, rb)
           c == TicksAt(m, g, rc)
<1>2. /\ ra \in TickT /\ ra.restart = m.ticks[g].restart
      /\ k \in 0..SpawnDelay => rb \in TickT /\ rb.restart = m.ticks[g].restart
      /\ rc \in TickT /\ rc.restart = k
  BY <1>1 DEF TickT
<1>3. a = StatsAt(m, g, k) /\ b = RespawnAt(m, g, k) /\ c = RestartAt(m, g, k)
  BY DEF TicksAt, StatsAt, RespawnAt, RestartAt
<1> HIDE DEF ra, rb, rc
<1>4. /\ a \in OK /\ a.flags = m.flags /\ a.ticks[g] = ra
      /\ \A h \in Grp \ {g} : a.ticks[h] = m.ticks[h]
  BY <1>2, TicksOK
<1>5. k \in 0..SpawnDelay =>
        /\ b \in OK /\ b.flags = m.flags /\ b.ticks[g] = rb
        /\ \A h \in Grp \ {g} : b.ticks[h] = m.ticks[h]
  BY <1>2, TicksOK
<1>6. /\ c \in OK /\ c.flags = m.flags /\ c.ticks[g] = rc
      /\ \A h \in Grp \ {g} : c.ticks[h] = m.ticks[h]
  BY <1>2, TicksOK
<1> HIDE DEF a, b, c
<1> QED
  BY <1>2, <1>3, <1>4, <1>5, <1>6

\* A group's timers leave the other groups alone.
Apart(m, n, g) ==
  /\ \A t \in Serv : (\A k \in 1..Len(Members[g]) : Members[g][k] # t) => n.flags[t] = m.flags[t]
  /\ \A h \in Grp \ {g} : n.ticks[h].respawn = m.ticks[h].respawn
                          /\ n.ticks[h].restart = m.ticks[h].restart

\* A timer that does not restart the group.
Kept(m, n, g) ==
  n \in OK /\ Apart(m, n, g) /\ n.ticks[g].restart = m.ticks[g].restart /\ KeepsAdmin(m, n)

\* Two parts of a group's tick in a row.
LEMMA KeptTwice ==
  ASSUME NEW l, NEW m, NEW n, NEW g \in Grp, Kept(l, m, g), Kept(m, n, g)
  PROVE  Kept(l, n, g)
  BY DEF Kept, Apart, KeepsAdmin

\* sg_serv_monitor.
LEMMA MonitorOK ==
  ASSUME NEW m \in OK, NEW g \in Grp
  PROVE  Kept(m, Monitor(m, g), g)
<1> DEFINE w == FoldLeft(MonitorVisit, m, Members[g])
           z == 0
           x == RespawnAt(w, g, z)
           k == m.ticks[g].respawn + 1
           y == RespawnAt(m, g, k)
<1>1. w \in OK /\ Within(m, w, g) /\ KeepsAdmin(m, w)
  BY MonitorWalk
<1>2. m.ticks[g].respawn \in 0..SpawnDelay
  BY DEF OK, MState, TickT
<1>3. Monitor(m, g) = IF m.ticks[g].respawn >= SpawnDelay THEN x ELSE y
  BY DEF Monitor, RespawnAt
<1>4. z \in Nat /\ z \in 0..SpawnDelay /\ k \in Nat
      /\ (~(m.ticks[g].respawn >= SpawnDelay) => k \in 0..SpawnDelay)
  BY <1>2, Numbers
<1> HIDE DEF w, z, k
<1>5. x \in OK /\ x.flags = w.flags /\ x.ticks[g].restart = w.ticks[g].restart
      /\ \A h \in Grp \ {g} : x.ticks[h] = w.ticks[h]
  BY <1>1, <1>4, TickSet
<1>6. k \in 0..SpawnDelay =>
        /\ y \in OK /\ y.flags = m.flags /\ y.ticks[g].restart = m.ticks[g].restart
        /\ \A h \in Grp \ {g} : y.ticks[h] = m.ticks[h]
  BY <1>4, TickSet
<1> HIDE DEF x, y
<1>7. Kept(m, x, g)
  BY <1>1, <1>5 DEF Kept, Apart, Within, KeepsAdmin
<1>8. k \in 0..SpawnDelay => Kept(m, y, g)
  BY <1>6 DEF Kept, Apart, KeepsAdmin
<1> QED
  BY <1>3, <1>4, <1>7, <1>8

\* The statistics of a group.
LEMMA StatsTickOK ==
  ASSUME NEW m \in OK, NEW g \in Grp
  PROVE  Kept(m, StatsTick(m, g), g)
<1> DEFINE w == StatsReport(m, g)
           z == 0
           x == StatsAt(w, g, z)
           k == m.ticks[g].stats + 1
           y == StatsAt(m, g, k)
<1>1. w \in OK /\ Within(m, w, g) /\ KeepsAdmin(m, w)
  BY StatsWalk
<1>2. m.ticks[g].stats \in Nat
  BY DEF OK, MState, TickT
<1>3. StatsTick(m, g) \in {m, x, y}
  BY DEF StatsTick, StatsAt
<1>4. z \in Nat /\ k \in Nat
  BY <1>2
<1> HIDE DEF w, z, k
<1>5. x \in OK /\ x.flags = w.flags /\ x.ticks[g].restart = w.ticks[g].restart
      /\ \A h \in Grp \ {g} : x.ticks[h] = w.ticks[h]
  BY <1>1, <1>4, TickSet
<1>6. /\ y \in OK /\ y.flags = m.flags /\ y.ticks[g].restart = m.ticks[g].restart
      /\ \A h \in Grp \ {g} : y.ticks[h] = m.ticks[h]
  BY <1>4, TickSet
<1> HIDE DEF x, y
<1>7. Kept(m, x, g)
  BY <1>1, <1>5 DEF Kept, Apart, Within, KeepsAdmin
<1>8. Kept(m, y, g) /\ Kept(m, m, g)
  BY <1>6 DEF Kept, Apart, KeepsAdmin
<1> QED
  BY <1>3, <1>7, <1>8

\* The restart of a group: it is due, and the ticks start again, or nothing happens to
\* the services.
LEMMA RestartTickOK ==
  ASSUME NEW m \in OK, NEW g \in Grp
  PROVE  LET n == RestartTick(m, g)
         IN  /\ n \in OK /\ Apart(m, n, g)
             /\ (conf.grp[g].restart => n.ticks[g].restart # 0) => KeepsAdmin(m, n)
<1> DEFINE w == FoldLeft(Restart, m, Members[g])
           z == 0
           x == RestartAt(w, g, z)
           k == m.ticks[g].restart + 1
           y == RestartAt(m, g, k)
           n == RestartTick(m, g)
<1>1. w \in OK /\ Within(m, w, g)
  BY RestartWalk
<1>2. m.ticks[g].restart \in Nat
  BY DEF OK, MState, TickT
<1>3. (~conf.grp[g].restart /\ n = m) \/ (conf.grp[g].restart /\ n = x) \/ n = y
  BY DEF RestartTick, RestartAt
<1>4. z \in Nat /\ k \in Nat /\ z = 0
  BY <1>2
<1> HIDE DEF w, z, k
<1>5. x \in OK /\ x.flags = w.flags /\ x.ticks[g].restart = z
      /\ \A h \in Grp \ {g} : x.ticks[h] = w.ticks[h]
  BY <1>1, <1>4, TickSet
<1>6. /\ y \in OK /\ y.flags = m.flags
      /\ \A h \in Grp \ {g} : y.ticks[h] = m.ticks[h]
  BY <1>4, TickSet
<1> HIDE DEF x, y, n
<1>7. Apart(m, x, g)
  BY <1>1, <1>5 DEF Apart, Within
<1>8. Apart(m, y, g) /\ KeepsAdmin(m, y) /\ Apart(m, m, g) /\ KeepsAdmin(m, m)
  BY <1>6 DEF Apart, KeepsAdmin
<1>9. /\ n \in OK /\ Apart(m, n, g)
      /\ (conf.grp[g].restart => n.ticks[g].restart # 0) => KeepsAdmin(m, n)
  BY <1>3, <1>4, <1>5, <1>6, <1>7, <1>8
<1> QED
  BY <1>9 DEF n

\* fh_mgmt_sg_timers for one group.
Ticked(m, n, g) ==
  /\ n \in OK /\ Apart(m, n, g)
  /\ (conf.grp[g].restart => n.ticks[g].restart # 0) /\ Timed(g) => KeepsAdmin(m, n)
  /\ ~Timed(g) => n = m

\* fh_mgmt_sg_timers, of one group.
LEMMA GroupTickOK ==
  ASSUME NEW m \in OK, NEW g \in Grp
  PROVE  Ticked(m, GroupTick(m, g), g)
<1> DEFINE a == Monitor(m, g)
           b == StatsTick(a, g)
           c == RestartTick(b, g)
<1>1. GroupTick(m, g) = IF ~Timed(g) THEN m ELSE c
  BY DEF GroupTick, Then
<1>2. Kept(m, a, g)
  BY MonitorOK
<1> HIDE DEF a
<1>3. Kept(a, b, g)
  BY <1>2, StatsTickOK DEF Kept
<1> HIDE DEF b
<1>4. Kept(m, b, g)
  BY <1>2, <1>3, KeptTwice
<1>5. /\ c \in OK /\ Apart(b, c, g)
      /\ (conf.grp[g].restart => c.ticks[g].restart # 0) => KeepsAdmin(b, c)
  BY <1>4, RestartTickOK DEF Kept
<1> HIDE DEF c
<1>6. Apart(m, c, g) /\ (KeepsAdmin(b, c) => KeepsAdmin(m, c)) /\ Apart(m, m, g)
  BY <1>4, <1>5 DEF Kept, Apart, KeepsAdmin
<1> QED
  BY <1>1, <1>5, <1>6 DEF Ticked

\* After the timers of the first k groups: a group whose turn has not come is as it
\* was, and one whose restart was not due has kept what was stopped from the command
\* line.
Sofar(m, n, k) ==
  \A g \in Grp :
    /\ ~Timed(g) => n.ticks[g].respawn = m.ticks[g].respawn
    /\ (\A j \in 1..k : Groups[j] # g) =>
         \A i \in 1..Len(Members[g]) : n.flags[Members[g][i]] = m.flags[Members[g][i]]
    /\ Timed(g) /\ (conf.grp[g].restart => n.ticks[g].restart # 0)
       /\ (\E j \in 1..k : Groups[j] = g) =>
         \A i \in 1..Len(Members[g]) :
           "ADMIN_STOPPED" \in m.flags[Members[g][i]] => "ADMIN_STOPPED" \in n.flags[Members[g][i]]

\* The next group has its turn: the services of the others are left alone, since a
\* service has one group.
LEMMA SofarStep ==
  ASSUME NEW m, NEW a \in OK, NEW k \in 1..Len(Groups), Sofar(m, a, k - 1)
  PROVE  GroupTick(a, Groups[k]) \in OK /\ Sofar(m, GroupTick(a, Groups[k]), k)
<1> DEFINE h == Groups[k]
           b == GroupTick(a, h)
<1>1. h \in Grp /\ k \in Nat
  BY GroupsOK
<1>2. b \in OK /\ Apart(a, b, h) /\ (~Timed(h) => b = a)
      /\ ((conf.grp[h].restart => b.ticks[h].restart # 0) /\ Timed(h) => KeepsAdmin(a, b))
  BY <1>1, GroupTickOK DEF Ticked
<1>3. \A j \in 1..(k - 1) : Groups[j] # h
  <2> SUFFICES ASSUME NEW j \in 1..(k - 1), Groups[j] = h PROVE FALSE
    OBVIOUS
  <2>1. j \in 1..Len(Groups) /\ j # k
    BY GroupsOK
  <2> QED
    BY <2>1, GroupsDistinct
<1>4. h = Groups[k]
  OBVIOUS
<1> HIDE DEF b, h
<1>5. ASSUME NEW g \in Grp, g # h
      PROVE  /\ ~Timed(g) => b.ticks[g].respawn = m.ticks[g].respawn
             /\ (\A j \in 1..k : Groups[j] # g) =>
                  \A i \in 1..Len(Members[g]) : b.flags[Members[g][i]] = m.flags[Members[g][i]]
             /\ Timed(g) /\ (conf.grp[g].restart => b.ticks[g].restart # 0)
                /\ (\E j \in 1..k : Groups[j] = g) =>
                  \A i \in 1..Len(Members[g]) :
                    "ADMIN_STOPPED" \in m.flags[Members[g][i]] =>
                      "ADMIN_STOPPED" \in b.flags[Members[g][i]]
  <2>1. \A i \in 1..Len(Members[g]) : b.flags[Members[g][i]] = a.flags[Members[g][i]]
    BY <1>1, <1>2, <1>5, GroupsOK, OneGroup DEF Apart
  <2>2. b.ticks[g].respawn = a.ticks[g].respawn /\ b.ticks[g].restart = a.ticks[g].restart
    BY <1>2, <1>5 DEF Apart
  <2>3. (\E j \in 1..k : Groups[j] = g) <=> (\E j \in 1..(k - 1) : Groups[j] = g)
    BY <1>1, <1>4, <1>5
  <2> QED
    BY <2>1, <2>2, <2>3 DEF Sofar
<1>6. /\ ~Timed(h) => b.ticks[h].respawn = m.ticks[h].respawn
      /\ ~(\A j \in 1..k : Groups[j] # h)
      /\ Timed(h) /\ (conf.grp[h].restart => b.ticks[h].restart # 0) =>
           \A i \in 1..Len(Members[h]) :
             "ADMIN_STOPPED" \in m.flags[Members[h][i]] =>
               "ADMIN_STOPPED" \in b.flags[Members[h][i]]
  <2>1. \A i \in 1..Len(Members[h]) : a.flags[Members[h][i]] = m.flags[Members[h][i]]
    BY <1>1, <1>3 DEF Sofar
  <2>2. ~Timed(h) => b.ticks[h].respawn = m.ticks[h].respawn
    BY <1>1, <1>2 DEF Sofar
  <2>3. ~(\A j \in 1..k : Groups[j] # h)
    BY <1>1, <1>4
  <2>4. \A i \in 1..Len(Members[h]) : Members[h][i] \in Serv
    BY <1>1, GroupsOK
  <2>5. KeepsAdmin(a, b) =>
          \A i \in 1..Len(Members[h]) :
             "ADMIN_STOPPED" \in m.flags[Members[h][i]] =>
               "ADMIN_STOPPED" \in b.flags[Members[h][i]]
    BY <2>1, <2>4 DEF KeepsAdmin
  <2> QED
    BY <1>2, <2>2, <2>3, <2>5
<1>7. Sofar(m, b, k)
  BY <1>5, <1>6 DEF Sofar
<1> QED
  BY <1>2, <1>7 DEF b, h

\* The timers of all the groups.
LEMMA TimersOK ==
  ASSUME NEW m \in OK
  PROVE  LET n == FoldLeft(GroupTick, m, Groups) IN n \in OK /\ Sofar(m, n, Len(Groups))
<1> DEFINE N == Len(Groups)
           I == [k \in 0..N |-> {n \in OK : Sofar(m, n, k)}]
<1>1. N \in Nat /\ DOMAIN Groups = 1..N
  BY GroupsOK
<1>2. m \in I[0]
  BY <1>1 DEF Sofar
<1>3. ASSUME NEW k \in 1..N, NEW a \in I[k - 1]
      PROVE  GroupTick(a, Groups[k]) \in I[k]
  <2>1. k - 1 \in 0..N /\ k \in 0..N
    BY <1>1
  <2>2. a \in OK /\ Sofar(m, a, k - 1)
    BY <2>1
  <2> QED
    BY <2>1, <2>2, SofarStep
<1>4. \A k \in 1..N : \A a \in I[k - 1] : GroupTick(a, Groups[k]) \in I[k]
  BY <1>3
<1>5. N \in 0..N /\ \A n : n \in I[N] => n \in OK /\ Sofar(m, n, N)
  BY <1>1
<1> HIDE DEF I, N
<1>6. TickFold!Fold(m, Groups) \in I[N]
  BY <1>1, <1>2, <1>4, TickFold!FoldReaches
<1> QED
  BY <1>5, <1>6, GroupWalks DEF N

-----------------------------------------------------------------------------
(* Connections.                                                             *)

\* After an answer that has come too late, only the books of the manager count.
LEMMA SlippedOK ==
  ASSUME NEW n \in MState, n.slipped, LifeOK(n.flags), Ends(n.flags, n.sconn, n.conn),
         ConnOK(n.conn), ProcOK(n.proc)
  PROVE  n \in OK
  BY DEF OK, Good, Quiet, AnswerOK, Unique, OneOK

\* Connection c of cn replaced by r.
Hung(cn, c, r) == [cn EXCEPT ![c] = r]

\* One connection is replaced, the others stay.
LEMMA HungIs ==
  ASSUME NEW cn \in [Conn -> ConnT], NEW c \in Conn, NEW r \in ConnT,
         NEW dn, dn = Hung(cn, c, r)
  PROVE  dn \in [Conn -> ConnT] /\ dn[c] = r /\ \A d \in Conn \ {c} : dn[d] = cn[d]
  BY DEF Hung

\* A connection that is not in use.
LEMMA FreeIs ==
  /\ Free \in ConnT /\ Free.type = "free" /\ Free.serv = None /\ Free.peer = None
  /\ Free.reg = None /\ Free.late = 0 /\ ~Free.eof /\ Free.out = << >>
<1>1. << >> \in Seq(Message)
  OBVIOUS
<1> QED
  BY <1>1 DEF Free, ConnT

\* Freeing(m, c): the connection is given back.
Freeing(m, c) == [m EXCEPT !.conn[c] = Free]

\* Giving a connection back touches nothing else.
LEMMA FreeingIs ==
  ASSUME NEW m \in MState, NEW c \in Conn, NEW n, n = Freeing(m, c)
  PROVE  /\ n \in MState /\ n.conn[c] = Free /\ \A d \in Conn \ {c} : n.conn[d] = m.conn[d]
         /\ n.flags = m.flags /\ n.sconn = m.sconn /\ n.proc = m.proc
         /\ n.ticks = m.ticks /\ n.answer = m.answer /\ n.slipped = m.slipped
<1> DEFINE cn == Hung(m.conn, c, Free)
<1>1. m.conn \in [Conn -> ConnT]
  BY DEF MState
<1>2. cn \in [Conn -> ConnT] /\ cn[c] = Free /\ \A d \in Conn \ {c} : cn[d] = m.conn[d]
  BY <1>1, FreeIs, HungIs
<1>3. n = [m EXCEPT !.conn = cn]
  BY DEF Freeing, Hung
<1> HIDE DEF cn
<1> QED
  BY <1>2, <1>3 DEF MState

\* A connection that no service is attached to any more is no process' either.
LEMMA FreeOK ==
  ASSUME NEW m \in OK, NEW c \in Conn, m.conn[c].serv = None, m.conn[c].type = "service"
  PROVE  Freeing(m, c) \in Reached(m)
<1> DEFINE n == Freeing(m, c)
<1>1. m \in MState /\ Good(m)
  BY DEF OK
<1>2. /\ n \in MState /\ n.conn[c] = Free /\ \A d \in Conn \ {c} : n.conn[d] = m.conn[d]
      /\ n.flags = m.flags /\ n.sconn = m.sconn /\ n.proc = m.proc
      /\ n.ticks = m.ticks /\ n.answer = m.answer /\ n.slipped = m.slipped
  BY <1>1, FreeingIs
<1> HIDE DEF n
<1>3. Ends(n.flags, n.sconn, n.conn)
  BY <1>1, <1>2, FreeIs, NoneIsNone DEF Good, Ends
<1>4. ConnOK(n.conn)
  BY <1>1, <1>2, FreeIs DEF Good, ConnOK
<1>5. Quiet(n.conn, n.slipped)
  <2>1. Behind(Free.out)
    BY FreeIs DEF Behind
  <2> QED
    BY <1>1, <1>2, <2>1, FreeIs DEF Good, Quiet
<1>6. ASSUME ~m.slipped PROVE OneOK(n.flags, n.sconn, n.conn, n.proc, n.slipped)
  <2>1. /\ Claims(m.flags, m.conn)
        /\ \A q \in Proc : m.proc[q].serv \in Serv => Placed(m.flags, m.sconn, m.conn, q, m.proc[q])
    BY <1>1, <1>6 DEF Good, OneOK
  <2>2. Claims(n.flags, n.conn)
    BY <1>2, <2>1, FreeIs DEF Claims
  <2>3. ASSUME NEW q \in Proc, m.proc[q].serv \in Serv
        PROVE  Placed(n.flags, n.sconn, n.conn, q, n.proc[q])
    <3> DEFINE r == m.proc[q]
    <3>1. r.serv \in Serv /\ n.proc[q] = r /\ Placed(m.flags, m.sconn, m.conn, q, r)
      BY <1>2, <2>1, <2>3
    <3> HIDE DEF r
    <3>2. \A d \in Conn : Registers(n.conn, d, r.serv) <=> Registers(m.conn, d, r.serv)
      BY <1>2, FreeIs DEF Registers
    <3>3. m.sconn[r.serv] # c /\ ~Registers(m.conn, c, r.serv)
      BY <1>1, <3>1, NoneIsNone DEF Good, Ends, Registers
    <3>4. Placed(n.flags, n.sconn, n.conn, q, r)
      BY <1>2, <3>1, <3>2, <3>3 DEF Placed
    <3> QED
      BY <3>1, <3>4
  <2> QED
    BY <1>2, <2>2, <2>3 DEF OneOK
<1>7. n \in OK
  BY <1>1, <1>2, <1>3, <1>4, <1>5, <1>6 DEF Good, OK, OneOK
<1> QED
  BY <1>2, <1>7 DEF Reached, Punctual, n

\* fh_mgmt_serv_detach, as what it does to each part.
LEMMA DetachedIs ==
  ASSUME NEW m \in OK, NEW s \in Serv, NEW c \in Conn, m.sconn[s] = c,
         NEW n, n = Detached(m, s)
  PROVE  /\ n \in MState /\ n.sconn[s] = None /\ \A t \in Serv \ {s} : n.sconn[t] = m.sconn[t]
         /\ \A t \in Serv \ {s} : n.flags[t] = m.flags[t]
         /\ ServOK(n.flags[s], Dead(s)) /\ "RUNNING" \notin n.flags[s]
         /\ "STARTED" \notin n.flags[s]
         /\ n.conn[c].serv = None /\ n.conn[c].type = m.conn[c].type
         /\ n.conn[c].reg = m.conn[c].reg /\ n.conn[c].peer = m.conn[c].peer
         /\ n.conn[c].late = m.conn[c].late /\ n.conn[c].out = m.conn[c].out
         /\ \A d \in Conn \ {c} : n.conn[d] = m.conn[d]
         /\ n.proc = m.proc
         /\ n.ticks = m.ticks /\ n.answer = m.answer /\ n.slipped = m.slipped
<1> DEFINE minus == {"RUNNING", "STOPPING", "ADMIN_STOPPING", "RESTART"}
           z == IF Has(m, s, "ADMIN_STOPPING") THEN "ADMIN_STOPPED" ELSE "STOPPED"
           plus == {z}
           k == SetFlags(m, s, minus, plus)
           r == [m.conn[c] EXCEPT !.serv = None]
           cn == Hung(m.conn, c, r)
           sc == [m.sconn EXCEPT ![s] = None]
<1>1. m \in MState /\ Good(m)
  BY DEF OK
<1>2. z \in {"ADMIN_STOPPED", "STOPPED"} /\ plus \in SUBSET Flag
  BY DEF Flag, Life
<1> HIDE DEF z
<1>3. /\ k \in MState
      /\ k.flags[s] = (m.flags[s] \ minus) \cup plus
      /\ \A t \in Serv \ {s} : k.flags[t] = m.flags[t]
      /\ k.sconn = m.sconn /\ k.conn = m.conn /\ k.proc = m.proc
      /\ k.ticks = m.ticks /\ k.answer = m.answer /\ k.slipped = m.slipped
  BY <1>1, <1>2, SetFlagsIs
<1>4. m.conn \in [Conn -> ConnT] /\ m.conn[c] \in ConnT /\ m.sconn \in SconnT
  BY <1>1 DEF MState
<1>5. /\ r \in ConnT /\ r.serv = None /\ r.type = m.conn[c].type /\ r.reg = m.conn[c].reg
      /\ r.peer = m.conn[c].peer /\ r.late = m.conn[c].late /\ r.out = m.conn[c].out
  BY <1>4 DEF ConnT
<1>6. n = [k EXCEPT !.sconn[s] = None, !.conn[c].serv = None]
  BY DEF Detached, z
<1>7. n = [k EXCEPT !.sconn = sc, !.conn = cn]
  BY <1>3, <1>6 DEF Hung
<1> HIDE DEF r, k
<1>8. cn \in [Conn -> ConnT] /\ cn[c] = r /\ \A d \in Conn \ {c} : cn[d] = m.conn[d]
  BY <1>4, <1>5, HungIs
<1>9. sc \in SconnT /\ sc[s] = None /\ \A t \in Serv \ {s} : sc[t] = m.sconn[t]
  BY <1>4 DEF SconnT
<1> HIDE DEF cn, sc
<1>10. /\ n \in MState /\ n.sconn = sc /\ n.conn = cn /\ n.flags = k.flags /\ n.proc = k.proc
       /\ n.ticks = k.ticks /\ n.answer = k.answer /\ n.slipped = k.slipped
  BY <1>3, <1>7, <1>8, <1>9 DEF MState
<1>11. "RUNNING" \in m.flags[s]
  BY <1>1, NoneIsNone DEF Good, Ends
<1>12. /\ ServOK(k.flags[s], Dead(s)) /\ "RUNNING" \notin k.flags[s]
       /\ "STARTED" \notin k.flags[s]
  BY <1>2, <1>3, <1>11, FlagsOf, FlagsDetach
<1> QED
  BY <1>3, <1>5, <1>8, <1>9, <1>10, <1>12

\* A service that has closed its end, or whose answer has come too late, is detached:
\* it has no process any more, as long as no answer has come too late.
LEMMA DetachedOK ==
  ASSUME NEW m \in OK, NEW c \in Conn, NEW s \in Serv, m.conn[c].serv = s,
         m.conn[c].late > 0 \/ m.conn[c].eof,
         NEW n, n = Detached(m, s)
  PROVE  /\ n \in Reached(m) /\ n.conn[c].serv = None /\ n.conn[c].type = "service"
<1>1. m \in MState /\ Good(m)
  BY DEF OK
<1>2. m.sconn[s] = c /\ "RUNNING" \in m.flags[s] /\ m.conn[c].type = "service"
  BY <1>1, NoneIsNone DEF Good, Ends, ConnOK
<1>3. /\ n \in MState /\ n.sconn[s] = None /\ \A t \in Serv \ {s} : n.sconn[t] = m.sconn[t]
      /\ \A t \in Serv \ {s} : n.flags[t] = m.flags[t]
      /\ ServOK(n.flags[s], Dead(s)) /\ "RUNNING" \notin n.flags[s]
      /\ "STARTED" \notin n.flags[s]
      /\ n.conn[c].serv = None /\ n.conn[c].type = m.conn[c].type
      /\ n.conn[c].reg = m.conn[c].reg /\ n.conn[c].peer = m.conn[c].peer
      /\ n.conn[c].late = m.conn[c].late /\ n.conn[c].out = m.conn[c].out
      /\ \A d \in Conn \ {c} : n.conn[d] = m.conn[d]
      /\ n.proc = m.proc
      /\ n.ticks = m.ticks /\ n.answer = m.answer /\ n.slipped = m.slipped
  BY <1>2, DetachedIs
<1>4. LifeOK(n.flags)
  BY <1>1, <1>3 DEF Good, LifeOK
<1>5. Ends(n.flags, n.sconn, n.conn)
  BY <1>1, <1>2, <1>3, NoneIsNone DEF Good, Ends
<1>6. ConnOK(n.conn)
  BY <1>1, <1>2, <1>3 DEF Good, ConnOK
<1>7. Quiet(n.conn, n.slipped)
  BY <1>1, <1>3 DEF Good, Quiet
<1>8. ASSUME ~m.slipped PROVE OneOK(n.flags, n.sconn, n.conn, n.proc, n.slipped)
  <2>1. /\ Claims(m.flags, m.conn)
        /\ \A q \in Proc : m.proc[q].serv \in Serv => Placed(m.flags, m.sconn, m.conn, q, m.proc[q])
    BY <1>1, <1>8 DEF Good, OneOK
  <2>2. "STARTED" \notin m.flags[s]
    BY <1>2, FlagsOf DEF ServOK, Only
  <2>3. m.conn[c].eof
    BY <1>1, <1>8 DEF Good, Quiet
  <2>4. \A d \in Conn : m.conn[d].type = "client" => m.conn[d].reg # s
    BY <2>1, <2>2 DEF Claims
  <2>5. Claims(n.flags, n.conn)
    <3>1. \A d \in Conn : n.conn[d].type = m.conn[d].type /\ n.conn[d].reg = m.conn[d].reg
      BY <1>3
    <3> QED
      BY <1>1, <1>3, <2>1, <2>4, <3>1 DEF Claims, Good, ConnOK
  <2>6. \A q \in Proc : m.proc[q].serv # s
    BY <1>2, <2>1, <2>2, <2>3 DEF Placed
  <2>7. ASSUME NEW q \in Proc, m.proc[q].serv \in Serv
        PROVE  Placed(n.flags, n.sconn, n.conn, q, n.proc[q])
    <3> DEFINE r == m.proc[q]
    <3>1. r.serv \in Serv /\ n.proc[q] = r /\ Placed(m.flags, m.sconn, m.conn, q, r)
          /\ r.serv # s
      BY <1>3, <2>1, <2>6, <2>7
    <3> HIDE DEF r
    <3>2. \A d \in Conn : Registers(n.conn, d, r.serv) <=> Registers(m.conn, d, r.serv)
      BY <1>3 DEF Registers
    <3>3. m.sconn[r.serv] # c /\ ~Registers(m.conn, c, r.serv)
      BY <1>1, <1>2, <3>1 DEF Good, Ends, Registers
    <3>4. Placed(n.flags, n.sconn, n.conn, q, r)
      BY <1>3, <3>1, <3>2, <3>3 DEF Placed
    <3> QED
      BY <3>1, <3>4
  <2> QED
    BY <1>3, <2>5, <2>7 DEF OneOK
<1>9. n \in OK
  BY <1>1, <1>3, <1>4, <1>5, <1>6, <1>7, <1>8 DEF Good, OK, OneOK
<1> QED
  BY <1>2, <1>3, <1>9 DEF Reached, Punctual

\* A start opens and closes no connection.
LEMMA StartConn ==
  ASSUME NEW m \in OK, NEW s \in Serv
  PROVE  Start(m, s).conn = m.conn
<1> DEFINE k == SetFlags(m, s, {"STOPPED", "ADMIN_STOPPED"}, {"STARTED"})
<1>1. m \in MState
  BY DEF OK
<1>2. k \in MState /\ k.conn = m.conn /\ k.proc = m.proc
  BY <1>1, SetFlagsIs DEF Flag, Life
<1>3. \/ Start(m, s) = Result(m, "OK")
      \/ Start(m, s) = Result(m, "ERROR")
      \/ Start(m, s) = Spawned(k, s) /\ CanSpawn(m)
  BY DEF Start, Then
<1> HIDE DEF k
<1>4. CanSpawn(m) => Spawned(k, s).conn = k.conn
  <2>1. CanSpawn(m) => CanSpawn(k)
    BY <1>2 DEF CanSpawn
  <2> QED
    BY <1>2, <2>1, SpawnedIs
<1>5. Result(m, "OK").conn = m.conn /\ Result(m, "ERROR").conn = m.conn
  BY <1>1, ResultIs DEF Rc
<1> QED
  BY <1>2, <1>3, <1>4, <1>5

\* conn_free of a service's connection.
LEMMA ConnFreeOK ==
  ASSUME NEW m \in OK, NEW c \in Conn, m.conn[c].type = "service",
         m.conn[c].late > 0 \/ m.conn[c].eof
  PROVE  ConnFree(m, c) \in Reached(m)
<1>1. m \in MState /\ Good(m)
  BY DEF OK
<1>2. CASE m.conn[c].serv = None
  <2>1. ConnFree(m, c) = Freeing(m, c)
    BY <1>2 DEF ConnFree, Freeing
  <2> QED
    BY <1>2, <2>1, FreeOK
<1>3. CASE m.conn[c].serv # None
  <2> DEFINE s == m.conn[c].serv
             k == Detached(m, s)
             j == Start(k, s)
             n == IF Has(m, s, "RESTART") THEN j ELSE k
  <2>1. s \in Serv
    BY <1>1, <1>3 DEF MState, ConnT
  <2>2. k \in Reached(m) /\ k.conn[c].serv = None /\ k.conn[c].type = "service"
    BY <2>1, DetachedOK
  <2>3. ConnFree(m, c) = Freeing(n, c)
    BY <1>3 DEF ConnFree, Freeing, Detach, Then
  <2> HIDE DEF k, s
  <2>4. k \in OK
    BY <2>2 DEF Reached
  <2>5. j \in OK /\ Near(k, j, s) /\ j.conn = k.conn
    BY <2>1, <2>4, StartOK, StartConn
  <2> HIDE DEF j
  <2>6. j \in Reached(m)
    BY <2>2, <2>5, ReachedStep
  <2>7. n \in Reached(m) /\ n.conn[c].serv = None /\ n.conn[c].type = "service"
    BY <2>2, <2>5, <2>6
  <2> HIDE DEF n
  <2>8. n \in OK
    BY <2>7 DEF Reached
  <2>9. Freeing(n, c) \in Reached(n)
    BY <2>7, <2>8, FreeOK
  <2> QED
    BY <2>3, <2>7, <2>9, ReachedTwice
<1> QED
  BY <1>2, <1>3

\* conn_client_registration: the connection has been read.
Taken(m, c) == [m EXCEPT !.conn[c].reg = None, !.conn[c].type = "service"]

\* Reading the registration touches nothing else.
LEMMA TakenIs ==
  ASSUME NEW m \in MState, NEW c \in Conn, NEW n, n = Taken(m, c)
  PROVE  /\ n \in MState
         /\ n.conn[c].type = "service" /\ n.conn[c].reg = None
         /\ n.conn[c].serv = m.conn[c].serv /\ n.conn[c].peer = m.conn[c].peer
         /\ n.conn[c].late = m.conn[c].late /\ n.conn[c].out = m.conn[c].out
         /\ n.conn[c].eof = m.conn[c].eof
         /\ \A d \in Conn \ {c} : n.conn[d] = m.conn[d]
         /\ n.flags = m.flags /\ n.sconn = m.sconn /\ n.proc = m.proc
         /\ n.ticks = m.ticks /\ n.answer = m.answer /\ n.slipped = m.slipped
<1> DEFINE r == [m.conn[c] EXCEPT !.reg = None, !.type = "service"]
           cn == Hung(m.conn, c, r)
<1>1. m.conn \in [Conn -> ConnT] /\ m.conn[c] \in ConnT
  BY DEF MState
<1>2. /\ r \in ConnT /\ r.type = "service" /\ r.reg = None
      /\ r.serv = m.conn[c].serv /\ r.peer = m.conn[c].peer
      /\ r.late = m.conn[c].late /\ r.out = m.conn[c].out /\ r.eof = m.conn[c].eof
  BY <1>1 DEF ConnT
<1>3. n = [m EXCEPT !.conn = cn]
  BY <1>1 DEF Taken, Hung
<1> HIDE DEF r
<1>4. cn \in [Conn -> ConnT] /\ cn[c] = r /\ \A d \in Conn \ {c} : cn[d] = m.conn[d]
  BY <1>1, <1>2, HungIs
<1> HIDE DEF cn
<1>5. /\ n \in MState /\ n.conn = cn
      /\ n.flags = m.flags /\ n.sconn = m.sconn /\ n.proc = m.proc
      /\ n.ticks = m.ticks /\ n.answer = m.answer /\ n.slipped = m.slipped
  BY <1>3, <1>4 DEF MState
<1> QED
  BY <1>2, <1>4, <1>5

\* fh_mgmt_serv_attach of a service that was started or is stopped.
Attaching(m, s, c) ==
  Result([SetFlags(m, s, {"STARTED", "STOPPED"}, {"RUNNING"}) EXCEPT
            !.sconn[s] = c, !.conn[c].serv = s], "OK")

\* fh_mgmt_conn_serv_attach sets the two ends and the life of the service.
LEMMA AttachingIs ==
  ASSUME NEW m \in MState, NEW s \in Serv, NEW c \in Conn, NEW n, n = Attaching(m, s, c)
  PROVE  /\ n \in MState /\ n.rc = "OK"
         /\ n.flags[s] = (m.flags[s] \ {"STARTED", "STOPPED"}) \cup {"RUNNING"}
         /\ \A t \in Serv \ {s} : n.flags[t] = m.flags[t]
         /\ n.sconn[s] = c /\ \A t \in Serv \ {s} : n.sconn[t] = m.sconn[t]
         /\ n.conn[c].type = m.conn[c].type /\ n.conn[c].reg = m.conn[c].reg
         /\ n.conn[c].serv = s /\ n.conn[c].peer = m.conn[c].peer
         /\ n.conn[c].late = m.conn[c].late /\ n.conn[c].out = m.conn[c].out
         /\ n.conn[c].eof = m.conn[c].eof
         /\ \A d \in Conn \ {c} : n.conn[d] = m.conn[d]
         /\ n.proc = m.proc
         /\ n.ticks = m.ticks /\ n.answer = m.answer /\ n.slipped = m.slipped
<1> DEFINE k == SetFlags(m, s, {"STARTED", "STOPPED"}, {"RUNNING"})
           r == [m.conn[c] EXCEPT !.serv = s]
           cn == Hung(m.conn, c, r)
           sc == [m.sconn EXCEPT ![s] = c]
           j == [k EXCEPT !.sconn = sc, !.conn = cn]
<1>1. m.conn \in [Conn -> ConnT] /\ m.conn[c] \in ConnT /\ m.sconn \in SconnT
  BY DEF MState
<1>2. /\ k \in MState
      /\ k.flags[s] = (m.flags[s] \ {"STARTED", "STOPPED"}) \cup {"RUNNING"}
      /\ \A t \in Serv \ {s} : k.flags[t] = m.flags[t]
      /\ k.sconn = m.sconn /\ k.conn = m.conn /\ k.proc = m.proc
      /\ k.ticks = m.ticks /\ k.answer = m.answer /\ k.slipped = m.slipped
  BY SetFlagsIs DEF Flag, Life
<1>3. /\ r \in ConnT /\ r.serv = s /\ r.type = m.conn[c].type /\ r.reg = m.conn[c].reg
      /\ r.peer = m.conn[c].peer /\ r.late = m.conn[c].late /\ r.out = m.conn[c].out
      /\ r.eof = m.conn[c].eof
  BY <1>1 DEF ConnT
<1>4. n = Result([k EXCEPT !.sconn[s] = c, !.conn[c].serv = s], "OK")
  BY DEF Attaching
<1> HIDE DEF k
<1>5. [k EXCEPT !.sconn[s] = c, !.conn[c].serv = s] = j
  BY <1>2 DEF Hung
<1> HIDE DEF r
<1>6. cn \in [Conn -> ConnT] /\ cn[c] = r /\ \A d \in Conn \ {c} : cn[d] = m.conn[d]
  BY <1>1, <1>3, HungIs
<1>7. sc \in SconnT /\ sc[s] = c /\ \A t \in Serv \ {s} : sc[t] = m.sconn[t]
  BY <1>1 DEF SconnT
<1> HIDE DEF cn, sc
<1>8. /\ j \in MState /\ j.sconn = sc /\ j.conn = cn /\ j.flags = k.flags /\ j.proc = k.proc
      /\ j.ticks = k.ticks /\ j.answer = k.answer /\ j.slipped = k.slipped
  BY <1>2, <1>6, <1>7 DEF MState
<1>10. n = Result(j, "OK") /\ "OK" \in Rc
  BY <1>4, <1>5 DEF Rc
<1> HIDE DEF j
<1>9. /\ n \in MState /\ n.rc = "OK"
      /\ n.flags = j.flags /\ n.sconn = j.sconn /\ n.conn = j.conn /\ n.proc = j.proc
      /\ n.ticks = j.ticks /\ n.answer = j.answer /\ n.slipped = j.slipped
  BY <1>8, <1>10, ResultIs
<1> QED
  BY <1>2, <1>3, <1>6, <1>7, <1>8, <1>9

\* The process at the other end serves from now on, unless it has left.
Serving(m, c, p) == [m EXCEPT !.proc[p].st = IF m.proc[p].conn = c THEN "serving" ELSE @]

\* The answer to a registration touches nothing but the process.
LEMMA ServingIs ==
  ASSUME NEW m \in MState, NEW c \in Conn, NEW p \in Proc, NEW n, n = Serving(m, c, p)
  PROVE  /\ n \in MState
         /\ n.proc[p].serv = m.proc[p].serv /\ n.proc[p].conn = m.proc[p].conn
         /\ m.proc[p].conn = c => n.proc[p].st = "serving"
         /\ m.proc[p].conn # c => n.proc[p].st = m.proc[p].st
         /\ \A q \in Proc \ {p} : n.proc[q] = m.proc[q]
         /\ n.flags = m.flags /\ n.sconn = m.sconn /\ n.conn = m.conn
         /\ n.ticks = m.ticks /\ n.answer = m.answer /\ n.slipped = m.slipped
<1> DEFINE x == IF m.proc[p].conn = c THEN "serving" ELSE m.proc[p].st
           r == [m.proc[p] EXCEPT !.st = x]
           pr == [m.proc EXCEPT ![p] = r]
<1>1. m.proc \in [Proc -> ProcT] /\ m.proc[p] \in ProcT
  BY DEF MState
<1>2. x \in {"none", "starting", "registering", "serving", "orphan"}
  BY <1>1 DEF ProcT
<1>3. n = [m EXCEPT !.proc = pr]
  BY DEF Serving
<1>4. /\ m.proc[p].conn = c => x = "serving"
      /\ m.proc[p].conn # c => x = m.proc[p].st
  OBVIOUS
<1> HIDE DEF x
<1>5. r \in ProcT /\ r.serv = m.proc[p].serv /\ r.conn = m.proc[p].conn /\ r.st = x
  BY <1>1, <1>2 DEF ProcT
<1> HIDE DEF r
<1>6. pr \in [Proc -> ProcT] /\ pr[p] = r /\ \A q \in Proc \ {p} : pr[q] = m.proc[q]
  BY <1>1, <1>5
<1> HIDE DEF pr
<1>7. /\ n \in MState /\ n.proc = pr
      /\ n.flags = m.flags /\ n.sconn = m.sconn /\ n.conn = m.conn
      /\ n.ticks = m.ticks /\ n.answer = m.answer /\ n.slipped = m.slipped
  BY <1>3, <1>6 DEF MState
<1> QED
  BY <1>4, <1>5, <1>6, <1>7

\* Connection c, which held the registration of service s, is attached to it, and
\* process p, at its other end, serves.
Joined(m, n, s, c, p) ==
  /\ n \in MState
  /\ n.flags[s] = (m.flags[s] \ {"STARTED", "STOPPED"}) \cup {"RUNNING"}
  /\ \A t \in Serv \ {s} : n.flags[t] = m.flags[t]
  /\ n.sconn[s] = c /\ \A t \in Serv \ {s} : n.sconn[t] = m.sconn[t]
  /\ n.conn[c].type = "service" /\ n.conn[c].serv = s
  /\ n.conn[c].peer = m.conn[c].peer
  /\ n.conn[c].late = m.conn[c].late /\ n.conn[c].out = m.conn[c].out
  /\ n.conn[c].eof = m.conn[c].eof
  /\ \A d \in Conn \ {c} : n.conn[d] = m.conn[d]
  /\ n.proc[p].serv = m.proc[p].serv /\ n.proc[p].conn = m.proc[p].conn
  /\ m.proc[p].conn = c => n.proc[p].st = "serving"
  /\ m.proc[p].conn # c => n.proc[p].st = m.proc[p].st
  /\ \A q \in Proc \ {p} : n.proc[q] = m.proc[q]
  /\ n.ticks = m.ticks /\ n.answer = m.answer /\ n.slipped = m.slipped

\* The three together.
LEMMA JoinedIs ==
  ASSUME NEW m \in MState, NEW s \in Serv, NEW c \in Conn, NEW p \in Proc,
         NEW k, k = Taken(m, c), NEW j, j = Attaching(k, s, c), NEW n, n = Serving(j, c, p)
  PROVE  Joined(m, n, s, c, p)
<1>2. /\ k \in MState
      /\ k.conn[c].type = "service"
      /\ k.conn[c].peer = m.conn[c].peer
      /\ k.conn[c].late = m.conn[c].late /\ k.conn[c].out = m.conn[c].out
      /\ k.conn[c].eof = m.conn[c].eof
      /\ \A d \in Conn \ {c} : k.conn[d] = m.conn[d]
      /\ k.flags = m.flags /\ k.sconn = m.sconn /\ k.proc = m.proc
      /\ k.ticks = m.ticks /\ k.answer = m.answer /\ k.slipped = m.slipped
  BY TakenIs
<1>3. /\ j \in MState
      /\ j.flags[s] = (k.flags[s] \ {"STARTED", "STOPPED"}) \cup {"RUNNING"}
      /\ \A t \in Serv \ {s} : j.flags[t] = k.flags[t]
      /\ j.sconn[s] = c /\ \A t \in Serv \ {s} : j.sconn[t] = k.sconn[t]
      /\ j.conn[c].type = k.conn[c].type
      /\ j.conn[c].serv = s /\ j.conn[c].peer = k.conn[c].peer
      /\ j.conn[c].late = k.conn[c].late /\ j.conn[c].out = k.conn[c].out
      /\ j.conn[c].eof = k.conn[c].eof
      /\ \A d \in Conn \ {c} : j.conn[d] = k.conn[d]
      /\ j.proc = k.proc
      /\ j.ticks = k.ticks /\ j.answer = k.answer /\ j.slipped = k.slipped
  BY <1>2, AttachingIs
<1>5. /\ n \in MState
      /\ n.proc[p].serv = j.proc[p].serv /\ n.proc[p].conn = j.proc[p].conn
      /\ j.proc[p].conn = c => n.proc[p].st = "serving"
      /\ j.proc[p].conn # c => n.proc[p].st = j.proc[p].st
      /\ \A q \in Proc \ {p} : n.proc[q] = j.proc[q]
      /\ n.flags = j.flags /\ n.sconn = j.sconn /\ n.conn = j.conn
      /\ n.ticks = j.ticks /\ n.answer = j.answer /\ n.slipped = j.slipped
  BY <1>3, ServingIs
<1> QED
  BY <1>2, <1>3, <1>5 DEF Joined

\* A registration that the manager takes.
LEMMA AttachOK ==
  ASSUME NEW m \in OK, NEW c \in Conn, m.conn[c].type = "client",
         NEW s \in Serv, m.conn[c].reg = s, NEW p \in Proc, m.conn[c].peer = p,
         "STARTED" \in m.flags[s] \/ "STOPPED" \in m.flags[s],
         NEW n, Joined(m, n, s, c, p)
  PROVE  n \in Reached(m)
<1> DEFINE y == n.flags[s]
<1>1. m \in MState /\ Good(m)
  BY DEF OK
<1>6. /\ n \in MState
      /\ n.conn[c].type = "service" /\ n.conn[c].serv = s /\ n.conn[c].peer = p
      /\ n.conn[c].late = m.conn[c].late /\ n.conn[c].out = m.conn[c].out
      /\ n.conn[c].eof = m.conn[c].eof
      /\ \A d \in Conn \ {c} : n.conn[d] = m.conn[d]
      /\ n.sconn[s] = c /\ \A t \in Serv \ {s} : n.sconn[t] = m.sconn[t]
      /\ \A t \in Serv \ {s} : n.flags[t] = m.flags[t]
      /\ n.ticks = m.ticks /\ n.answer = m.answer /\ n.slipped = m.slipped
  BY DEF Joined
<1>7. /\ n.proc[p].serv = m.proc[p].serv /\ n.proc[p].conn = m.proc[p].conn
      /\ m.proc[p].conn = c => n.proc[p].st = "serving"
      /\ m.proc[p].conn # c => n.proc[p].st = m.proc[p].st
      /\ \A q \in Proc \ {p} : n.proc[q] = m.proc[q]
  BY DEF Joined
<1>8. ServOK(y, Dead(s)) /\ "RUNNING" \in y /\ "STARTED" \notin y /\ "RUNNING" \notin m.flags[s]
  <2>1. y = (m.flags[s] \ {"STARTED", "STOPPED"}) \cup {"RUNNING"}
    BY DEF Joined
  <2> QED
    BY <2>1, FlagsOf, FlagsAttach
<1>9. m.conn[c].serv = None /\ m.sconn[s] = None
  BY <1>1, <1>8 DEF Good, ConnOK, Ends
<1> HIDE DEF y
<1>10. LifeOK(n.flags)
  BY <1>1, <1>6, <1>8 DEF Good, LifeOK, y
<1>11. Ends(n.flags, n.sconn, n.conn)
  <2>1. \A t \in Serv : "RUNNING" \in n.flags[t] <=> n.sconn[t] # None
    BY <1>1, <1>6, <1>8, NoneIsNone DEF Good, Ends, y
  <2>2. \A t \in Serv, d \in Conn : n.sconn[t] = d <=> n.conn[d].serv = t
    BY <1>1, <1>6, <1>9, NoneIsNone DEF Good, Ends
  <2> QED
    BY <2>1, <2>2 DEF Ends
<1>12. ConnOK(n.conn)
  BY <1>1, <1>6 DEF Good, ConnOK
<1>13. ProcOK(n.proc)
  BY <1>1, <1>7, NoneIsNone DEF Good, ProcOK
<1>14. Quiet(n.conn, n.slipped)
  BY <1>1, <1>6 DEF Good, Quiet
<1>15. Unique(n.proc, n.slipped)
  <2>1. \A q \in Proc : n.proc[q].serv = m.proc[q].serv
    BY <1>7
  <2> QED
    BY <1>1, <1>6, <2>1 DEF Good, Unique
<1>16. ASSUME ~m.slipped PROVE OneOK(n.flags, n.sconn, n.conn, n.proc, n.slipped)
  <2>1. /\ Claims(m.flags, m.conn)
        /\ \A q \in Proc : m.proc[q].serv \in Serv => Placed(m.flags, m.sconn, m.conn, q, m.proc[q])
    BY <1>1, <1>16 DEF Good, OneOK
  <2>2. "STARTED" \in m.flags[s]
    BY <2>1 DEF Claims
  <2>3. \A d \in Conn \ {c} : m.conn[d].type = "client" => m.conn[d].reg # s
    BY <2>1 DEF Claims
  <2>4. Claims(n.flags, n.conn)
    BY <1>1, <1>6, <2>1, <2>3 DEF Claims, Good, ConnOK
  <2>6. \A q \in Proc : m.proc[q].conn # None => m.proc[q].st \in {"registering", "serving"}
    <3>1. ProcOK(m.proc)
      BY <1>1 DEF Good
    <3> QED
      BY <3>1 DEF ProcOK
  <2>5. ASSUME NEW q \in Proc, n.proc[q].serv \in Serv
        PROVE  Placed(n.flags, n.sconn, n.conn, q, n.proc[q])
    <3> DEFINE r == m.proc[q]
               v == n.proc[q]
    <3>1. /\ r.serv \in Serv /\ v.serv = r.serv /\ v.conn = r.conn
          /\ Placed(m.flags, m.sconn, m.conn, q, r)
          /\ v.st = r.st \/ (q = p /\ r.conn = c /\ v.st = "serving")
          /\ q = p /\ r.conn = c => v.st = "serving"
      BY <1>7, <2>1, <2>5
    <3>2. r.conn # None => r.st \in {"registering", "serving"}
      BY <2>6
    <3>3. n.proc[q] = v
      OBVIOUS
    <3> HIDE DEF r, v
    <3>4. CASE r.serv = s
      <4>1. /\ r.st = "registering" /\ r.conn \in Conn
            /\ Registers(m.conn, r.conn, s) /\ m.conn[r.conn].peer = q /\ ~m.conn[r.conn].eof
        BY <1>8, <3>1, <3>4 DEF Placed, Registers
      <4>2. r.conn = c /\ q = p
        BY <2>3, <4>1 DEF Registers
      <4>3. Placed(n.flags, n.sconn, n.conn, q, v)
        BY <1>6, <1>8, <3>1, <3>4, <4>1, <4>2 DEF Placed, y
      <4> QED
        BY <3>3, <4>3
    <3>5. CASE r.serv # s
      <4>1. \A d \in Conn : Registers(n.conn, d, r.serv) <=> Registers(m.conn, d, r.serv)
        BY <1>6, <3>5 DEF Registers
      <4>2. m.sconn[r.serv] # c /\ ~Registers(m.conn, c, r.serv)
        BY <1>1, <1>9, <3>1, <3>5, NoneIsNone DEF Good, Ends, Registers
      <4>3. r.conn # c
        BY <3>1, <3>2, <4>2, NoneIsNone DEF Placed
      <4>4. v.st = r.st /\ v.serv = r.serv /\ v.conn = r.conn
        BY <3>1, <4>3
      <4>5. Placed(n.flags, n.sconn, n.conn, q, v)
        BY <1>6, <3>1, <3>5, <4>1, <4>3, <4>4 DEF Placed
      <4> QED
        BY <3>3, <4>5
    <3> QED
      BY <3>4, <3>5
  <2> QED
    BY <1>6, <2>4, <2>5 DEF OneOK
<1>17. AnswerOK(n.answer, n.slipped)
  BY <1>1, <1>6 DEF Good
<1>18. n \in OK
  BY <1>6, <1>10, <1>11, <1>12, <1>13, <1>14, <1>15, <1>16, <1>17 DEF Good, OK, OneOK
<1> QED
  BY <1>6, <1>18 DEF Reached, Punctual

\* A registration that the manager refuses: an answer must have come too late, and
\* the connection is given back.
LEMMA RefuseOK ==
  ASSUME NEW m \in OK, NEW c \in Conn, m.conn[c].type = "client",
         NEW s \in Serv, s = m.conn[c].reg, "STARTED" \notin m.flags[s],
         NEW n, n = Freeing(Result(Taken(m, c), "ERROR"), c)
  PROVE  n \in Reached(m)
<1> DEFINE k == Taken(m, c)
           j == Result(k, "ERROR")
<1>1. m \in MState /\ Good(m)
  BY DEF OK
<1>2. /\ k \in MState
      /\ \A d \in Conn \ {c} : k.conn[d] = m.conn[d]
      /\ k.flags = m.flags /\ k.sconn = m.sconn /\ k.proc = m.proc
      /\ k.ticks = m.ticks /\ k.slipped = m.slipped
  BY <1>1, TakenIs
<1> HIDE DEF k
<1>3. /\ j \in MState /\ j.flags = k.flags /\ j.sconn = k.sconn /\ j.conn = k.conn
      /\ j.proc = k.proc /\ j.ticks = k.ticks /\ j.slipped = k.slipped
  BY <1>2, ResultIs DEF Rc
<1>4. n = Freeing(j, c)
  BY DEF j, k
<1> HIDE DEF j
<1>5. /\ n \in MState /\ n.conn[c] = Free /\ \A d \in Conn \ {c} : n.conn[d] = j.conn[d]
      /\ n.flags = j.flags /\ n.sconn = j.sconn /\ n.proc = j.proc
      /\ n.ticks = j.ticks /\ n.slipped = j.slipped
  BY <1>3, <1>4, FreeingIs
<1>6. /\ \A d \in Conn \ {c} : n.conn[d] = m.conn[d]
      /\ n.flags = m.flags /\ n.sconn = m.sconn /\ n.proc = m.proc
      /\ n.ticks = m.ticks /\ n.slipped = m.slipped
  BY <1>2, <1>3, <1>5
<1>7. m.slipped
  BY <1>1 DEF Good, OneOK, Claims
<1>8. m.conn[c].serv = None
  BY <1>1 DEF Good, ConnOK
<1>9. Ends(n.flags, n.sconn, n.conn)
  BY <1>1, <1>5, <1>6, <1>8, FreeIs, NoneIsNone DEF Good, Ends
<1>10. ConnOK(n.conn)
  BY <1>1, <1>5, <1>6, FreeIs DEF Good, ConnOK
<1>11. n \in OK
  BY <1>1, <1>5, <1>6, <1>7, <1>9, <1>10, SlippedOK DEF Good
<1> QED
  BY <1>6, <1>11 DEF Reached, Punctual

\* conn_client_registration.
LEMMA RegisterOK ==
  ASSUME NEW m \in OK, NEW c \in Conn, m.conn[c].type = "client"
  PROVE  Registered(Attach(Taken(m, c), m.conn[c].reg, c), m.conn[c].reg, c, m.conn[c].peer)
           \in Reached(m)
<1> DEFINE s == m.conn[c].reg
           p == m.conn[c].peer
           k == Taken(m, c)
           e == Result(k, "ERROR")
           a == Attaching(k, s, c)
           v == Serving(a, c, p)
           z == StatsAt(v, GroupOf(s), StatsPeriod)
<1>1. m \in MState /\ Good(m)
  BY DEF OK
<1>2. s \in Serv /\ p \in Proc /\ m.conn[c].serv = None
  BY <1>1 DEF Good, ConnOK
<1>3. k \in MState /\ k.flags = m.flags /\ k.conn[c].serv = None
  BY <1>1, <1>2, TakenIs
<1>4. Attach(k, s, c) = IF "STARTED" \notin m.flags[s] /\ "STOPPED" \notin m.flags[s] THEN e ELSE a
  BY <1>3 DEF Attach, Has, Attaching
<1>5. CASE "STARTED" \notin m.flags[s] /\ "STOPPED" \notin m.flags[s]
  <2>1. e.rc = "ERROR" /\ e.conn[c].serv = None
    BY <1>3, ResultIs DEF Rc
  <2>2. Freeing(e, c) \in Reached(m)
    BY <1>2, <1>5, RefuseOK
  <2> HIDE DEF e, k
  <2>3. Registered(e, s, c, p) = Freeing(e, c)
    BY <2>1 DEF Registered, ConnFree, Freeing
  <2> QED
    BY <1>4, <1>5, <2>2, <2>3 DEF k
<1>6. CASE "STARTED" \in m.flags[s] \/ "STOPPED" \in m.flags[s]
  <2>0. Joined(m, v, s, c, p)
    BY <1>1, <1>2, JoinedIs
  <2>1. v \in Reached(m)
    <3> HIDE DEF v
    <3> QED
      BY <1>2, <1>6, <2>0, AttachOK
  <2>2. a.rc = "OK" /\ a \in MState
    BY <1>2, <1>3, AttachingIs
  <2>3. Registered(a, s, c, p) = z
    <3> HIDE DEF a
    <3>1. Registered(a, s, c, p) =
            [a EXCEPT !.ticks[GroupOf(s)].stats = StatsPeriod,
                      !.proc[p].st = IF a.proc[p].conn = c THEN "serving" ELSE @]
      BY <2>2 DEF Registered
    <3> DEFINE tk == [a.ticks EXCEPT ![GroupOf(s)].stats = StatsPeriod]
               pr == [a.proc EXCEPT ![p].st = IF a.proc[p].conn = c THEN "serving" ELSE @]
    <3>2. v = [a EXCEPT !.proc = pr] /\ v.ticks = a.ticks
      BY <2>2 DEF Serving, MState
    <3>3. Registered(a, s, c, p) = [a EXCEPT !.ticks = tk, !.proc = pr]
      BY <3>1
    <3>4. z = [v EXCEPT !.ticks = tk]
      BY <3>2 DEF StatsAt
    <3> HIDE DEF tk, pr, z, v
    <3> QED
      BY <2>2, <3>2, <3>3, <3>4 DEF MState
  <2> HIDE DEF v
  <2>4. v \in OK
    BY <2>1 DEF Reached
  <2>5. z \in OK /\ Near(v, z, s)
    BY <1>2, <2>4, GroupsOK, Numbers, SetStatsOK
  <2> HIDE DEF z
  <2>6. z \in Reached(m)
    BY <2>1, <2>5, ReachedStep
  <2> HIDE DEF a, k
  <2> QED
    BY <1>4, <1>6, <2>3, <2>6 DEF k
<1> QED
  BY <1>5, <1>6

-----------------------------------------------------------------------------
(* The inductive invariant of the manager and its processes.                *)

\* The books of the manager and the list of the processes, and, while the manager
\* runs, how its connections agree with both.
IInv ==
  /\ TypeOK
  /\ LifeOK(flags) /\ ProcOK(proc) /\ AnswerOK(answer, slipped) /\ Unique(proc, slipped)
  /\ up => /\ ConnOK(conn) /\ Ends(flags, sconn, conn) /\ Quiet(conn, slipped)
           /\ OneOK(flags, sconn, conn, proc, slipped)

\* The types, by their names.
LEMMA Types ==
  ASSUME TypeOK
  PROVE  /\ flags \in FlagsT /\ sconn \in SconnT /\ conn \in [Conn -> ConnT]
         /\ proc \in [Proc -> ProcT] /\ ticks \in [Grp -> TickT]
         /\ up \in BOOLEAN /\ slipped \in BOOLEAN /\ answer \in AnswerT /\ faults \in 0..MaxFaults
  BY DEF TypeOK, FlagsT, SconnT, ConnT, ProcT, TickT, AnswerT, Message

\* A step ends in the invariant when its parts do.
LEMMA Arrives ==
  ASSUME IInv, conf' = conf, up' \in BOOLEAN,
         flags' \in FlagsT, sconn' \in SconnT, conn' \in [Conn -> ConnT],
         proc' \in [Proc -> ProcT], ticks' \in [Grp -> TickT],
         answer' \in AnswerT, faults' \in 0..MaxFaults, slipped' \in BOOLEAN,
         LifeOK(flags'), ProcOK(proc'), AnswerOK(answer', slipped'), Unique(proc', slipped'),
         up' => /\ ConnOK(conn') /\ Ends(flags', sconn', conn') /\ Quiet(conn', slipped')
                /\ OneOK(flags', sconn', conn', proc', slipped')
  PROVE  IInv'
<1>1. TypeOK'
  BY DEF IInv, TypeOK, FlagsT, SconnT, ConnT, ProcT, TickT, AnswerT, Message
<1>2. LifeOK(flags)'
  BY DEF LifeOK, Dead
<1>3. ProcOK(proc)'
  BY DEF ProcOK
<1>4. AnswerOK(answer, slipped)' /\ Unique(proc, slipped)'
  BY DEF AnswerOK, Unique
<1>5. ASSUME up'
      PROVE  /\ ConnOK(conn)' /\ Ends(flags, sconn, conn)' /\ Quiet(conn, slipped)'
             /\ OneOK(flags, sconn, conn, proc, slipped)'
  <2>1. ConnOK(conn)'
    BY <1>5 DEF ConnOK
  <2>2. Ends(flags, sconn, conn)'
    BY <1>5 DEF Ends
  <2>3. Quiet(conn, slipped)'
    BY <1>5 DEF Quiet
  <2>4. OneOK(flags, sconn, conn, proc, slipped)'
    BY <1>5 DEF OneOK, Claims, Placed, Registers
  <2> QED
    BY <2>1, <2>2, <2>3, <2>4
<1> QED
  BY <1>1, <1>2, <1>3, <1>4, <1>5 DEF IInv

\* A handler begins in a state of OK.
LEMMA HandlerBegins ==
  ASSUME IInv, up, NEW o, o.bad \in SUBSET Serv, o.slow \in SUBSET Serv,
         NEW cmd \in Command \cup {None}, NEW m, m = State(o, cmd)
  PROVE  /\ m \in OK /\ m.conn = conn /\ m.flags = flags /\ m.ticks = ticks
<1>1. /\ flags \in FlagsT /\ sconn \in SconnT /\ conn \in [Conn -> ConnT]
      /\ proc \in [Proc -> ProcT] /\ ticks \in [Grp -> TickT]
      /\ slipped \in BOOLEAN /\ answer \in AnswerT
  BY Types DEF IInv
<1>2. /\ m.flags = flags /\ m.sconn = sconn /\ m.conn = conn /\ m.proc = proc
      /\ m.ticks = ticks /\ m.answer = answer /\ m.slipped = slipped
  BY DEF State
<1>3. m \in MState
  BY <1>1 DEF State, MState, Rc
<1>4. Good(m)
  BY <1>2 DEF Good, IInv
<1> QED
  BY <1>2, <1>3, <1>4 DEF OK

\* A handler that ends in a state of OK, with the manager still running.
LEMMA HandlerEnds ==
  ASSUME IInv, up, NEW n \in OK, Become(n), conf' = conf, up' = up, faults' \in 0..MaxFaults
  PROVE  IInv'
<1>1. n \in MState /\ Good(n)
  BY DEF OK
<1>2. /\ flags' = n.flags /\ sconn' = n.sconn /\ conn' = n.conn /\ proc' = n.proc
      /\ ticks' = n.ticks /\ answer' = n.answer /\ slipped' = n.slipped
  BY DEF Become
<1>3. /\ flags' \in FlagsT /\ sconn' \in SconnT /\ conn' \in [Conn -> ConnT]
      /\ proc' \in [Proc -> ProcT] /\ ticks' \in [Grp -> TickT]
      /\ answer' \in AnswerT /\ slipped' \in BOOLEAN
  BY <1>1, <1>2 DEF MState
<1>4. /\ LifeOK(flags') /\ ProcOK(proc') /\ AnswerOK(answer', slipped') /\ Unique(proc', slipped')
      /\ ConnOK(conn') /\ Ends(flags', sconn', conn') /\ Quiet(conn', slipped')
      /\ OneOK(flags', sconn', conn', proc', slipped')
  BY <1>1, <1>2 DEF Good
<1>5. up' \in BOOLEAN
  BY Types DEF IInv
<1> QED
  BY <1>3, <1>4, <1>5, Arrives

\* The faults that are announced can be had.
LEMMA Spending ==
  ASSUME IInv, NEW o \in Oracle
  PROVE  /\ o.bad \in SUBSET Serv /\ o.slow \in SUBSET Serv
         /\ Spend(o) => faults' \in 0..MaxFaults
<1>1. o.bad \in SUBSET Serv /\ o.slow \in SUBSET Serv
      /\ faults + Cardinality(o.bad) + Cardinality(o.slow) <= MaxFaults
  BY DEF Oracle
<1>2. Cardinality(o.bad) \in Nat /\ Cardinality(o.slow) \in Nat
  <2>1. IsFiniteSet(Serv)
    BY MgrAssumption
  <2>2. IsFiniteSet(o.bad) /\ IsFiniteSet(o.slow)
    BY <1>1, <2>1, FS_Subset
  <2> QED
    BY <2>2, FS_CardinalityType
<1>3. faults \in 0..MaxFaults
  BY Types DEF IInv
<1> QED
  BY <1>1, <1>2, <1>3, Numbers DEF Spend

\* No fault.
LEMMA NoFaultIs ==
  /\ NoFault.bad \in SUBSET Serv /\ NoFault.slow \in SUBSET Serv
  BY DEF NoFault

\* The times of the next respawns are left alone.
RespawnsKept == \A g \in Grp : ticks'[g].respawn = ticks[g].respawn

\* A step that becomes what was reached without a timer.
LEMMA PunctualKeeps ==
  ASSUME NEW m, m.ticks = ticks, NEW n \in Reached(m), Become(n)
  PROVE  RespawnsKept
  BY DEF Reached, Punctual, Become, RespawnsKept

-----------------------------------------------------------------------------
(* The steps of the manager.                                                *)

\* fh_mgmt_cli_process.
LEMMA CliInv ==
  ASSUME IInv, NEW o \in Oracle, Cli(o)
  PROVE  IInv' /\ RespawnsKept
<1>1. o.bad \in SUBSET Serv /\ o.slow \in SUBSET Serv /\ (Spend(o) => faults' \in 0..MaxFaults)
  BY Spending
<1>2. ASSUME NEW cmd \in Command, NEW m, m = State(o, cmd), NEW n \in Reached(m), Become(n),
             up, Spend(o), conf' = conf, up' = up
      PROVE  IInv' /\ RespawnsKept
  <2>1. m.ticks = ticks
    BY <1>1, <1>2, HandlerBegins
  <2>2. RespawnsKept
    BY <1>2, <2>1, PunctualKeeps
  <2>3. n \in OK
    BY DEF Reached
  <2>4. IInv'
    BY <1>1, <1>2, <2>3, HandlerEnds
  <2> QED
    BY <2>2, <2>4
<1>3. ASSUME NEW s \in Serv, NEW cmd \in Command, CliService(o, s, cmd)
      PROVE  IInv' /\ RespawnsKept
  <2> DEFINE m == State(o, cmd)
             n == Request(m, s)
  <2>1. up /\ Spend(o) /\ conf' = conf /\ up' = up /\ Become(n)
    BY <1>3 DEF CliService
  <2>2. m \in OK
    BY <1>1, <2>1, HandlerBegins
  <2>3. m = State(o, cmd)
    OBVIOUS
  <2> HIDE DEF m
  <2>4. n \in OK /\ Near(m, n, s)
    BY <2>2, RequestOK
  <2> HIDE DEF n
  <2>5. n \in Reached(m)
    BY <2>2, <2>4, ReachedSelf, ReachedStep
  <2> QED
    BY <1>2, <2>1, <2>3, <2>5
<1>4. ASSUME NEW g \in Grp, NEW cmd \in Command, CliGroup(o, g, cmd)
      PROVE  IInv' /\ RespawnsKept
  <2> DEFINE m == State(o, cmd)
             n == GroupRequest(m, g)
  <2>1. up /\ Spend(o) /\ conf' = conf /\ up' = up /\ Become(n)
    BY <1>4 DEF CliGroup
  <2>2. m \in OK
    BY <1>1, <2>1, HandlerBegins
  <2>3. m = State(o, cmd)
    OBVIOUS
  <2> HIDE DEF m
  <2>5. n \in Reached(m)
    BY <2>2, GroupRequestOK
  <2> HIDE DEF n
  <2> QED
    BY <1>2, <2>1, <2>3, <2>5
<1>5. ASSUME NEW cmd \in Command, CliAll(o, cmd)
      PROVE  IInv' /\ RespawnsKept
  <2> DEFINE m == State(o, cmd)
             n == AllRequest(m)
  <2>1. up /\ Spend(o) /\ conf' = conf /\ up' = up /\ Become(n)
    BY <1>5 DEF CliAll
  <2>2. m \in OK
    BY <1>1, <2>1, HandlerBegins
  <2>3. m = State(o, cmd)
    OBVIOUS
  <2> HIDE DEF m
  <2>5. n \in Reached(m)
    BY <2>2, AllRequestOK
  <2> HIDE DEF n
  <2> QED
    BY <1>2, <2>1, <2>3, <2>5
<1> QED
  BY <1>3, <1>4, <1>5 DEF Cli

\* fh_mgmt_serv_process: a service is lost, or what it sends is not expected.
LEMMA HandleInv ==
  ASSUME IInv, NEW o \in Oracle, Handle(o)
  PROVE  IInv' /\ RespawnsKept
<1>1. o.bad \in SUBSET Serv /\ o.slow \in SUBSET Serv /\ (Spend(o) => faults' \in 0..MaxFaults)
  BY Spending
<1>2. PICK c \in Conn : ConnService(o, c)
  BY DEF Handle
<1> DEFINE m == State(o, None)
           n == ConnFree(m, c)
<1>3. /\ up /\ Spend(o) /\ conf' = conf /\ up' = up /\ Become(n)
      /\ conn[c].type = "service" /\ (conn[c].late > 0 \/ conn[c].eof)
  BY <1>2 DEF ConnService
<1>4. m \in OK /\ m.conn = conn /\ m.ticks = ticks
  BY <1>1, <1>3, HandlerBegins
<1> HIDE DEF m
<1>5. n \in Reached(m)
  BY <1>3, <1>4, ConnFreeOK
<1> HIDE DEF n
<1>6. RespawnsKept
  BY <1>3, <1>4, <1>5, PunctualKeeps
<1>7. n \in OK
  BY <1>5 DEF Reached
<1> QED
  BY <1>1, <1>3, <1>6, <1>7, HandlerEnds

\* conn_client_registration.
LEMMA ConnRegisterInv ==
  ASSUME IInv, NEW c \in Conn, ConnRegister(c)
  PROVE  IInv' /\ RespawnsKept
<1> DEFINE m == State(NoFault, None)
           n == Registered(Attach(Taken(m, c), conn[c].reg, c), conn[c].reg, c, conn[c].peer)
<1>1. up /\ conn[c].type = "client" /\ conf' = conf /\ up' = up /\ faults' = faults /\ Become(n)
  BY DEF ConnRegister, Taken
<1>2. m \in OK /\ m.conn = conn /\ m.ticks = ticks
  BY <1>1, NoFaultIs, HandlerBegins
<1> HIDE DEF m
<1>3. n \in Reached(m)
  <2>1. m.conn[c].type = "client"
    BY <1>1, <1>2
  <2> DEFINE k == Registered(Attach(Taken(m, c), m.conn[c].reg, c), m.conn[c].reg, c,
                              m.conn[c].peer)
  <2>2. k \in Reached(m)
    BY <1>2, <2>1, RegisterOK
  <2>3. k = n
    BY <1>2
  <2> QED
    BY <2>2, <2>3
<1> HIDE DEF n
<1>4. RespawnsKept
  BY <1>1, <1>2, <1>3, PunctualKeeps
<1>5. n \in OK
  BY <1>3 DEF Reached
<1>6. faults' \in 0..MaxFaults
  BY <1>1, Types DEF IInv
<1> QED
  BY <1>1, <1>4, <1>5, <1>6, HandlerEnds

\* fh_mgmt_sg_timers: every group has had its turn.
LEMMA TimersInv ==
  ASSUME IInv, NEW o \in Oracle, Timers(o)
  PROVE  /\ IInv'
         /\ \A g \in Grp : ticks'[g].respawn # ticks[g].respawn
                           /\ (conf.grp[g].restart => ticks'[g].restart # 0) =>
              \A i \in DOMAIN Members[g] :
                "ADMIN_STOPPED" \in flags[Members[g][i]] =>
                  "ADMIN_STOPPED" \in flags'[Members[g][i]]
<1>1. o.bad \in SUBSET Serv /\ o.slow \in SUBSET Serv /\ (Spend(o) => faults' \in 0..MaxFaults)
  BY Spending
<1> DEFINE m == State(o, None)
           n == FoldLeft(GroupTick, m, Groups)
<1>2. up /\ Spend(o) /\ conf' = conf /\ up' = up /\ Become(n)
  BY DEF Timers
<1>3. m \in OK /\ m.flags = flags /\ m.ticks = ticks
  BY <1>1, <1>2, HandlerBegins
<1> HIDE DEF m
<1>4. n \in OK /\ Sofar(m, n, Len(Groups))
  BY <1>3, TimersOK
<1> HIDE DEF n
<1>5. IInv'
  BY <1>1, <1>2, <1>4, HandlerEnds
<1>6. \A g \in Grp : \E j \in 1..Len(Groups) : Groups[j] = g
  <2>1. Range(Groups) = Grp /\ DOMAIN Groups = 1..Len(Groups)
    BY GroupsOK, MgrAssumption
  <2> QED
    BY <2>1 DEF Range
<1>7. flags' = n.flags /\ ticks' = n.ticks
  BY <1>2 DEF Become
<1>8. \A g \in Grp : DOMAIN Members[g] = 1..Len(Members[g])
  BY GroupsOK
<1>9. ASSUME NEW g \in Grp, ticks'[g].respawn # ticks[g].respawn,
             conf.grp[g].restart => ticks'[g].restart # 0,
             NEW i \in DOMAIN Members[g], "ADMIN_STOPPED" \in flags[Members[g][i]]
      PROVE  "ADMIN_STOPPED" \in flags'[Members[g][i]]
  BY <1>3, <1>4, <1>6, <1>7, <1>8, <1>9 DEF Sofar
<1> QED
  BY <1>5, <1>9

\* The end of the manager closes what was open.
LEMMA ExitedIs ==
  ASSUME NEW m \in MState, NEW n, n = Exited(m)
  PROVE  /\ n.conn \in [Conn -> ConnT]
         /\ n.flags = m.flags /\ n.sconn = m.sconn /\ n.proc = m.proc
         /\ n.ticks = m.ticks /\ n.answer = m.answer /\ n.slipped = m.slipped
<1> DEFINE cl(c) == [m.conn[c] EXCEPT !.type = "closed", !.serv = None]
           e(c) == IF m.conn[c].type = "free" THEN Free ELSE cl(c)
           cn == [c \in Conn |-> e(c)]
<1>1. ASSUME NEW c \in Conn PROVE e(c) \in ConnT
  <2>1. m.conn[c] \in ConnT
    BY DEF MState
  <2>2. cl(c) \in ConnT
    BY <2>1 DEF ConnT
  <2> QED
    BY <2>2, FreeIs
<1>2. n = [m EXCEPT !.conn = cn]
  BY DEF Exited
<1> HIDE DEF e
<1>3. cn \in [Conn -> ConnT]
  BY <1>1
<1> HIDE DEF cn
<1> QED
  BY <1>2, <1>3 DEF MState

\* fh_mgmt_serv_sigterm.
LEMMA SigTermInv ==
  ASSUME IInv, SigTerm
  PROVE  IInv' /\ RespawnsKept
<1> DEFINE m == State(NoFault, None)
           k == FoldLeft(SigTermGroup, m, Groups)
           n == Exited(k)
<1>1. up /\ up' = FALSE /\ conf' = conf /\ faults' = faults /\ Become(n)
  BY DEF SigTerm
<1>2. m \in OK /\ m.ticks = ticks
  BY <1>1, NoFaultIs, HandlerBegins
<1> HIDE DEF m
<1>3. k \in Reached(m)
  BY <1>2, SigTermOK
<1> HIDE DEF k
<1>4. k \in MState /\ Good(k) /\ Punctual(m, k)
  BY <1>3 DEF Reached, OK
<1>5. /\ n.conn \in [Conn -> ConnT]
      /\ n.flags = k.flags /\ n.sconn = k.sconn /\ n.proc = k.proc
      /\ n.ticks = k.ticks /\ n.answer = k.answer /\ n.slipped = k.slipped
  BY <1>4, ExitedIs
<1> HIDE DEF n
<1>6. /\ flags' = k.flags /\ sconn' = k.sconn /\ conn' = n.conn /\ proc' = k.proc
      /\ ticks' = k.ticks /\ answer' = k.answer /\ slipped' = k.slipped
  BY <1>1, <1>5 DEF Become
<1>7. /\ flags' \in FlagsT /\ sconn' \in SconnT /\ conn' \in [Conn -> ConnT]
      /\ proc' \in [Proc -> ProcT] /\ ticks' \in [Grp -> TickT]
      /\ answer' \in AnswerT /\ slipped' \in BOOLEAN
  BY <1>4, <1>5, <1>6 DEF MState
<1>8. /\ LifeOK(flags') /\ ProcOK(proc') /\ AnswerOK(answer', slipped') /\ Unique(proc', slipped')
  BY <1>4, <1>6 DEF Good
<1>9. faults' \in 0..MaxFaults /\ up' \in BOOLEAN /\ ~up'
  BY <1>1, Types DEF IInv
<1>10. IInv'
  BY <1>1, <1>7, <1>8, <1>9, Arrives
<1>11. RespawnsKept
  BY <1>2, <1>4, <1>6 DEF Punctual, RespawnsKept
<1> QED
  BY <1>10, <1>11

-----------------------------------------------------------------------------
(* The steps of the processes.                                              *)

\* A process' step ends in the invariant when the processes and the connections do.
LEMMA ProcArrives ==
  ASSUME IInv, MgrUnchanged, conn' \in [Conn -> ConnT], proc' \in [Proc -> ProcT],
         faults' \in 0..MaxFaults, slipped' \in BOOLEAN, slipped => slipped',
         ProcOK(proc'), Unique(proc', slipped'),
         up => /\ ConnOK(conn') /\ Ends(flags, sconn, conn') /\ Quiet(conn', slipped')
               /\ OneOK(flags, sconn, conn', proc', slipped')
  PROVE  IInv' /\ RespawnsKept
<1>1. /\ conf' = conf /\ flags' = flags /\ sconn' = sconn /\ ticks' = ticks /\ up' = up
      /\ answer' = answer
  BY DEF MgrUnchanged
<1>2. /\ flags' \in FlagsT /\ sconn' \in SconnT /\ ticks' \in [Grp -> TickT]
      /\ up' \in BOOLEAN /\ answer' \in AnswerT
  BY <1>1, Types DEF IInv
<1>3. LifeOK(flags') /\ AnswerOK(answer', slipped')
  BY <1>1 DEF IInv, AnswerOK
<1>4. up' => /\ ConnOK(conn') /\ Ends(flags', sconn', conn') /\ Quiet(conn', slipped')
             /\ OneOK(flags', sconn', conn', proc', slipped')
  BY <1>1
<1>5. IInv'
  BY <1>1, <1>2, <1>3, <1>4, Arrives
<1> QED
  BY <1>1, <1>5 DEF RespawnsKept

\* What the processes' steps know of the state.
LEMMA ProcKnows ==
  ASSUME IInv
  PROVE  /\ conn \in [Conn -> ConnT] /\ proc \in [Proc -> ProcT]
         /\ faults \in 0..MaxFaults /\ slipped \in BOOLEAN
         /\ ProcOK(proc) /\ Unique(proc, slipped)
         /\ up => /\ ConnOK(conn) /\ Ends(flags, sconn, conn) /\ Quiet(conn, slipped)
                  /\ OneOK(flags, sconn, conn, proc, slipped)
  BY Types DEF IInv

\* What is not placed is nowhere: as long as no answer has come too late, and while
\* the manager runs, every process is where its service is.
LEMMA PlacedIs ==
  ASSUME IInv, up, ~slipped
  PROVE  /\ Claims(flags, conn)
         /\ \A p \in Proc : proc[p].serv \in Serv => Placed(flags, sconn, conn, p, proc[p])
         /\ \A p, q \in Proc : proc[p].serv = proc[q].serv /\ proc[p].serv \in Serv => p = q
  BY DEF IInv, OneOK, Unique

\* Process p of pr replaced by r.
Turned(pr, p, r) == [pr EXCEPT ![p] = r]

\* One process is replaced, the others stay.
LEMMA TurnedIs ==
  ASSUME NEW pr \in [Proc -> ProcT], NEW p \in Proc, NEW r \in ProcT,
         NEW qr, qr = Turned(pr, p, r)
  PROVE  qr \in [Proc -> ProcT] /\ qr[p] = r /\ \A q \in Proc \ {p} : qr[q] = pr[q]
  BY DEF Turned

\* A process that does not exist.
LEMMA NoProcIs ==
  NoProc \in ProcT /\ NoProc.serv = None /\ NoProc.st = "none" /\ NoProc.conn = None
  BY DEF NoProc, ProcT

\* A process connects: its service has been started, and nothing is registered for it.
LEMMA ConnectInv ==
  ASSUME IInv, NEW p \in Proc, ProcConnect(p)
  PROVE  IInv' /\ RespawnsKept
<1> DEFINE c == CHOOSE k \in Conn : conn[k] = Free
           s == proc[p].serv
           a == [conn[c] EXCEPT !.type = "client", !.peer = p, !.reg = s]
           r == [proc[p] EXCEPT !.st = "registering", !.conn = c]
<1>1. /\ conn \in [Conn -> ConnT] /\ proc \in [Proc -> ProcT]
      /\ faults \in 0..MaxFaults /\ slipped \in BOOLEAN
      /\ ProcOK(proc) /\ Unique(proc, slipped)
      /\ up => /\ ConnOK(conn) /\ Ends(flags, sconn, conn) /\ Quiet(conn, slipped)
               /\ OneOK(flags, sconn, conn, proc, slipped)
  BY ProcKnows
<1>2. up /\ proc[p].st = "starting" /\ MgrUnchanged /\ faults' = faults /\ slipped' = slipped
      /\ \E k \in Conn : conn[k] = Free
  BY DEF ProcConnect
<1>3. c \in Conn /\ conn[c] = Free
  BY <1>2
<1>4. s \in Serv
  BY <1>1, <1>2 DEF ProcOK
<1>5. conn' = Hung(conn, c, a)
  BY <1>1, <1>3 DEF ProcConnect, Hung
<1>19. proc' = Turned(proc, p, r)
  BY <1>1, <1>3 DEF ProcConnect, Turned
<1>20. proc \in [Proc -> ProcT]
  BY <1>1
<1> HIDE DEF c
<1>6. /\ a \in ConnT /\ a.type = "client" /\ a.peer = p /\ a.reg = s /\ a.serv = conn[c].serv
      /\ a.late = conn[c].late /\ a.out = conn[c].out /\ a.eof = conn[c].eof
  BY <1>1, <1>3, <1>4 DEF ConnT
<1>7. r \in ProcT /\ r.serv = s /\ r.st = "registering" /\ r.conn = c
  BY <1>1, <1>3 DEF ProcT
<1> HIDE DEF a, r
<1>8. conn' \in [Conn -> ConnT] /\ conn'[c] = a /\ \A d \in Conn \ {c} : conn'[d] = conn[d]
  BY <1>1, <1>3, <1>5, <1>6, HungIs
<1>9. proc' \in [Proc -> ProcT] /\ proc'[p] = r /\ \A q \in Proc \ {p} : proc'[q] = proc[q]
  BY <1>7, <1>19, <1>20, TurnedIs
<1>10. /\ a.serv = None /\ a.late = 0 /\ ~a.eof /\ a.out = << >>
       /\ conn[c].type = "free" /\ conn[c].serv = None
  BY <1>3, <1>6, FreeIs
<1>11. ProcOK(proc')
  BY <1>1, <1>4, <1>7, <1>9 DEF ProcOK
<1>12. \A q \in Proc : proc'[q].serv = proc[q].serv
  BY <1>7, <1>9
<1>13. Unique(proc', slipped')
  BY <1>1, <1>2, <1>12 DEF Unique
<1>14. ConnOK(conn')
  BY <1>1, <1>2, <1>4, <1>6, <1>8, <1>10 DEF ConnOK
<1>15. Ends(flags, sconn, conn')
  BY <1>1, <1>2, <1>8, <1>10 DEF Ends
<1>16. Quiet(conn', slipped')
  <2>1. Behind(a.out)
    BY <1>10 DEF Behind
  <2> QED
    BY <1>1, <1>2, <1>8, <1>10, <2>1 DEF Quiet
<1>17. ASSUME ~slipped PROVE OneOK(flags, sconn, conn', proc', slipped')
  <2>1. /\ Claims(flags, conn)
        /\ \A q \in Proc : proc[q].serv \in Serv => Placed(flags, sconn, conn, q, proc[q])
        /\ \A q \in Proc \ {p} : proc[q].serv # s
    BY <1>2, <1>4, <1>17, PlacedIs
  <2>2. "STARTED" \in flags[s] /\ \A d \in Conn : ~Registers(conn, d, s)
    BY <1>2, <1>4, <2>1 DEF Placed
  <2>3. Claims(flags, conn')
    BY <1>6, <1>8, <2>1, <2>2 DEF Claims, Registers
  <2>4. ASSUME NEW q \in Proc, proc'[q].serv \in Serv
        PROVE  Placed(flags, sconn, conn', q, proc'[q])
    <3>1. CASE q = p
      BY <1>3, <1>6, <1>7, <1>8, <1>9, <1>10, <2>2, <3>1 DEF Placed, Registers
    <3>2. CASE q # p
      <4> DEFINE v == proc[q]
      <4>1. v.serv \in Serv /\ v.serv # s /\ proc'[q] = v /\ Placed(flags, sconn, conn, q, v)
        BY <1>9, <2>1, <2>4, <3>2
      <4> HIDE DEF v
      <4>2. \A d \in Conn : Registers(conn', d, v.serv) <=> Registers(conn, d, v.serv)
        BY <1>6, <1>8, <1>10, <4>1 DEF Registers
      <4>3. sconn[v.serv] # c /\ ~Registers(conn, c, v.serv)
        BY <1>1, <1>2, <1>3, <1>10, <4>1, NoneIsNone DEF Ends, Registers
      <4>4. Placed(flags, sconn, conn', q, v)
        BY <1>8, <4>1, <4>2, <4>3 DEF Placed
      <4> QED
        BY <4>1, <4>4
    <3> QED
      BY <3>1, <3>2
  <2> QED
    BY <2>3, <2>4 DEF OneOK
<1>18. OneOK(flags, sconn, conn', proc', slipped')
  BY <1>2, <1>17 DEF OneOK
<1> QED
  BY <1>1, <1>2, <1>8, <1>9, <1>11, <1>13, <1>14, <1>15, <1>16, <1>18, ProcArrives

\* The process' end of connection c is closed.
LEMMA ClosedIs ==
  ASSUME NEW c \in Conn, conn \in [Conn -> ConnT], NEW dn, dn = Closed(c)
  PROVE  /\ dn \in [Conn -> ConnT]
         /\ \A d \in Conn \ {c} : dn[d] = conn[d]
         /\ conn[c].type # "closed" =>
              /\ dn[c].type = conn[c].type /\ dn[c].serv = conn[c].serv
              /\ dn[c].peer = conn[c].peer /\ dn[c].reg = conn[c].reg
              /\ dn[c].late = conn[c].late /\ dn[c].out = << >>
<1> DEFINE r == [conn[c] EXCEPT !.eof = TRUE, !.out = << >>]
           a == IF conn[c].type = "closed" THEN Free ELSE r
<1>1. conn[c] \in ConnT /\ << >> \in Seq(Message) /\ TRUE \in BOOLEAN
  OBVIOUS
<1>2. /\ r \in ConnT /\ r.type = conn[c].type /\ r.serv = conn[c].serv
      /\ r.peer = conn[c].peer /\ r.reg = conn[c].reg
      /\ r.late = conn[c].late /\ r.out = << >>
  BY <1>1 DEF ConnT
<1>3. dn = Hung(conn, c, a)
  BY <1>1 DEF Closed, Hung
<1> HIDE DEF r
<1>4. a \in ConnT /\ (conn[c].type # "closed" => a = r)
  BY <1>2, FreeIs
<1> HIDE DEF a
<1>5. dn \in [Conn -> ConnT] /\ dn[c] = a /\ \A d \in Conn \ {c} : dn[d] = conn[d]
  BY <1>3, <1>4, HungIs
<1> QED
  BY <1>2, <1>4, <1>5

\* While the manager runs, a process' end closes without moving the manager's.
LEMMA ClosedKeeps ==
  ASSUME IInv, up, NEW c \in Conn, NEW dn, dn = Closed(c)
  PROVE  /\ ConnOK(dn) /\ Ends(flags, sconn, dn) /\ Quiet(dn, slipped)
         /\ Claims(flags, conn) => Claims(flags, dn)
         /\ \A d \in Conn : dn[d].type = conn[d].type /\ dn[d].reg = conn[d].reg
<1>1. /\ conn \in [Conn -> ConnT]
      /\ ConnOK(conn) /\ Ends(flags, sconn, conn) /\ Quiet(conn, slipped)
  BY ProcKnows
<1>2. conn[c].type # "closed"
  BY <1>1 DEF ConnOK
<1>3. /\ \A d \in Conn \ {c} : dn[d] = conn[d]
      /\ dn[c].type = conn[c].type /\ dn[c].serv = conn[c].serv
      /\ dn[c].peer = conn[c].peer /\ dn[c].reg = conn[c].reg
      /\ dn[c].late = conn[c].late /\ dn[c].out = << >>
  BY <1>1, <1>2, ClosedIs
<1>4. \A d \in Conn : /\ dn[d].type = conn[d].type /\ dn[d].serv = conn[d].serv
                      /\ dn[d].peer = conn[d].peer /\ dn[d].reg = conn[d].reg
                      /\ dn[d].late = conn[d].late
  BY <1>3
<1>5. ConnOK(dn)
  BY <1>1, <1>4 DEF ConnOK
<1>6. Ends(flags, sconn, dn)
  BY <1>1, <1>4 DEF Ends
<1>7. Quiet(dn, slipped)
  <2>1. Behind(dn[c].out)
    BY <1>3 DEF Behind
  <2> QED
    BY <1>1, <1>3, <1>4, <2>1 DEF Quiet
<1>8. Claims(flags, conn) => Claims(flags, dn)
  BY <1>4 DEF Claims
<1> QED
  BY <1>4, <1>5, <1>6, <1>7, <1>8

\* A process that ends takes its end of the connection with it, and no other process
\* is on that connection.
LEMMA GoneInv ==
  ASSUME IInv, NEW p \in Proc, MgrUnchanged, slipped' = slipped, faults' \in 0..MaxFaults,
         conn' = IF Mine(p) THEN Closed(proc[p].conn) ELSE conn,
         proc' = [proc EXCEPT ![p] = NoProc]
  PROVE  IInv' /\ RespawnsKept
<1> DEFINE c == proc[p].conn
<1>1. /\ conn \in [Conn -> ConnT] /\ proc \in [Proc -> ProcT] /\ slipped \in BOOLEAN
      /\ ProcOK(proc) /\ Unique(proc, slipped)
      /\ up => /\ ConnOK(conn) /\ Ends(flags, sconn, conn) /\ Quiet(conn, slipped)
               /\ OneOK(flags, sconn, conn, proc, slipped)
  BY ProcKnows
<1>2. Mine(p) => c \in Conn /\ conn[c].peer = p
  BY <1>1 DEF Mine, ProcT
<1>3. /\ proc' \in [Proc -> ProcT] /\ proc'[p] = NoProc
      /\ \A q \in Proc \ {p} : proc'[q] = proc[q]
  BY <1>1, NoProcIs
<1>4. proc'[p].serv = None /\ proc'[p].st = "none" /\ proc'[p].conn = None
  BY <1>3, NoProcIs
<1>5. /\ conn' \in [Conn -> ConnT]
      /\ \A d \in Conn : ~(Mine(p) /\ d = c) => conn'[d] = conn[d]
  <2>1. CASE Mine(p)
    <3>1. conn' = Closed(c) /\ c \in Conn
      BY <1>2, <2>1
    <3> HIDE DEF c
    <3> QED
      BY <1>1, <3>1, ClosedIs
  <2>2. CASE ~Mine(p)
    BY <1>1, <2>2
  <2> QED
    BY <2>1, <2>2
<1>6. ProcOK(proc')
  BY <1>1, <1>3, <1>4, NoneIsNone DEF ProcOK
<1>7. Unique(proc', slipped')
  BY <1>1, <1>3, <1>4, NoneIsNone DEF Unique
<1>8. up => /\ ConnOK(conn') /\ Ends(flags, sconn, conn') /\ Quiet(conn', slipped)
            /\ (Claims(flags, conn) => Claims(flags, conn'))
            /\ \A d \in Conn : conn'[d].type = conn[d].type /\ conn'[d].reg = conn[d].reg
  <2>1. CASE Mine(p)
    <3>1. conn' = Closed(c) /\ c \in Conn
      BY <1>2, <2>1
    <3> HIDE DEF c
    <3> QED
      BY <3>1, ClosedKeeps
  <2>2. CASE ~Mine(p)
    BY <1>1, <2>2
  <2> QED
    BY <2>1, <2>2
<1>9. ASSUME up, ~slipped PROVE OneOK(flags, sconn, conn', proc', slipped')
  <2>1. /\ Claims(flags, conn)
        /\ \A q \in Proc : proc[q].serv \in Serv => Placed(flags, sconn, conn, q, proc[q])
    BY <1>9, PlacedIs
  <2>2. ASSUME NEW q \in Proc, proc'[q].serv \in Serv
        PROVE  Placed(flags, sconn, conn', q, proc'[q])
    <3> DEFINE v == proc[q]
    <3>1. q # p
      BY <1>4, <2>2, NoneIsNone
    <3>2. v.serv \in Serv /\ proc'[q] = v /\ Placed(flags, sconn, conn, q, v)
      BY <1>3, <2>1, <2>2, <3>1
    <3> HIDE DEF v, c
    <3>3. \A d \in Conn : Registers(conn', d, v.serv) <=> Registers(conn, d, v.serv)
      BY <1>8, <1>9 DEF Registers
    <3>4. \A d \in Conn : conn[d].peer = q => conn'[d] = conn[d]
      BY <1>2, <1>5, <3>1
    <3>5. Placed(flags, sconn, conn', q, v)
      BY <3>2, <3>3, <3>4 DEF Placed
    <3> QED
      BY <3>2, <3>5
  <2> QED
    BY <1>8, <1>9, <2>1, <2>2 DEF OneOK
<1>10. up => OneOK(flags, sconn, conn', proc', slipped')
  BY <1>9 DEF OneOK
<1> QED
  BY <1>1, <1>3, <1>5, <1>6, <1>7, <1>8, <1>10, ProcArrives

\* A process that crashes.
LEMMA CrashInv ==
  ASSUME IInv, NEW p \in Proc, ProcCrash(p)
  PROVE  IInv' /\ RespawnsKept
<1>1. /\ MgrUnchanged /\ slipped' = slipped
      /\ conn' = IF Mine(p) THEN Closed(proc[p].conn) ELSE conn
      /\ proc' = [proc EXCEPT ![p] = NoProc]
      /\ faults < MaxFaults /\ faults' = faults + 1
  BY DEF ProcCrash, Fault
<1>2. faults' \in 0..MaxFaults
  BY <1>1, ProcKnows, Numbers
<1> QED
  BY <1>1, <1>2, GoneInv

\* A registration whose answer has not come in time: an answer has slipped.
LEMMA GivesUpInv ==
  ASSUME IInv, NEW p \in Proc, ProcGivesUp(p)
  PROVE  IInv' /\ RespawnsKept
<1> DEFINE c == proc[p].conn
           r == [proc[p] EXCEPT !.st = "orphan", !.conn = None]
<1>1. /\ conn \in [Conn -> ConnT] /\ proc \in [Proc -> ProcT] /\ faults \in 0..MaxFaults
      /\ ProcOK(proc)
  BY ProcKnows
<1>2. /\ up /\ proc[p].st = "registering" /\ Mine(p) /\ MgrUnchanged /\ slipped' = TRUE
      /\ conn' = Closed(c) /\ proc' = Turned(proc, p, r)
      /\ faults < MaxFaults /\ faults' = faults + 1
  BY DEF ProcGivesUp, Fault, Turned
<1>3. c \in Conn
  BY <1>1, <1>2 DEF Mine, ProcT
<1>4. r \in ProcT /\ r.serv = proc[p].serv /\ r.st = "orphan" /\ r.conn = None
  BY <1>1 DEF ProcT
<1> HIDE DEF c, r
<1>5. proc' \in [Proc -> ProcT] /\ proc'[p] = r /\ \A q \in Proc \ {p} : proc'[q] = proc[q]
  <2>1. proc' = Turned(proc, p, r) /\ proc \in [Proc -> ProcT]
    BY <1>1, <1>2
  <2> QED
    BY <1>4, <2>1, TurnedIs
<1>6. conn' \in [Conn -> ConnT]
  BY <1>1, <1>2, <1>3, ClosedIs
<1>7. ConnOK(conn') /\ Ends(flags, sconn, conn')
  BY <1>2, <1>3, ClosedKeeps
<1>8. ProcOK(proc')
  BY <1>1, <1>2, <1>4, <1>5 DEF ProcOK
<1>9. slipped' \in BOOLEAN /\ slipped'
  BY <1>2
<1>10. /\ Unique(proc', slipped') /\ Quiet(conn', slipped')
       /\ OneOK(flags, sconn, conn', proc', slipped')
  BY <1>9 DEF Unique, Quiet, OneOK
<1>11. faults' \in 0..MaxFaults
  BY <1>1, <1>2, Numbers
<1> QED
  BY <1>2, <1>5, <1>6, <1>7, <1>8, <1>9, <1>10, <1>11, ProcArrives

\* A process whose connection the manager has closed: as long as the manager runs, an
\* answer must have come too late.
LEMMA LostInv ==
  ASSUME IInv, NEW p \in Proc, ProcLost(p)
  PROVE  IInv' /\ RespawnsKept
<1> DEFINE c == proc[p].conn
           z == IF proc[p].st = "serving" THEN "starting" ELSE "orphan"
           r == [proc[p] EXCEPT !.conn = None, !.st = z]
<1>1. /\ conn \in [Conn -> ConnT] /\ proc \in [Proc -> ProcT] /\ faults \in 0..MaxFaults
      /\ slipped \in BOOLEAN /\ ProcOK(proc) /\ Unique(proc, slipped)
      /\ up => /\ ConnOK(conn) /\ Ends(flags, sconn, conn) /\ Quiet(conn, slipped)
               /\ OneOK(flags, sconn, conn, proc, slipped)
  BY ProcKnows
<1>2. /\ proc[p].st \in {"registering", "serving"} /\ MgrUnchanged
      /\ ~Mine(p) \/ conn[c].type = "closed"
      /\ conn' = IF Mine(p) THEN Hung(conn, c, Free) ELSE conn
      /\ faults' = faults /\ slipped' = slipped
  BY DEF ProcLost, Hung
<1>3. proc' = Turned(proc, p, r)
  BY <1>1 DEF ProcLost, Turned, ProcT
<1>4. z \in {"starting", "orphan"}
  OBVIOUS
<1>5. Mine(p) => c \in Conn
  BY <1>1 DEF Mine, ProcT
<1> HIDE DEF z
<1>6. r \in ProcT /\ r.serv = proc[p].serv /\ r.st = z /\ r.conn = None
  BY <1>1, <1>4 DEF ProcT
<1> HIDE DEF r, c
<1>7. proc' \in [Proc -> ProcT] /\ proc'[p] = r /\ \A q \in Proc \ {p} : proc'[q] = proc[q]
  <2>1. proc \in [Proc -> ProcT]
    BY <1>1
  <2> QED
    BY <1>3, <1>6, <2>1, TurnedIs
<1>8. conn' \in [Conn -> ConnT]
  <2>1. CASE Mine(p)
    BY <1>1, <1>2, <1>5, <2>1, FreeIs, HungIs
  <2>2. CASE ~Mine(p)
    BY <1>1, <1>2, <2>2
  <2> QED
    BY <2>1, <2>2
<1>9. ProcOK(proc')
  BY <1>1, <1>2, <1>4, <1>6, <1>7 DEF ProcOK
<1>10. Unique(proc', slipped')
  <2>1. \A q \in Proc : proc'[q].serv = proc[q].serv
    BY <1>6, <1>7
  <2> QED
    BY <1>1, <1>2, <2>1 DEF Unique
<1>11. ASSUME up
       PROVE  slipped /\ conn' = conn
  <2>1. ~Mine(p)
    BY <1>1, <1>2, <1>5, <1>11 DEF ConnOK
  <2>2. slipped
    <3> SUFFICES ASSUME ~slipped PROVE FALSE
      OBVIOUS
    <3>1. proc[p].serv \in Serv
      BY <1>1, <1>2 DEF ProcOK
    <3>2. Placed(flags, sconn, conn, p, proc[p])
      BY <1>11, <3>1, PlacedIs
    <3>3. c \in Conn /\ conn[c].peer = p
      BY <1>2, <3>2 DEF Placed, c
    <3> QED
      BY <2>1, <3>3, NoneIsNone DEF Mine, c
  <2> QED
    BY <1>2, <2>1, <2>2
<1>12. up => /\ ConnOK(conn') /\ Ends(flags, sconn, conn') /\ Quiet(conn', slipped')
             /\ OneOK(flags, sconn, conn', proc', slipped')
  BY <1>1, <1>2, <1>11 DEF OneOK
<1> QED
  BY <1>1, <1>2, <1>7, <1>8, <1>9, <1>10, <1>12, ProcArrives

\* What is behind a stop stays behind it when something else is handled.
LEMMA BehindTail ==
  ASSUME NEW q \in Seq(Message), q # << >>, Head(q) # "stop", Behind(q)
  PROVE  Head(q) # "request" /\ Behind(Tail(q))
<1>1. /\ DOMAIN q = 1..Len(q) /\ Len(q) \in Nat /\ Len(q) >= 1 /\ Head(q) = q[1]
      /\ Len(Tail(q)) = Len(q) - 1 /\ DOMAIN Tail(q) = 1..(Len(q) - 1)
      /\ \A i \in 1..(Len(q) - 1) : Tail(q)[i] = q[i + 1]
  OBVIOUS
<1>2. Head(q) # "request"
  BY <1>1 DEF Behind
<1>3. ASSUME NEW i \in DOMAIN Tail(q), Tail(q)[i] = "request"
      PROVE  \E j \in 1..(i - 1) : Tail(q)[j] = "stop"
  <2>1. i + 1 \in DOMAIN q /\ q[i + 1] = "request" /\ i \in Nat
    BY <1>1, <1>3
  <2>2. PICK j \in 1..i : q[j] = "stop"
    BY <2>1 DEF Behind
  <2>3. j - 1 \in 1..(i - 1) /\ j - 1 \in 1..(Len(q) - 1)
    BY <1>1, <2>1, <2>2
  <2>4. Tail(q)[j - 1] = "stop"
    BY <1>1, <2>2, <2>3
  <2> QED
    BY <2>3, <2>4
<1> QED
  BY <1>2, <1>3 DEF Behind

\* A process that handles a message.
LEMMA ServesInv ==
  ASSUME IInv, NEW p \in Proc, ProcServes(p)
  PROVE  IInv' /\ RespawnsKept
<1> DEFINE c == proc[p].conn
           q == conn[c].out
           h == Head(q)
           l == IF h = "request" /\ conn[c].type # "closed" THEN conn[c].late + 1 ELSE conn[c].late
<1>1. /\ conn \in [Conn -> ConnT] /\ proc \in [Proc -> ProcT] /\ faults \in 0..MaxFaults
      /\ slipped \in BOOLEAN /\ ProcOK(proc) /\ Unique(proc, slipped)
      /\ up => /\ ConnOK(conn) /\ Ends(flags, sconn, conn) /\ Quiet(conn, slipped)
               /\ OneOK(flags, sconn, conn, proc, slipped)
  BY ProcKnows
<1>2. /\ proc[p].st = "serving" /\ Mine(p) /\ q # << >> /\ MgrUnchanged
      /\ faults' = faults /\ slipped' = slipped
  BY DEF ProcServes
<1>3. CASE h = "stop"
  <2>1. conn' = Closed(c) /\ proc' = [proc EXCEPT ![p] = NoProc]
    BY <1>3 DEF ProcServes
  <2>2. conn' = IF Mine(p) THEN Closed(proc[p].conn) ELSE conn
    BY <1>2, <2>1
  <2>3. faults' \in 0..MaxFaults
    BY <1>1, <1>2
  <2> HIDE DEF c
  <2> QED
    BY <1>2, <2>1, <2>2, <2>3, GoneInv
<1>4. CASE h # "stop"
  <2>1. c \in Conn
    BY <1>1, <1>2 DEF Mine, ProcT
  <2>2. conn[c] \in ConnT /\ q \in Seq(Message) /\ conn[c].late \in Nat
    BY <1>1, <2>1 DEF ConnT
  <2> DEFINE t == Tail(q)
             a == [conn[c] EXCEPT !.out = t, !.late = l]
  <2>3. t \in Seq(Message) /\ l \in Nat
    BY <1>2, <2>2
  <2>4. conn' = Hung(conn, c, a) /\ proc' = proc
    <3>1. conn' = [conn EXCEPT ![c].out = Tail(@),
                               ![c].late = IF h = "request" /\ conn[c].type # "closed"
                                           THEN @ + 1 ELSE @]
      BY <1>4 DEF ProcServes
    <3>2. proc' = proc
      BY <1>4 DEF ProcServes
    <3> QED
      BY <1>1, <2>1, <2>2, <3>1, <3>2 DEF Hung, ConnT
  <2>5. ~slipped /\ up => l = 0 /\ Behind(t)
    <3> SUFFICES ASSUME ~slipped, up PROVE l = 0 /\ Behind(t)
      OBVIOUS
    <3>1. conn[c].late = 0 /\ Behind(q)
      BY <1>1, <2>1 DEF Quiet
    <3> HIDE DEF q
    <3>2. h # "request" /\ Behind(t)
      BY <1>2, <1>4, <2>2, <3>1, BehindTail
    <3> QED
      BY <3>1, <3>2
  <2> HIDE DEF c, t, l
  <2>6. /\ a \in ConnT /\ a.out = t /\ a.late = l /\ a.type = conn[c].type
        /\ a.serv = conn[c].serv /\ a.peer = conn[c].peer /\ a.reg = conn[c].reg
        /\ a.eof = conn[c].eof
    BY <2>2, <2>3 DEF ConnT
  <2> HIDE DEF a
  <2>7. /\ conn' \in [Conn -> ConnT] /\ conn'[c] = a
        /\ \A d \in Conn \ {c} : conn'[d] = conn[d]
    BY <1>1, <2>1, <2>4, <2>6, HungIs
  <2>8. SameEnds(conn, conn')
    BY <2>6, <2>7 DEF SameEnds
  <2>9. ASSUME up
        PROVE  ConnOK(conn') /\ Ends(flags, sconn, conn') /\ Quiet(conn', slipped)
    <3>1. ConnOK(conn')
      BY <1>1, <2>8, <2>9 DEF ConnOK, SameEnds
    <3>2. Ends(flags, sconn, conn')
      BY <1>1, <2>8, <2>9 DEF Ends, SameEnds
    <3>3. Quiet(conn', slipped)
      BY <1>1, <2>5, <2>6, <2>7, <2>9 DEF Quiet
    <3> QED
      BY <3>1, <3>2, <3>3
  <2>10. ASSUME up, ~slipped PROVE OneOK(flags, sconn, conn', proc', slipped')
    <3>1. /\ Claims(flags, conn)
          /\ \A u \in Proc : proc[u].serv \in Serv => Placed(flags, sconn, conn, u, proc[u])
      BY <2>10, PlacedIs
    <3>2. Claims(flags, conn')
      BY <2>8, <3>1 DEF Claims, SameEnds
    <3>3. ASSUME NEW u \in Proc, proc'[u].serv \in Serv
          PROVE  Placed(flags, sconn, conn', u, proc'[u])
      <4> DEFINE v == proc[u]
      <4>1. v.serv \in Serv /\ proc'[u] = v /\ Placed(flags, sconn, conn, u, v)
        BY <2>4, <3>1, <3>3
      <4> HIDE DEF v
      <4>2. \A d \in Conn : Registers(conn', d, v.serv) <=> Registers(conn, d, v.serv)
        BY <2>8 DEF Registers, SameEnds
      <4>3. Placed(flags, sconn, conn', u, v)
        BY <2>8, <4>1, <4>2 DEF Placed, SameEnds
      <4> QED
        BY <4>1, <4>3
    <3> QED
      BY <3>2, <3>3 DEF OneOK
  <2>11. /\ up => OneOK(flags, sconn, conn', proc', slipped')
         /\ ProcOK(proc') /\ Unique(proc', slipped') /\ proc' \in [Proc -> ProcT]
    BY <1>1, <1>2, <2>4, <2>10 DEF OneOK
  <2> QED
    BY <1>1, <1>2, <2>7, <2>9, <2>11, ProcArrives
<1> QED
  BY <1>3, <1>4

-----------------------------------------------------------------------------
(* The specification.                                                       *)

\* fh_mgmt_serv_new and fh_mgmt_sg_add_serv: the flags a service begins with.
LEMMA FirstFlags ==
  ASSUME conf \in {CfgLoad(f) : f \in Confs}, NEW s \in Serv,
         NEW x, x = SgAddServ(s, ServNew(s))
  PROVE  x \in SUBSET Flag /\ ServOK(x, Dead(s)) /\ "RUNNING" \notin x
<1>1. PICK f \in Confs : conf = CfgLoad(f)
  OBVIOUS
<1> DEFINE g == GroupOf(s)
<1>2. g \in Grp
  BY GroupsOK
<1> HIDE DEF g
<1> DEFINE sd == conf.serv[s].disable
           gd == conf.grp[g].disable
<1>4. sd \in BOOLEAN /\ gd \in BOOLEAN
  BY <1>1, <1>2 DEF CfgLoad, CfgServLoad, CfgSgLoad
<1>5. Dead(s) <=> (~sd /\ gd)
  BY DEF Dead, g
<1>6. ServNew(s) = IF sd THEN {"STOPPED", "DISABLED"} ELSE {"STOPPED", "ENABLED"}
  BY DEF ServNew
<1>7. x = IF gd /\ "DISABLED" \notin ServNew(s) THEN {"DISABLED"} ELSE ServNew(s)
  BY DEF SgAddServ, g
<1> HIDE DEF sd, gd
<1>8. CASE sd
  <2>1. x = {"STOPPED", "DISABLED"} /\ ~Dead(s)
    BY <1>5, <1>6, <1>7, <1>8
  <2> QED
    BY <2>1 DEF ServOK, Only, Flag, Life
<1>9. CASE ~sd /\ gd
  <2>1. x = {"DISABLED"} /\ Dead(s)
    BY <1>5, <1>6, <1>7, <1>9
  <2> QED
    BY <2>1 DEF ServOK, Only, Flag, Life
<1>10. CASE ~sd /\ ~gd
  <2>1. x = {"STOPPED", "ENABLED"} /\ ~Dead(s)
    BY <1>5, <1>6, <1>7, <1>10
  <2> QED
    BY <2>1 DEF ServOK, Only, Flag, Life
<1> QED
  BY <1>8, <1>9, <1>10

\* fh_mgmt_sg_restart_time.
LEMMA RestartTicksType ==
  ASSUME NEW now \in 0..(RestartDeadline - 1)
  PROVE  RestartTicks(now) \in Nat
  BY Numbers DEF RestartTicks

\* fhmgr begins with the books in order: every service is stopped or administratively
\* stopped, on no connection and without a process.
LEMMA InitInv == Init => IInv
<1> SUFFICES ASSUME Init PROVE IInv
  OBVIOUS
<1>1. conf \in {CfgLoad(f) : f \in Confs}
  BY DEF Init
<1>2. /\ flags \in FlagsT /\ LifeOK(flags) /\ \A s \in Serv : "RUNNING" \notin flags[s]
  <2>1. \A s \in Serv : flags[s] = SgAddServ(s, ServNew(s))
    BY DEF Init
  <2>2. \A s \in Serv : /\ flags[s] \in SUBSET Flag /\ ServOK(flags[s], Dead(s))
                        /\ "RUNNING" \notin flags[s]
    BY <1>1, <2>1, FirstFlags
  <2>3. flags = [s \in Serv |-> flags[s]]
    BY DEF Init
  <2>4. flags \in FlagsT
    BY <2>2, <2>3 DEF FlagsT
  <2> QED
    BY <2>2, <2>4 DEF LifeOK
<1>3. sconn \in SconnT /\ \A s \in Serv : sconn[s] = None
  BY DEF Init, SconnT
<1>4. conn \in [Conn -> ConnT] /\ \A c \in Conn : conn[c] = Free
  BY FreeIs DEF Init
<1>5. proc \in [Proc -> ProcT] /\ \A p \in Proc : proc[p] = NoProc
  BY NoProcIs DEF Init
<1>6. ticks \in [Grp -> TickT]
  <2>1. PICK now \in (0..(RestartDeadline - 1)) \ {RestartTime} :
          ticks = [g \in Grp |-> [stats |-> 0, respawn |-> 0,
                                  restart |-> IF conf.grp[g].restart THEN RestartTicks(now) ELSE 0]]
    BY DEF Init
  <2> DEFINE k == RestartTicks(now)
  <2>2. k \in Nat /\ 0 \in 0..SpawnDelay
    BY Numbers, RestartTicksType
  <2> HIDE DEF k
  <2>3. ticks = [g \in Grp |-> [stats |-> 0, respawn |-> 0,
                                restart |-> IF conf.grp[g].restart THEN k ELSE 0]]
    BY <2>1 DEF k
  <2> QED
    BY <2>2, <2>3 DEF TickT
<1>7. /\ up \in BOOLEAN /\ slipped \in BOOLEAN /\ answer \in AnswerT /\ faults \in 0..MaxFaults
      /\ answer = None /\ ~slipped
  <2>1. up = TRUE /\ slipped = FALSE
    BY Zenon DEF Init
  <2>2. up \in BOOLEAN /\ slipped \in BOOLEAN /\ ~slipped
    BY <2>1, Zenon
  <2>3. answer = None /\ answer \in AnswerT
    BY DEF Init, AnswerT
  <2>4. faults = 0
    BY DEF Init
  <2>5. faults \in 0..MaxFaults
    BY <2>4, Numbers
  <2> QED
    BY <2>2, <2>3, <2>5
<1>8. TypeOK
  BY <1>1, <1>2, <1>3, <1>4, <1>5, <1>6, <1>7
     DEF TypeOK, FlagsT, SconnT, ConnT, ProcT, TickT, AnswerT, Message
<1>9. ProcOK(proc) /\ Unique(proc, slipped)
  BY <1>5, NoProcIs, NoneIsNone DEF ProcOK, Unique
<1>10. AnswerOK(answer, slipped)
  <2>1. answer # "stale"
    BY <1>7, NoneIsNone
  <2> QED
    BY <2>1 DEF AnswerOK
<1>11. ConnOK(conn)
  BY <1>4, FreeIs DEF ConnOK
<1>12. Ends(flags, sconn, conn)
  BY <1>2, <1>3, <1>4, FreeIs, NoneIsNone DEF Ends
<1>13. Quiet(conn, slipped)
  <2>1. Behind(Free.out)
    BY FreeIs DEF Behind
  <2> QED
    BY <1>4, <2>1, FreeIs DEF Quiet
<1>14. OneOK(flags, sconn, conn, proc, slipped)
  BY <1>4, <1>5, FreeIs, NoProcIs, NoneIsNone DEF OneOK, Claims
<1> QED
  BY <1>2, <1>8, <1>9, <1>10, <1>11, <1>12, <1>13, <1>14 DEF IInv

\* What AdminStopSticks says of a step.
Sticks ==
  \A g \in Grp :
     ticks'[g].respawn # ticks[g].respawn /\ (conf.grp[g].restart => ticks'[g].restart # 0) =>
       \A i \in DOMAIN Members[g] :
         "ADMIN_STOPPED" \in flags[Members[g][i]] =>
           "ADMIN_STOPPED" \in flags'[Members[g][i]]

\* Every step keeps the invariant, and respawns nothing that the command line stopped.
LEMMA NextInv ==
  ASSUME IInv, Next
  PROVE  IInv' /\ Sticks
<1>1. RespawnsKept => Sticks
  BY DEF RespawnsKept, Sticks
<1>2. ASSUME NEW o \in Oracle, Timers(o) PROVE IInv' /\ Sticks
  BY <1>2, TimersInv DEF Sticks
<1>3. ASSUME NEW o \in Oracle, Handle(o) \/ Cli(o) PROVE IInv' /\ Sticks
  BY <1>1, <1>3, HandleInv, CliInv
<1>4. ASSUME NEW c \in Conn, ConnRegister(c) PROVE IInv' /\ Sticks
  BY <1>1, <1>4, ConnRegisterInv
<1>5. CASE SigTerm
  BY <1>1, <1>5, SigTermInv
<1>6. ASSUME NEW p \in Proc, Process(p) \/ ProcGivesUp(p) \/ ProcCrash(p)
      PROVE  IInv' /\ Sticks
  <2>1. CASE ProcConnect(p)
    BY <1>1, <2>1, ConnectInv
  <2>2. CASE ProcLost(p)
    BY <1>1, <2>2, LostInv
  <2>3. CASE ProcServes(p)
    BY <1>1, <2>3, ServesInv
  <2>4. CASE ProcGivesUp(p)
    BY <1>1, <2>4, GivesUpInv
  <2>5. CASE ProcCrash(p)
    BY <1>1, <2>5, CrashInv
  <2> QED
    BY <1>6, <2>1, <2>2, <2>3, <2>4, <2>5 DEF Process
<1> QED
  BY <1>2, <1>3, <1>4, <1>5, <1>6 DEF Next

\* Nothing happens.
LEMMA StutterInv ==
  ASSUME IInv, UNCHANGED vars
  PROVE  IInv'
<1>1. /\ conf' = conf /\ flags' = flags /\ sconn' = sconn /\ conn' = conn /\ proc' = proc
      /\ ticks' = ticks /\ up' = up /\ answer' = answer /\ faults' = faults /\ slipped' = slipped
  BY DEF vars
<1>2. /\ MgrUnchanged
      /\ conn' \in [Conn -> ConnT] /\ proc' \in [Proc -> ProcT]
      /\ faults' \in 0..MaxFaults /\ slipped' \in BOOLEAN
      /\ ProcOK(proc') /\ Unique(proc', slipped')
      /\ up => /\ ConnOK(conn') /\ Ends(flags, sconn, conn') /\ Quiet(conn', slipped')
               /\ OneOK(flags, sconn, conn', proc', slipped')
  BY <1>1, ProcKnows DEF MgrUnchanged
<1> QED
  BY <1>1, <1>2, ProcArrives

\* The books of fhmgr, its connections and the processes of its services agree in every
\* reachable state: the inductive invariant of the manager.
THEOREM MgrInvariant == Spec => []IInv
<1>1. IInv /\ [Next]_vars => IInv'
  BY NextInv, StutterInv
<1> QED
  BY <1>1, InitInv, PTL DEF Spec

-----------------------------------------------------------------------------
(* What the invariant says.                                                 *)

\* A set of which one thing, at most, can be a member.
LEMMA AtMostOne ==
  ASSUME NEW S, \A a, b \in S : a = b
  PROVE  Cardinality(S) \in Nat /\ Cardinality(S) <= 1
<1>1. CASE S = {}
  BY <1>1, FS_EmptySet
<1>2. CASE S # {}
  <2>1. PICK x : S = {x}
    BY <1>2
  <2> QED
    BY <2>1, FS_Singleton
<1> QED
  BY <1>1, <1>2

\* The flags of a service, counted.
LEMMA LifeCounted ==
  ASSUME NEW x \in SUBSET Flag, NEW d \in BOOLEAN, ServOK(x, d)
  PROVE  /\ Cardinality(x \cap Life) = IF d THEN 0 ELSE 1
         /\ Cardinality(x \cap {"ENABLED", "DISABLED"}) = 1
         /\ x \cap {"STOPPING", "ADMIN_STOPPING"} # {} => "RUNNING" \in x
<1>1. d => x \cap Life = {}
  BY DEF ServOK, Life
<1>2. ~d => \E y : x \cap Life = {y}
  <2>1. ~d => \/ x \cap Life = {"STARTED"} \/ x \cap Life = {"RUNNING"}
             \/ x \cap Life = {"STOPPED"} \/ x \cap Life = {"ADMIN_STOPPED"}
    BY DEF ServOK, Only, Life
  <2> QED
    BY <2>1
<1>3. x \cap {"ENABLED", "DISABLED"} = {"ENABLED"} \/ x \cap {"ENABLED", "DISABLED"} = {"DISABLED"}
  BY DEF ServOK
<1>4. x \cap {"STOPPING", "ADMIN_STOPPING"} # {} => "RUNNING" \in x
  BY DEF ServOK
<1>5. Cardinality(x \cap {"ENABLED", "DISABLED"}) = 1
  BY <1>3, FS_Singleton
<1>6. d => Cardinality(x \cap Life) = 0
  BY <1>1, FS_EmptySet
<1>7. ~d => Cardinality(x \cap Life) = 1
  BY <1>2, FS_Singleton
<1> QED
  BY <1>4, <1>5, <1>6, <1>7

\* fhmgr's books are consistent: a service runs exactly while one connection is attached
\* to it and each end points to the other (what conn_free asserts and serv_post relies
\* on), serv_flags hold one state of the life cycle, and fh_adm_expect takes no answer
\* for another while none has come too late.
THEOREM ServicesAreSound == Spec => []ServicesSound
<1>1. IInv => ServicesSound
  <2> SUFFICES ASSUME IInv PROVE ServicesSound
    OBVIOUS
  <2>1. TypeOK
    BY DEF IInv
  <2>2. Attached
    BY DEF IInv, Attached, Ends
  <2>3. AnswersMatch
    BY DEF IInv, AnswersMatch, AnswerOK
  <2>4. ASSUME NEW s \in Serv
        PROVE  /\ Cardinality(flags[s] \cap Life) =
                    IF ~conf.serv[s].disable /\ conf.grp[GroupOf(s)].disable THEN 0 ELSE 1
               /\ Cardinality(flags[s] \cap {"ENABLED", "DISABLED"}) = 1
               /\ flags[s] \cap {"STOPPING", "ADMIN_STOPPING"} # {} => "RUNNING" \in flags[s]
    <3> DEFINE x == flags[s]
               d == Dead(s)
    <3>1. x \in SUBSET Flag /\ ServOK(x, d)
      BY <2>1 DEF IInv, TypeOK, LifeOK
    <3>2. d \in BOOLEAN
      BY DEF Dead
    <3>3. d <=> ~conf.serv[s].disable /\ conf.grp[GroupOf(s)].disable
      BY DEF Dead
    <3> HIDE DEF x, d
    <3>4. /\ Cardinality(x \cap Life) = IF d THEN 0 ELSE 1
          /\ Cardinality(x \cap {"ENABLED", "DISABLED"}) = 1
          /\ x \cap {"STOPPING", "ADMIN_STOPPING"} # {} => "RUNNING" \in x
      BY <3>1, <3>2, LifeCounted
    <3> QED
      BY <3>3, <3>4 DEF x
  <2>5. OneLife
    BY <2>4 DEF OneLife
  <2> QED
    BY <2>1, <2>2, <2>3, <2>5 DEF ServicesSound
<1> QED
  BY <1>1, MgrInvariant, PTL

\* However starts, stops, restarts, respawns and crashes interleave, fhmgr never has two
\* processes of one service, as long as no answer and no registration has come too late.
THEOREM OneInstanceAlways == Spec => []OneInstance
<1>1. IInv => OneInstance
  <2> SUFFICES ASSUME IInv, ~slipped, NEW s \in Serv
               PROVE  Cardinality({p \in Proc : proc[p].serv = s}) <= 1
    BY DEF OneInstance
  <2> DEFINE S == {p \in Proc : proc[p].serv = s}
  <2>1. \A a, b \in S : a = b
    BY DEF IInv, Unique
  <2> HIDE DEF S
  <2>2. Cardinality(S) <= 1
    BY <2>1, AtMostOne
  <2> QED
    BY <2>2 DEF S
<1> QED
  BY <1>1, MgrInvariant, PTL

\* sg_serv_monitor never brings back a service that was stopped from the command line:
\* only the restart of its group does, when it is due.
THEOREM AdminStopsStick == Spec => AdminStopSticks
<1>1. IInv /\ [Next]_vars => [Sticks]_vars
  BY NextInv
<1> QED
  BY <1>1, MgrInvariant, PTL DEF Spec, AdminStopSticks, Sticks

=============================================================================
