--------------------------- MODULE FeedProcessProofs ---------------------------
(***************************************************************************)
(* Two processes with their threads.                                       *)
(*                                                                         *)
(* ProcInv is an inductive invariant of a feed handler process, for every  *)
(* configuration of lines and connections and for any number of packets,   *)
(* failing calls and requests: what the line handler has handed on is not  *)
(* forgotten, its counters are off only where a clear raced an increment,  *)
(* and a settled status response is complete.                              *)
(*                                                                         *)
(* ThreadInv is one of an ARCA process (Arca, at the end of the module),   *)
(* whatever its lines receive: the permit of its start is in one place,    *)
(* and the main thread is where the other two allow.  CopyInv is one of    *)
(* its line: the window is exact and nothing is published twice.           *)
(***************************************************************************)
EXTENDS FeedProcess, Arca, FiniteSetTheorems, TLAPS

-----------------------------------------------------------------------------
(* What a step that leaves a part of the state alone preserves.             *)

\* A thread that goes on leaves the other two where they are.
LEMMA GotoOthers ==
  ASSUME TypeOK, NEW t \in {"main", "lh", "mgmt"}, NEW from, NEW to, Goto(t, from, to)
  PROVE  /\ pc[t] = from /\ pc'[t] = to
         /\ t # "main" => pc'.main = pc.main
         /\ t # "lh" => pc'.lh = pc.lh
         /\ t # "mgmt" => pc'.mgmt = pc.mgmt
  BY DEF TypeOK, Goto

\* The place a thread goes to is one of its places.
LEMMA GotoType ==
  ASSUME TypeOK, NEW t \in {"main", "lh", "mgmt"}, NEW from, NEW to, Goto(t, from, to),
         t = "main" => to \in MainPc, t = "lh" => to \in LhPc, t = "mgmt" => to \in MgmtPc
  PROVE  pc' \in [main : MainPc, lh : LhPc, mgmt : MgmtPc]
  BY DEF TypeOK, Goto

\* The select call counts finitely many sockets.
LEMMA ReadyFinite == ASSUME TypeOK PROVE Cardinality(Ready) \in Nat
  <1>1. IsFiniteSet(1..NumLines)
    BY ProcessAssumption, FS_Interval
  <1>2. IsFiniteSet(Side)
    <2>1. IsFiniteSet({"primary"})
      BY FS_Singleton
    <2> QED
      BY <2>1, FS_AddElement DEF Side
  <1>3. IsFiniteSet((1..NumLines) \X Side)
    BY <1>1, <1>2, FS_Product
  <1>4. IsFiniteSet(Ready)
    BY <1>3, FS_Subset, ProcessAssumption DEF Ready
  <1> QED
    BY <1>4, FS_CardinalityType

\* Counters nobody writes stay exact.
LEMMA KeepsCounters ==
  ASSUME CountersExact, UNCHANGED <<packets, since, raced>> PROVE CountersExact'
  BY DEF CountersExact

\* The flush is owed as before while the line handler does not move.
LEMMA KeepsFlush ==
  ASSUME FlushInv, UNCHANGED <<to_publish, pending, unlucky>>, pc'.lh = pc.lh PROVE FlushInv'
  BY DEF FlushInv

\* The line in hand stays the same while the line handler does not move.
LEMMA KeepsLine ==
  ASSUME InLine, UNCHANGED <<loop, raced, loaded, packets>>, pc'.lh = pc.lh PROVE InLine'
  BY DEF InLine

\* The status stays complete while the other two threads do not move.
LEMMA KeepsStatus ==
  ASSUME StatusInv, UNCHANGED <<proc_info, answer>>, pc'.main = pc.main, pc'.mgmt = pc.mgmt
  PROVE  StatusInv'
  BY DEF StatusInv

\* The line handler and the management thread do not start themselves.
LEMMA KeepsStarted ==
  ASSUME Started, pc'.main = pc.main, pc.lh = pc'.lh \/ pc.lh # "off",
         pc.mgmt = pc'.mgmt \/ pc.mgmt # "off"
  PROVE  Started'
  BY DEF Started

-----------------------------------------------------------------------------
(* The three threads, one step per action.                                  *)

\* main starts the threads, fills in proc_info and joins them.
LEMMA MainStep == ASSUME ProcInv, Main PROVE ProcInv'
  <1> USE DEF ProcInv, loopVars, statVars, mgrVars, infoVars
  <1>1. CASE MainStartLh
    <2>1. /\ pc' \in [main : MainPc, lh : LhPc, mgmt : MgmtPc]
          /\ pc.main = "lh_start" /\ pc'.main \in {"failed", "mgmt_start"}
          /\ pc'.lh \in {pc.lh, "boot"} /\ pc'.mgmt = pc.mgmt
      BY <1>1 DEF MainStartLh, Goto, TypeOK, MainPc, LhPc
    <2>2. TypeOK'
      BY <1>1, <2>1 DEF TypeOK, MainStartLh, MainPc, LhPc
    <2>3. CountersExact'
      BY <1>1, <2>1, KeepsCounters DEF MainStartLh
    <2>4. Started'
      BY <1>1, <2>1 DEF Started, MainStartLh
    <2>5. InLine'
      BY <1>1, <2>1 DEF InLine, MainStartLh, Counting
    <2>6. FlushInv'
      BY <1>1, <2>1 DEF FlushInv, MainStartLh, Started
    <2>7. StatusInv'
      BY <1>1, <2>1 DEF StatusInv, MainStartLh
    <2> QED
      BY <2>2, <2>3, <2>4, <2>5, <2>6, <2>7
  <1>2. CASE MainStartMgmt
    <2>1. /\ pc' \in [main : MainPc, lh : LhPc, mgmt : MgmtPc]
          /\ pc.main = "mgmt_start" /\ pc'.main \in {"failed", "fill"}
          /\ pc'.lh = pc.lh /\ pc'.mgmt \in {pc.mgmt, "test"}
      BY <1>2 DEF MainStartMgmt, Goto, TypeOK, MainPc, MgmtPc
    <2>2. TypeOK'
      BY <1>2, <2>1 DEF TypeOK, MainStartMgmt, MainPc, MgmtPc
    <2>3. InLine' /\ CountersExact' /\ FlushInv'
      BY <1>2, <2>1, KeepsLine, KeepsCounters, KeepsFlush DEF MainStartMgmt
    <2>4. Started'
      BY <1>2, <2>1 DEF Started, MainStartMgmt
    <2>5. StatusInv'
      BY <1>2, <2>1 DEF StatusInv, MainStartMgmt, Started
    <2> QED
      BY <2>2, <2>3, <2>4, <2>5
  <1>3. CASE MainFill
    <2>1. Goto("main", "fill", "tid")
      BY <1>3 DEF MainFill
    <2>2. /\ pc.main = "fill" /\ pc'.main = "tid"
          /\ pc'.lh = pc.lh /\ pc'.mgmt = pc.mgmt
      BY <2>1, GotoOthers
    <2>3. TypeOK'
      BY <1>3, <2>2, <2>1, GotoType DEF TypeOK, MainFill, MainPc
    <2>4. InLine' /\ CountersExact' /\ FlushInv'
      BY <1>3, <2>2, KeepsLine, KeepsCounters, KeepsFlush DEF MainFill
    <2>5. Started'
      BY <1>3, <2>2 DEF Started, MainFill
    <2>6. StatusInv'
      BY <1>3, <2>2 DEF StatusInv, MainFill, TypeOK
    <2> QED
      BY <2>3, <2>4, <2>5, <2>6
  <1>4. CASE MainTid
    <2>1. Goto("main", "tid", "join_mgmt")
      BY <1>4 DEF MainTid
    <2>2. /\ pc.main = "tid" /\ pc'.main = "join_mgmt"
          /\ pc'.lh = pc.lh /\ pc'.mgmt = pc.mgmt
      BY <2>1, GotoOthers
    <2>3. UNCHANGED <<finished, queue, loop, to_publish, pending, unlucky, packets, loaded, since,
                     raced, mcl_fd, connected, to_clear, lh_tid, answer>>
      BY <1>4, <2>2 DEF TypeOK, MainTid
    <2>4. fetched' \in BOOLEAN
      BY <1>4, <2>2 DEF TypeOK, MainTid
    <2>5. pc' \in [main : MainPc, lh : LhPc, mgmt : MgmtPc]
      BY <1>4, <2>2, <2>1, GotoType DEF TypeOK, MainTid, MainPc
    <2>6. proc_info' \in [pid : BOOLEAN, tid : BOOLEAN]
      BY <1>4, <2>2, Zenon DEF TypeOK, MainTid
    <2>7. TypeOK'
      BY <2>3, <2>4, <2>5, <2>6, SMT DEF TypeOK
    <2>8. InLine' /\ CountersExact' /\ FlushInv'
      BY <1>4, <2>2, KeepsLine, KeepsCounters, KeepsFlush DEF MainTid
    <2>9. Started'
      BY <1>4, <2>2 DEF Started, MainTid
    <2>10. StatusInv'
      BY <1>4, <2>2 DEF StatusInv, MainTid, TypeOK
    <2> QED
      BY <2>7, <2>8, <2>9, <2>10
  <1>5. CASE MainJoin
    <2>1. /\ pc' \in [main : MainPc, lh : LhPc, mgmt : MgmtPc]
          /\ pc.main \in {"join_mgmt", "join_lh"} /\ pc'.main \in {"join_lh", "done"}
          /\ pc'.lh = pc.lh /\ pc'.mgmt = pc.mgmt
      BY <1>5 DEF MainJoin, Goto, TypeOK, MainPc
    <2>2. TypeOK'
      BY <1>5, <2>1 DEF TypeOK, MainJoin, MainPc
    <2>3. InLine' /\ CountersExact' /\ FlushInv'
      BY <1>5, <2>1, KeepsLine, KeepsCounters, KeepsFlush DEF MainJoin
    <2>4. Started'
      BY <1>5, <2>1 DEF Started, MainJoin
    <2>5. StatusInv'
      BY <1>5, <2>1 DEF StatusInv, MainJoin
    <2> QED
      BY <2>2, <2>3, <2>4, <2>5
  <1> QED
    BY <1>1, <1>2, <1>3, <1>4, <1>5 DEF Main

\* The line handler selects, reads, counts, parses and flushes.
LEMMA LhStep == ASSUME ProcInv, Lh PROVE ProcInv'
  <1> USE DEF ProcInv, loopVars, statVars, mgrVars, infoVars
  <1>1. CASE LhBoot
    <2>1. Goto("lh", "boot", "test")
      BY <1>1 DEF LhBoot
    <2>2. /\ pc.lh = "boot" /\ pc'.lh = "test"
          /\ pc'.main = pc.main /\ pc'.mgmt = pc.mgmt
      BY <2>1, GotoOthers
    <2>3. TypeOK'
      BY <1>1, <2>2, <2>1, GotoType DEF TypeOK, LhBoot, LhPc
    <2>4. Started' /\ CountersExact' /\ StatusInv'
      BY <1>1, <2>2, KeepsStarted, KeepsCounters, KeepsStatus DEF LhBoot
    <2>5. InLine'
      BY <1>1, <2>2 DEF InLine, LhBoot, Counting, Side
    <2>6. FlushInv'
      BY <1>1, <2>2 DEF FlushInv, LhBoot
    <2> QED
      BY <2>3, <2>4, <2>5, <2>6
  <1>2. CASE LhTest
    <2>1. Goto("lh", "test", IF finished.lh THEN "done" ELSE "select")
      BY <1>2 DEF LhTest
    <2>2. /\ pc.lh = "test" /\ pc'.lh = IF finished.lh THEN "done" ELSE "select"
          /\ pc'.main = pc.main /\ pc'.mgmt = pc.mgmt
      BY <2>1, GotoOthers
    <2>3. TypeOK'
      BY <1>2, <2>2, <2>1, GotoType DEF TypeOK, LhTest, LhPc
    <2>4. Started' /\ CountersExact' /\ StatusInv'
      BY <1>2, <2>2, KeepsStarted, KeepsCounters, KeepsStatus DEF LhTest
    <2>5. InLine'
      BY <1>2, <2>2 DEF InLine, LhTest, Counting, Side
    <2>6. FlushInv'
      BY <1>2, <2>2 DEF FlushInv, LhTest
    <2> QED
      BY <2>3, <2>4, <2>5, <2>6
  <1>3. CASE LhSelect
    <2>1. Goto("lh", "select", "line")
      BY <1>3 DEF LhSelect
    <2>2. /\ pc.lh = "select" /\ pc'.lh = "line"
          /\ pc'.main = pc.main /\ pc'.mgmt = pc.mgmt
      BY <2>1, GotoOthers
    <2>3. TypeOK'
      BY <1>3, <2>2, <2>1, GotoType, ReadyFinite, ProcessAssumption
         DEF TypeOK, LhSelect, LhPc, Ready
    <2>4. Started' /\ CountersExact' /\ StatusInv'
      BY <1>3, <2>2, KeepsStarted, KeepsCounters, KeepsStatus DEF LhSelect
    <2>5. InLine'
      BY <1>3, <2>2 DEF InLine, LhSelect, Counting, Side
    <2>6. FlushInv'
      BY <1>3, <2>2 DEF FlushInv, LhSelect
    <2> QED
      BY <2>3, <2>4, <2>5, <2>6
  <1>4. CASE LhSelectEmpty
    <2>1. Goto("lh", "select", "test")
      BY <1>4 DEF LhSelectEmpty
    <2>2. /\ pc.lh = "select" /\ pc'.lh = "test"
          /\ pc'.main = pc.main /\ pc'.mgmt = pc.mgmt
      BY <2>1, GotoOthers
    <2>3. TypeOK'
      BY <1>4, <2>2, <2>1, GotoType DEF TypeOK, LhSelectEmpty, LhPc
    <2>4. Started' /\ CountersExact' /\ StatusInv'
      BY <1>4, <2>2, KeepsStarted, KeepsCounters, KeepsStatus DEF LhSelectEmpty
    <2>5. InLine'
      BY <1>4, <2>2 DEF InLine, LhSelectEmpty, Counting, Side
    <2>6. FlushInv'
      BY <1>4, <2>2 DEF FlushInv, LhSelectEmpty
    <2> QED
      BY <2>3, <2>4, <2>5, <2>6
  <1>5. CASE LhLoopEnds
    <2>1. Goto("lh", "line", "test")
      BY <1>5 DEF LhLoopEnds
    <2>2. /\ pc.lh = "line" /\ pc'.lh = "test"
          /\ pc'.main = pc.main /\ pc'.mgmt = pc.mgmt
      BY <2>1, GotoOthers
    <2>3. TypeOK'
      BY <1>5, <2>2, <2>1, GotoType, ProcessAssumption DEF TypeOK, LhLoopEnds, LhPc, NoLoop
    <2>4. Started' /\ CountersExact' /\ StatusInv'
      BY <1>5, <2>2, KeepsStarted, KeepsCounters, KeepsStatus DEF LhLoopEnds
    <2>5. InLine'
      BY <1>5, <2>2 DEF InLine, LhLoopEnds, Counting, Side
    <2>6. FlushInv'
      BY <1>5, <2>2 DEF FlushInv, LhLoopEnds
    <2> QED
      BY <2>3, <2>4, <2>5, <2>6
  <1>6. CASE LhSkipLine
    <2>1. Goto("lh", "line", "line")
      BY <1>6 DEF LhSkipLine
    <2>2. /\ pc.lh = "line" /\ pc'.lh = "line"
          /\ pc'.main = pc.main /\ pc'.mgmt = pc.mgmt
      BY <2>1, GotoOthers
    <2>3. TypeOK'
      BY <1>6, <2>2, <2>1, GotoType, ProcessAssumption
         DEF TypeOK, LhSkipLine, LhPc, AtLine, NextLine
    <2>4. Started' /\ CountersExact' /\ StatusInv'
      BY <1>6, <2>2, KeepsStarted, KeepsCounters, KeepsStatus DEF LhSkipLine
    <2>5. InLine'
      BY <1>6, <2>2 DEF InLine, LhSkipLine, Counting, Side
    <2>6. FlushInv'
      BY <1>6, <2>2 DEF FlushInv, LhSkipLine
    <2> QED
      BY <2>3, <2>4, <2>5, <2>6
  <1>7. CASE LhEnterLine
    <2>1. Goto("lh", "line", "primary")
      BY <1>7 DEF LhEnterLine
    <2>2. /\ pc.lh = "line" /\ pc'.lh = "primary"
          /\ pc'.main = pc.main /\ pc'.mgmt = pc.mgmt
      BY <2>1, GotoOthers
    <2>3. TypeOK'
      BY <1>7, <2>2, <2>1, GotoType DEF TypeOK, LhEnterLine, LhPc
    <2>4. Started' /\ CountersExact' /\ StatusInv'
      BY <1>7, <2>2, KeepsStarted, KeepsCounters, KeepsStatus DEF LhEnterLine
    <2>5. InLine'
      BY <1>7, <2>2, ProcessAssumption DEF InLine, LhEnterLine, Counting, Side, AtLine, TypeOK
    <2>6. FlushInv'
      BY <1>7, <2>2 DEF FlushInv, LhEnterLine
    <2> QED
      BY <2>3, <2>4, <2>5, <2>6
  <1>8. CASE LhFlush
    <2>1. Goto("lh", "flush", "line")
      BY <1>8 DEF LhFlush
    <2>2. /\ pc.lh = "flush" /\ pc'.lh = "line"
          /\ pc'.main = pc.main /\ pc'.mgmt = pc.mgmt
      BY <2>1, GotoOthers
    <2>3. UNCHANGED <<finished, queue, packets, loaded, since, raced, mcl_fd, connected, to_clear,
                     lh_tid, proc_info, fetched, answer>>
      BY <1>8, <2>2 DEF TypeOK, LhFlush
    <2>4. to_publish' \in BOOLEAN
      BY <1>8, <2>2 DEF TypeOK, LhFlush
    <2>5. pc' \in [main : MainPc, lh : LhPc, mgmt : MgmtPc]
      BY <1>8, <2>2, <2>1, GotoType DEF TypeOK, LhFlush, LhPc
    <2>6. loop' \in [line : 1..(NumLines + 1), count : Int, set : SUBSET Enabled]
      BY <1>8, <2>2, ProcessAssumption DEF TypeOK, LhFlush, InLine, NextLine
    <2>7. pending' \in BOOLEAN /\ unlucky' \in BOOLEAN
      BY <1>8, <2>2, Zenon DEF TypeOK, LhFlush
    <2>8. TypeOK'
      BY ProcessAssumption, <2>3, <2>4, <2>5, <2>6, <2>7, SMT DEF TypeOK
    <2>9. Started' /\ CountersExact' /\ StatusInv'
      BY <1>8, <2>2, KeepsStarted, KeepsCounters, KeepsStatus DEF LhFlush
    <2>10. InLine'
      BY <1>8, <2>2 DEF InLine, LhFlush, Counting, Side, TypeOK
    <2>11. FlushInv'
      BY <1>8, <2>2 DEF FlushInv, LhFlush, TypeOK
    <2> QED
      BY <2>8, <2>9, <2>10, <2>11
  <1>9. ASSUME NEW side \in Side, LhPassOver(side) PROVE ProcInv'
    <2>1. Goto("lh", side, After(side))
      BY <1>9 DEF LhPassOver
    <2>2. /\ pc.lh = side /\ pc'.lh = After(side)
          /\ pc'.main = pc.main /\ pc'.mgmt = pc.mgmt
      BY <2>1, GotoOthers
    <2>3. TypeOK'
      BY <1>9, <2>2, <2>1, GotoType DEF TypeOK, LhPassOver, LhPc, Side, After
    <2>4. Started' /\ CountersExact' /\ StatusInv'
      BY <1>9, <2>2, KeepsStarted, KeepsCounters, KeepsStatus DEF LhPassOver, Side
    <2>5. InLine'
      BY <1>9, <2>2 DEF InLine, LhPassOver, Counting, Side, After
    <2>6. FlushInv'
      BY <1>9, <2>2 DEF FlushInv, LhPassOver, Side, After
    <2> QED
      BY <2>3, <2>4, <2>5, <2>6
  <1>10. ASSUME NEW side \in Side, LhReadFails(side) PROVE ProcInv'
    <2>1. Goto("lh", side, "line")
      BY <1>10 DEF LhReadFails
    <2>2. /\ pc.lh = side /\ pc'.lh = "line"
          /\ pc'.main = pc.main /\ pc'.mgmt = pc.mgmt
      BY <2>1, GotoOthers
    <2>3. TypeOK'
      BY <1>10, <2>2, <2>1, GotoType, ProcessAssumption
         DEF TypeOK, LhReadFails, LhPc, Side, NextLine, InLine
    <2>4. Started' /\ CountersExact' /\ StatusInv'
      BY <1>10, <2>2, KeepsStarted, KeepsCounters, KeepsStatus DEF LhReadFails, Side
    <2>5. InLine'
      BY <1>10, <2>2 DEF InLine, LhReadFails, Counting, Side
    <2>6. FlushInv'
      BY <1>10, <2>2 DEF FlushInv, LhReadFails, TypeOK
    <2> QED
      BY <2>3, <2>4, <2>5, <2>6
  <1>11. ASSUME NEW side \in Side, LhRead(side) PROVE ProcInv'
    <2>1. Goto("lh", side, Counting(side))
      BY <1>11 DEF LhRead
    <2>2. /\ pc.lh = side /\ pc'.lh = Counting(side)
          /\ pc'.main = pc.main /\ pc'.mgmt = pc.mgmt
      BY <2>1, GotoOthers
    <2>3. TypeOK'
      BY <1>11, <2>2, <2>1, GotoType DEF TypeOK, LhRead, LhPc, Side, Counting, Isset
    <2>4. Started' /\ CountersExact' /\ StatusInv'
      BY <1>11, <2>2, KeepsStarted, KeepsCounters, KeepsStatus DEF LhRead, Side
    <2>5. InLine'
      BY <1>11, <2>2 DEF InLine, LhRead, Counting, Side, Isset, TypeOK
    <2>6. FlushInv'
      BY <1>11, <2>2 DEF FlushInv, LhRead, Counting, Side
    <2> QED
      BY <2>3, <2>4, <2>5, <2>6
  <1>12. ASSUME NEW side \in Side, LhParse(side) PROVE ProcInv'
    <2>1. Goto("lh", Counting(side), After(side))
      BY <1>12 DEF LhParse
    <2>2. /\ pc.lh = Counting(side) /\ pc'.lh = After(side)
          /\ pc'.main = pc.main /\ pc'.mgmt = pc.mgmt
      BY <2>1, GotoOthers
    <2>3. <<loop.line, side>> \in Enabled
      BY <1>12, <2>2 DEF TypeOK, LhParse, InLine
    <2>4. packets' \in [Enabled -> Nat] /\ since' \in [Enabled -> Nat]
      BY <1>12, <2>2, <2>3 DEF TypeOK, LhParse
    <2>5. pending' \in BOOLEAN /\ to_publish' \in BOOLEAN /\ unlucky' \in BOOLEAN
      BY <1>12, <2>2 DEF TypeOK, LhParse
    <2>6. TypeOK'
      BY <1>12, <2>2, <2>1, GotoType, <2>3, <2>4, <2>5
         DEF TypeOK, LhParse, LhPc, Side, After, InLine
    <2>7. Started' /\ StatusInv'
      BY <1>12, <2>2, KeepsStarted, KeepsStatus DEF LhParse, Counting
    <2>8. InLine'
      BY <1>12, <2>2 DEF InLine, LhParse, Counting, Side, After, TypeOK
    <2>9. CountersExact'
      BY <1>12, <2>2 DEF CountersExact, LhParse, InLine, TypeOK
    <2>10. FlushInv'
      BY <1>12, <2>2 DEF FlushInv, LhParse, After, Counting, Side, TypeOK
    <2> QED
      BY <2>6, <2>7, <2>8, <2>9, <2>10
  <1> QED
    BY <1>1, <1>2, <1>3, <1>4, <1>5, <1>6, <1>7, <1>8, <1>9, <1>10, <1>11, <1>12 DEF Lh

\* The management thread connects, and serves requests.
LEMMA MgmtStep == ASSUME ProcInv, Mgmt PROVE ProcInv'
  <1> USE DEF ProcInv, loopVars, statVars, mgrVars, infoVars
  <1>1. CASE MgmtTest
    <2>1. Goto("mgmt", "test", (IF finished.mgmt THEN "done"
                          ELSE IF mcl_fd = -1 THEN "sleep"
                          ELSE IF connected <= 0 THEN "init" ELSE "serve"))
      BY <1>1 DEF MgmtTest
    <2>2. /\ pc.mgmt = "test" /\ pc'.mgmt = (IF finished.mgmt THEN "done"
                          ELSE IF mcl_fd = -1 THEN "sleep"
                          ELSE IF connected <= 0 THEN "init" ELSE "serve")
          /\ pc'.main = pc.main /\ pc'.lh = pc.lh
      BY <2>1, GotoOthers
    <2>3. TypeOK'
      BY <1>1, <2>2, <2>1, GotoType DEF TypeOK, MgmtTest, MgmtPc
    <2>4. Started' /\ InLine' /\ CountersExact' /\ FlushInv'
      BY <1>1, <2>2, KeepsStarted, KeepsLine, KeepsCounters, KeepsFlush DEF MgmtTest
    <2>5. StatusInv'
      BY <1>1, <2>2 DEF StatusInv, MgmtTest
    <2> QED
      BY <2>3, <2>4, <2>5
  <1>2. CASE MgmtSleep
    <2>1. Goto("mgmt", "sleep", "test")
      BY <1>2 DEF MgmtSleep
    <2>2. /\ pc.mgmt = "sleep" /\ pc'.mgmt = "test"
          /\ pc'.main = pc.main /\ pc'.lh = pc.lh
      BY <2>1, GotoOthers
    <2>3. TypeOK'
      BY <1>2, <2>2, <2>1, GotoType DEF TypeOK, MgmtSleep, MgmtPc
    <2>4. Started' /\ InLine' /\ CountersExact' /\ FlushInv'
      BY <1>2, <2>2, KeepsStarted, KeepsLine, KeepsCounters, KeepsFlush DEF MgmtSleep
    <2>5. StatusInv'
      BY <1>2, <2>2 DEF StatusInv, MgmtSleep
    <2> QED
      BY <2>3, <2>4, <2>5
  <1>3. CASE MgmtConnectFails
    <2>1. Goto("mgmt", "init", "test")
      BY <1>3 DEF MgmtConnectFails
    <2>2. /\ pc.mgmt = "init" /\ pc'.mgmt = "test"
          /\ pc'.main = pc.main /\ pc'.lh = pc.lh
      BY <2>1, GotoOthers
    <2>3. TypeOK'
      BY <1>3, <2>2, <2>1, GotoType DEF TypeOK, MgmtConnectFails, MgmtPc
    <2>4. Started' /\ InLine' /\ CountersExact' /\ FlushInv'
      BY <1>3, <2>2, KeepsStarted, KeepsLine, KeepsCounters, KeepsFlush DEF MgmtConnectFails
    <2>5. StatusInv'
      BY <1>3, <2>2 DEF StatusInv, MgmtConnectFails
    <2> QED
      BY <2>3, <2>4, <2>5
  <1>4. CASE MgmtConnect
    <2>1. Goto("mgmt", "init", "register")
      BY <1>4 DEF MgmtConnect
    <2>2. /\ pc.mgmt = "init" /\ pc'.mgmt = "register"
          /\ pc'.main = pc.main /\ pc'.lh = pc.lh
      BY <2>1, GotoOthers
    <2>3. TypeOK'
      BY <1>4, <2>2, <2>1, GotoType DEF TypeOK, MgmtConnect, MgmtPc
    <2>4. Started' /\ InLine' /\ CountersExact' /\ FlushInv'
      BY <1>4, <2>2, KeepsStarted, KeepsLine, KeepsCounters, KeepsFlush DEF MgmtConnect
    <2>5. StatusInv'
      BY <1>4, <2>2 DEF StatusInv, MgmtConnect
    <2> QED
      BY <2>3, <2>4, <2>5
  <1>5. CASE MgmtRegisterFails
    <2>1. Goto("mgmt", "register", "test")
      BY <1>5 DEF MgmtRegisterFails
    <2>2. /\ pc.mgmt = "register" /\ pc'.mgmt = "test"
          /\ pc'.main = pc.main /\ pc'.lh = pc.lh
      BY <2>1, GotoOthers
    <2>3. TypeOK'
      BY <1>5, <2>2, <2>1, GotoType DEF TypeOK, MgmtRegisterFails, MgmtPc
    <2>4. Started' /\ InLine' /\ CountersExact' /\ FlushInv'
      BY <1>5, <2>2, KeepsStarted, KeepsLine, KeepsCounters, KeepsFlush DEF MgmtRegisterFails
    <2>5. StatusInv'
      BY <1>5, <2>2 DEF StatusInv, MgmtRegisterFails
    <2> QED
      BY <2>3, <2>4, <2>5
  <1>6. CASE MgmtRegister
    <2>1. Goto("mgmt", "register", "test")
      BY <1>6 DEF MgmtRegister
    <2>2. /\ pc.mgmt = "register" /\ pc'.mgmt = "test"
          /\ pc'.main = pc.main /\ pc'.lh = pc.lh
      BY <2>1, GotoOthers
    <2>3. TypeOK'
      BY <1>6, <2>2, <2>1, GotoType DEF TypeOK, MgmtRegister, MgmtPc
    <2>4. Started' /\ InLine' /\ CountersExact' /\ FlushInv'
      BY <1>6, <2>2, KeepsStarted, KeepsLine, KeepsCounters, KeepsFlush DEF MgmtRegister
    <2>5. StatusInv'
      BY <1>6, <2>2 DEF StatusInv, MgmtRegister
    <2> QED
      BY <2>3, <2>4, <2>5
  <1>7. CASE MgmtServed
    <2>1. Goto("mgmt", "serve", "test")
      BY <1>7 DEF MgmtServed
    <2>2. /\ pc.mgmt = "serve" /\ pc'.mgmt = "test"
          /\ pc'.main = pc.main /\ pc'.lh = pc.lh
      BY <2>1, GotoOthers
    <2>3. TypeOK'
      BY <1>7, <2>2, <2>1, GotoType DEF TypeOK, MgmtServed, MgmtPc
    <2>4. Started' /\ InLine' /\ CountersExact' /\ FlushInv'
      BY <1>7, <2>2, KeepsStarted, KeepsLine, KeepsCounters, KeepsFlush DEF MgmtServed
    <2>5. StatusInv'
      BY <1>7, <2>2 DEF StatusInv, MgmtServed
    <2> QED
      BY <2>3, <2>4, <2>5
  <1>8. CASE MgmtCleared
    <2>1. Goto("mgmt", "clear", "serve")
      BY <1>8 DEF MgmtCleared
    <2>2. /\ pc.mgmt = "clear" /\ pc'.mgmt = "serve"
          /\ pc'.main = pc.main /\ pc'.lh = pc.lh
      BY <2>1, GotoOthers
    <2>3. TypeOK'
      BY <1>8, <2>2, <2>1, GotoType DEF TypeOK, MgmtCleared, MgmtPc
    <2>4. Started' /\ InLine' /\ CountersExact' /\ FlushInv'
      BY <1>8, <2>2, KeepsStarted, KeepsLine, KeepsCounters, KeepsFlush DEF MgmtCleared
    <2>5. StatusInv'
      BY <1>8, <2>2 DEF StatusInv, MgmtCleared
    <2> QED
      BY <2>3, <2>4, <2>5
  <1>9. CASE MgmtStop
    <2>1. Goto("mgmt", "stop", "serve")
      BY <1>9 DEF MgmtStop
    <2>2. /\ pc.mgmt = "stop" /\ pc'.mgmt = "serve"
          /\ pc'.main = pc.main /\ pc'.lh = pc.lh
      BY <2>1, GotoOthers
    <2>3. TypeOK'
      BY <1>9, <2>2, <2>1, GotoType DEF TypeOK, MgmtStop, MgmtPc, Exit
    <2>4. Started' /\ InLine' /\ CountersExact' /\ FlushInv'
      BY <1>9, <2>2, KeepsStarted, KeepsLine, KeepsCounters, KeepsFlush DEF MgmtStop
    <2>5. StatusInv'
      BY <1>9, <2>2 DEF StatusInv, MgmtStop
    <2> QED
      BY <2>3, <2>4, <2>5
  <1>10. CASE MgmtStatus
    <2>1. Goto("mgmt", "status", "reply")
      BY <1>10 DEF MgmtStatus
    <2>2. /\ pc.mgmt = "status" /\ pc'.mgmt = "reply"
          /\ pc'.main = pc.main /\ pc'.lh = pc.lh
      BY <2>1, GotoOthers
    <2>3. proc_info' \in [pid : BOOLEAN, tid : BOOLEAN]
      BY <1>10, <2>2, Zenon DEF TypeOK, MgmtStatus
    <2>4. Settled \in BOOLEAN
      BY <1>10, <2>2, Zenon DEF TypeOK, MgmtStatus, Settled
    <2>5. answer' \in [settled : BOOLEAN, pid : BOOLEAN, tid : BOOLEAN]
      BY <1>10, <2>2, <2>4 DEF TypeOK, MgmtStatus
    <2>6. TypeOK'
      BY <1>10, <2>2, <2>1, GotoType, <2>3, <2>4, <2>5 DEF TypeOK, MgmtStatus, MgmtPc
    <2>7. Started' /\ InLine' /\ CountersExact' /\ FlushInv'
      BY <1>10, <2>2, KeepsStarted, KeepsLine, KeepsCounters, KeepsFlush DEF MgmtStatus
    <2>8. StatusInv'
      BY <1>10, <2>2 DEF StatusInv, MgmtStatus, Settled, TypeOK
    <2> QED
      BY <2>6, <2>7, <2>8
  <1>11. CASE MgmtReply
    <2>1. Goto("mgmt", "reply", "serve")
      BY <1>11 DEF MgmtReply
    <2>2. /\ pc.mgmt = "reply" /\ pc'.mgmt = "serve"
          /\ pc'.main = pc.main /\ pc'.lh = pc.lh
      BY <2>1, GotoOthers
    <2>3. UNCHANGED <<finished, queue, loop, to_publish, pending, unlucky, packets, loaded, since,
                     raced, mcl_fd, connected, to_clear, lh_tid, proc_info, fetched>>
      BY <1>11, <2>2 DEF TypeOK, MgmtReply
    <2>4. pc' \in [main : MainPc, lh : LhPc, mgmt : MgmtPc]
      BY <1>11, <2>2, <2>1, GotoType DEF TypeOK, MgmtReply, MgmtPc
    <2>5. answer' \in [settled : BOOLEAN, pid : BOOLEAN, tid : BOOLEAN]
      BY <1>11, <2>2, Zenon DEF TypeOK, MgmtReply
    <2>6. TypeOK'
      BY <2>3, <2>4, <2>5, SMT DEF TypeOK
    <2>7. Started' /\ InLine' /\ CountersExact' /\ FlushInv'
      BY <1>11, <2>2, KeepsStarted, KeepsLine, KeepsCounters, KeepsFlush DEF MgmtReply
    <2>8. StatusInv'
      BY <1>11, <2>2 DEF StatusInv, MgmtReply, TypeOK
    <2> QED
      BY <2>6, <2>7, <2>8
  <1>12. ASSUME NEW r \in {"read", "clear", "stop", "status"}, MgmtRequest(r) PROVE ProcInv'
    <2>1. Goto("mgmt", "serve", IF r = "read" THEN "serve" ELSE r)
      BY <1>12 DEF MgmtRequest
    <2>2. /\ pc.mgmt = "serve" /\ pc'.mgmt = IF r = "read" THEN "serve" ELSE r
          /\ pc'.main = pc.main /\ pc'.lh = pc.lh
      BY <2>1, GotoOthers
    <2>3. TypeOK'
      BY <1>12, <2>2, <2>1, GotoType DEF TypeOK, MgmtRequest, MgmtPc, Spend
    <2>4. Started' /\ InLine' /\ CountersExact' /\ FlushInv'
      BY <1>12, <2>2, KeepsStarted, KeepsLine, KeepsCounters, KeepsFlush DEF MgmtRequest
    <2>5. StatusInv'
      BY <1>12, <2>2 DEF StatusInv, MgmtRequest
    <2> QED
      BY <2>3, <2>4, <2>5
  <1>13. ASSUME NEW c \in to_clear, MgmtClear(c) PROVE ProcInv'
    <2>1. Goto("mgmt", "clear", "clear")
      BY <1>13 DEF MgmtClear
    <2>2. /\ pc.mgmt = "clear" /\ pc'.mgmt = "clear"
          /\ pc'.main = pc.main /\ pc'.lh = pc.lh
      BY <2>1, GotoOthers
    <2>3. TypeOK'
      BY <1>13, <2>2, <2>1, GotoType DEF TypeOK, MgmtClear, MgmtPc
    <2>4. Started' /\ FlushInv'
      BY <1>13, <2>2, KeepsStarted, KeepsFlush DEF MgmtClear
    <2>5. InLine'
      BY <1>13, <2>2 DEF InLine, MgmtClear, MidCount, TypeOK
    <2>6. CountersExact'
      BY <1>13, <2>2 DEF CountersExact, MgmtClear, TypeOK
    <2>7. StatusInv'
      BY <1>13, <2>2 DEF StatusInv, MgmtClear
    <2> QED
      BY <2>3, <2>4, <2>5, <2>6, <2>7
  <1> QED
    BY <1>1, <1>2, <1>3, <1>4, <1>5, <1>6, <1>7, <1>8, <1>9, <1>10, <1>11, <1>12, <1>13 DEF Mgmt

-----------------------------------------------------------------------------
(* The environment, and the invariant.                                      *)

\* A signal only sets the flags; a packet only waits in its socket.
LEMMA OutsideStep ==
  ASSUME ProcInv, Signal \/ \E c \in Enabled : Arrive(c) PROVE ProcInv'
  <1> USE DEF ProcInv, loopVars, statVars, mgrVars, infoVars
  <1>1. UNCHANGED <<pc, loop, to_publish, pending, unlucky, packets, loaded, since, raced,
                    mcl_fd, connected, to_clear, lh_tid, proc_info, fetched, answer>>
    BY DEF Signal, Arrive
  <1>2. finished' \in [lh : BOOLEAN, mgmt : BOOLEAN] /\ queue' \in [Enabled -> Int]
    <2>1. CASE Signal
      BY <2>1 DEF TypeOK, Signal, Exit
    <2>2. ASSUME NEW c \in Enabled, Arrive(c)
          PROVE  finished' \in [lh : BOOLEAN, mgmt : BOOLEAN] /\ queue' \in [Enabled -> Int]
      BY <2>2 DEF TypeOK, Arrive
    <2> QED
      BY <2>1, <2>2
  <1>3. TypeOK'
    BY <1>1, <1>2 DEF TypeOK
  <1> QED
    BY <1>1, <1>3, KeepsStarted, KeepsLine, KeepsCounters, KeepsFlush, KeepsStatus

\* The threads have not done anything yet.
LEMMA InitProc == Init => ProcInv
  <1> SUFFICES ASSUME Init PROVE ProcInv
    OBVIOUS
  <1>1. TypeOK
    <2>1. /\ pc \in [main : MainPc, lh : LhPc, mgmt : MgmtPc]
          /\ finished \in [lh : BOOLEAN, mgmt : BOOLEAN]
          /\ proc_info \in [pid : BOOLEAN, tid : BOOLEAN]
          /\ answer \in [settled : BOOLEAN, pid : BOOLEAN, tid : BOOLEAN]
      BY DEF Init, MainPc, LhPc, MgmtPc
    <2>2. /\ queue \in [Enabled -> Int] /\ packets \in [Enabled -> Nat]
          /\ since \in [Enabled -> Nat] /\ loaded \in Nat
          /\ loop \in [line : 1..(NumLines + 1), count : Int, set : SUBSET Enabled]
          /\ mcl_fd \in {-1, 0, 1} /\ connected \in {-1, 0, 1}
      BY ProcessAssumption DEF Init, NoLoop
    <2> QED
      BY <2>1, <2>2, Zenon DEF Init, TypeOK
  <1>2. Started /\ InLine /\ CountersExact /\ FlushInv /\ StatusInv
    BY DEF Init, Started, InLine, Counting, CountersExact, FlushInv, StatusInv
  <1> QED
    BY <1>1, <1>2 DEF ProcInv

\* Whatever the interleaving of main, the line handler thread, the management
\* thread and signals: every thread's step preserves the invariant.
THEOREM ProcInvariant == Spec => []ProcInv
  <1>1. ProcInv /\ [Next]_vars => ProcInv'
    <2> SUFFICES ASSUME ProcInv, [Next]_vars PROVE ProcInv'
      OBVIOUS
    <2>1. CASE UNCHANGED vars
      BY <2>1 DEF vars, loopVars, statVars, mgrVars, infoVars, ProcInv, TypeOK, Started,
                  InLine, CountersExact, FlushInv, StatusInv
    <2> QED
      BY <2>1, MainStep, LhStep, MgmtStep, OutsideStep DEF Next
  <1> QED
    BY <1>1, InitProc, PTL DEF Spec

\* Type correctness; the loop of fh_shr_lh_run never leaves the array of lines.
THEOREM TypeCorrect == Spec => []TypeOK
  BY ProcInvariant, PTL DEF ProcInv

\* fh_shr_lh_run never waits for more packets with messages it has not flushed,
\* unless a read has failed, and then the static to_publish remembers them.
THEOREM NeverForgotten == Spec => []NothingForgotten
  <1>1. ProcInv => NothingForgotten
    BY DEF ProcInv, FlushInv, NothingForgotten
  <1> QED
    BY <1>1, ProcInvariant, PTL

\* A packet counter is wrong only after a clear fell into its increment.
THEOREM CountersCorrect == Spec => []CountersExact
  BY ProcInvariant, PTL DEF ProcInv

\* A status response that could be complete is complete, although main and the
\* management thread both write proc_info without a lock.
THEOREM StatusComplete == Spec => []StatusFilled
  <1>1. ProcInv => StatusFilled
    BY DEF ProcInv, StatusInv, StatusFilled
  <1> QED
    BY <1>1, ProcInvariant, PTL

-----------------------------------------------------------------------------
(* The threads of an ARCA feed handler process, which is made in its own    *)
(* way: they start one after the other and what they use is freed only once *)
(* they have ended, for every script of packets, every set of sockets and   *)
(* every bound.  The invariant says where the permit of fh_arca_thread_init *)
(* is - in the semaphore, or with the one thread that initialises - and how *)
(* far the threads can be at each place of the main thread.                 *)

MainPlaces == {"boot", "mgmt_start", "lh_start", "mgmt_wait", "lh_wait", "exit",
               "exit_unjoined", "done", "done_unjoined", "killed"}
LhPlaces == {"none", "init", "select", "drain", "end"}
MgPlaces == {"none", "init", "run", "end"}

\* A record of the receive loop, as far as the threads matter: it has a place.
HasPlace(r) == "pc" \in DOMAIN r

One(b) == IF b THEN 1 ELSE 0

\* The threads' own states.
PlacesOK ==
    /\ main \in MainPlaces /\ mg \in MgPlaces /\ sem \in Nat
    /\ HasPlace(lh) /\ lh.pc \in LhPlaces

\* The permit is in the semaphore or with the thread that initialises.
PermitKept ==
    sem <= 1 /\ (main # "killed" => sem + One(mg = "init") + One(lh.pc = "init") = 1)

\* How far the threads are when the main thread is where it is.
Progress ==
    /\ main \in {"boot", "mgmt_start"} => mg = "none" /\ lh.pc = "none"
    /\ main \in {"lh_start", "exit_unjoined", "done_unjoined"} => lh.pc = "none"
    /\ main = "lh_wait" => mg = "end"
    /\ main \in {"exit", "done"} => mg \in {"none", "end"} /\ lh.pc \in {"none", "end"}
    /\ main = "killed" => mg = "end" /\ lh.pc = "end"

ThreadInv == PlacesOK /\ PermitKept /\ Progress

-----------------------------------------------------------------------------
(* What an update does to the place in a record of the receive loop.       *)

\* Moving a thread within its loop keeps the other fields of its record.
LEMMA LoopMoves ==
    ASSUME NEW r, NEW p, NEW n, NEW f, HasPlace(r)
    PROVE  /\ [r EXCEPT !.pc = p].pc = p /\ HasPlace([r EXCEPT !.pc = p])
           /\ [r EXCEPT !.k = n, !.found = f].pc = r.pc
           /\ HasPlace([r EXCEPT !.k = n, !.found = f])
<1>1. [r EXCEPT !.pc = p].pc = p /\ "pc" \in DOMAIN [r EXCEPT !.pc = p]
      BY DEF HasPlace
<1>2. /\ [r EXCEPT !.k = n, !.found = f].pc = r.pc
      /\ "pc" \in DOMAIN [r EXCEPT !.k = n, !.found = f]
      BY DEF HasPlace
<1> QED
    BY <1>1, <1>2, Zenon DEF HasPlace

\* A loop that has not begun is nowhere.
LEMMA Loop0Type == HasPlace(Loop0) /\ Loop0.pc = "none"
  BY DEF Loop0, HasPlace

\* Before anything is started the invariant of the threads holds.
LEMMA InitThreads == ArcaInit => ThreadInv
  BY Loop0Type DEF ArcaInit, ThreadInv, PlacesOK, PermitKept, Progress, One,
            MainPlaces, LhPlaces, MgPlaces

\* The main thread.
LEMMA MainThreads == ThreadInv /\ MainThread => ThreadInv'
<1> SUFFICES ASSUME ThreadInv, MainThread PROVE ThreadInv'
    OBVIOUS
<1> USE DEF ThreadInv, PlacesOK, PermitKept, Progress, One, MainPlaces, LhPlaces, MgPlaces
<1>1. CASE Boot
      BY <1>1 DEF Boot
<1>2. CASE MgmtStart
      BY <1>2 DEF MgmtStart
<1>3. CASE LhStart
  <2>1. HasPlace(lh') /\ lh'.pc = "init"
        BY <1>3, LoopMoves DEF LhStart
  <2> QED
      BY <1>3, <2>1 DEF LhStart
<1>4. CASE LhStartFails
      BY <1>4 DEF LhStartFails
<1>5. CASE MgmtWait
      BY <1>5 DEF MgmtWait
<1>6. CASE LhWait
      BY <1>6 DEF LhWait
<1>7. CASE FreeGroups
      BY <1>7 DEF FreeGroups
<1> QED
    BY <1>1, <1>2, <1>3, <1>4, <1>5, <1>6, <1>7 DEF MainThread

\* The management thread.
LEMMA MgmtThreads == ThreadInv /\ MgmtThread => ThreadInv'
<1> SUFFICES ASSUME ThreadInv, MgmtThread PROVE ThreadInv'
    OBVIOUS
<1> USE DEF ThreadInv, PlacesOK, PermitKept, Progress, One, MainPlaces, LhPlaces, MgPlaces
<1>1. CASE MgmtPost
      BY <1>1 DEF MgmtPost
<1>2. CASE MgmtProcess
      BY <1>2 DEF MgmtProcess
<1>3. CASE MgmtEnd
      BY <1>3 DEF MgmtEnd
<1> QED
    BY <1>1, <1>2, <1>3 DEF MgmtThread

\* The line handler thread: what it does to the line is of no account here.
LEMMA LhThreads == ThreadInv /\ LhThread => ThreadInv'
<1> SUFFICES ASSUME ThreadInv, LhThread PROVE ThreadInv'
    OBVIOUS
<1> USE DEF ThreadInv, PlacesOK, PermitKept, Progress, One, MainPlaces, LhPlaces, MgPlaces
<1>1. CASE LhPost
  <2>1. HasPlace(lh') /\ lh'.pc = "select"
        BY <1>1, LoopMoves DEF LhPost
  <2> QED
      BY <1>1, <2>1 DEF LhPost
<1>2. CASE Select
  <2>1. lh.pc = "select" /\ UNCHANGED <<mg, main, sem>>
        BY <1>2 DEF Select, proc
  <2>2. PICK j \in 1 .. Len(Sockets) :
           lh' = [pc |-> "drain", last |-> j - 1, k |-> 0, found |-> FALSE]
        BY <1>2 DEF Select
  <2>3. HasPlace(lh') /\ lh'.pc = "drain"
        BY <2>2 DEF HasPlace
  <2> QED
      BY <2>1, <2>3
<1>3. CASE Drain
  <2>1. lh.pc = "drain" /\ UNCHANGED <<mg, main, sem>>
        BY <1>3 DEF Drain, proc
  <2>2. \/ \E n, f : lh' = [lh EXCEPT !.k = n, !.found = f]
        \/ lh' = [Loop0 EXCEPT !.pc = "select"]
        BY <1>3, Zenon DEF Drain
  <2>3. HasPlace(lh') /\ lh'.pc \in {"select", "drain"}
    <3>1. CASE \E n, f : lh' = [lh EXCEPT !.k = n, !.found = f]
      <4>1. PICK n, f : lh' = [lh EXCEPT !.k = n, !.found = f]
            BY <3>1
      <4>0. HasPlace(lh)
            OBVIOUS
      <4>2. HasPlace(lh') /\ lh'.pc = lh.pc
            BY <4>1, <4>0, SMT DEF HasPlace
      <4> QED
          BY <2>1, <4>2
    <3>2. CASE lh' = [Loop0 EXCEPT !.pc = "select"]
          BY <3>2, LoopMoves, Loop0Type
    <3> QED
        BY <2>2, <3>1, <3>2
  <2> QED
      BY <2>1, <2>3
<1>4. CASE LhEnd
  <2>1. HasPlace(lh') /\ lh'.pc = "end"
        BY <1>4, LoopMoves, Loop0Type DEF LhEnd
  <2> QED
      BY <1>4, <2>1 DEF LhEnd, Listening, proc
<1>5. CASE RuntKills
  <2>0. lh' = [Loop0 EXCEPT !.pc = "end"] /\ main' = "killed" /\ mg' = "end" /\ sem' = sem
        BY <1>5, Zenon DEF RuntKills
  <2>1. HasPlace(lh') /\ lh'.pc = "end"
        BY <2>0, LoopMoves, Loop0Type
  <2>2. main' = "killed" /\ mg' = "end" /\ sem' = sem
        BY <2>0
  <2> QED
      BY <2>1, <2>2
<1> QED
    BY <1>1, <1>2, <1>3, <1>4, <1>5 DEF LhThread

\* The network and the signals touch no thread.
LEMMA OutsideThreads == ThreadInv /\ (Net \/ StopSignal \/ UNCHANGED arca) => ThreadInv'
<1> SUFFICES ASSUME ThreadInv, Net \/ StopSignal \/ UNCHANGED arca PROVE ThreadInv'
    OBVIOUS
<1>1. UNCHANGED <<lh, mg, main, sem>>
      BY DEF Net, StopSignal, Carry, Lose, Repeat, arca, proc
<1> QED
    BY <1>1 DEF ThreadInv, PlacesOK, PermitKept, Progress

\* The permit of fh_arca_thread_init is never lost or doubled, and the main
\* thread is never ahead of the threads it has to wait for (fh_arca_main).
THEOREM ThreadsInvariant == ArcaSpec => []ThreadInv
<1>1. ThreadInv /\ [ArcaNext]_arca => ThreadInv'
      BY MainThreads, MgmtThreads, LhThreads, OutsideThreads DEF ArcaNext
<1> QED
    BY InitThreads, <1>1, PTL DEF ArcaSpec

\* Only one thread of fh_arca_main initialises at a time, and the groups are
\* freed only when the line handler thread has ended, and the management
\* thread too when both were started.
THEOREM ThreadsCorrect == ArcaSpec => []ThreadsOrdered
<1>1. ThreadInv => ThreadsOrdered
      BY DEF ThreadInv, PlacesOK, PermitKept, Progress, One, ThreadsOrdered, OneInit, FreedLast
<1> QED
    BY ThreadsInvariant, <1>1, PTL

-----------------------------------------------------------------------------
(* Duplicate and gap detection over the two copies of an ARCA line.        *)

\* The messages of a packet are handled by a fold.
MF == INSTANCE LeftFold WITH Op <- Message

\* A feed group.
Group ==
    [exp : [Copies -> Nat], in_sequence : BOOLEAN,
     base : Nat, count : Nat, lowest : Nat, highest : Nat, missing : SUBSET Nat,
     lost : SUBSET Int, alerts : SUBSET Nat, status : BOOLEAN]

\* The number the more advanced copy expects.
Most(h) == Larger(h.exp[0], h.exp[1])

\* The window while out of sequence: it begins below what the more advanced copy
\* expects, which is at most one beyond its end, and holds every missing number;
\* lowest is the least of them.
InWindow(h) ==
    /\ 0 < h.base /\ h.base < Most(h) /\ Most(h) <= h.base + MISSING_RANGE + 1
    /\ h.lowest \in h.missing
    /\ \A n \in h.missing :
          /\ h.base <= n /\ n < h.base + MISSING_RANGE /\ n < Most(h)
          /\ h.lowest <= n /\ n <= h.highest

\* The bit map, the count and the two flags agree.
WindowOK(h) ==
    /\ IsFiniteSet(h.missing) /\ h.count = Cardinality(h.missing)
    /\ h.status = h.in_sequence
    /\ h.in_sequence <=> h.missing = {}
    /\ ~h.in_sequence => InWindow(h)

\* The fields of a group.
LEMMA GroupFields ==
  ASSUME NEW h \in Group
  PROVE  /\ h.exp \in [Copies -> Nat] /\ h.exp[0] \in Nat /\ h.exp[1] \in Nat
         /\ h.in_sequence \in BOOLEAN /\ h.status \in BOOLEAN
         /\ h.base \in Nat /\ h.count \in Nat /\ h.lowest \in Nat /\ h.highest \in Nat
         /\ h.missing \subseteq Nat /\ h.lost \subseteq Int /\ h.alerts \subseteq Nat
         /\ Most(h) \in Nat /\ Most(h) >= h.exp[0] /\ Most(h) >= h.exp[1]
         /\ Most(h) \in {h.exp[0], h.exp[1]}
  BY DEF Group, Most, Larger, Copies

\* One copy and the other.
LEMMA TheOther ==
  ASSUME NEW c \in Copies
  PROVE  1 - c \in Copies /\ 1 - c # c /\ Copies = {c, 1 - c}
  BY DEF Copies

\* The larger of what a copy and the other expect.
LEMMA MostOf ==
  ASSUME NEW h \in Group, NEW c \in Copies
  PROVE  Most(h) = Larger(h.exp[c], h.exp[1 - c])
  BY DEF Group, Most, Larger, Copies

\* Setting the number a copy expects.
LEMMA ExpSet ==
  ASSUME NEW h \in Group, NEW c \in Copies, NEW n \in Nat
  PROVE  LET k == [h EXCEPT !.exp[c] = n]
         IN  /\ k \in Group
             /\ k.exp[c] = n /\ k.exp[1 - c] = h.exp[1 - c]
             /\ Most(k) = Larger(n, h.exp[1 - c])
             /\ k.in_sequence = h.in_sequence /\ k.status = h.status
             /\ k.base = h.base /\ k.count = h.count
             /\ k.lowest = h.lowest /\ k.highest = h.highest /\ k.missing = h.missing
<1> DEFINE k == [h EXCEPT !.exp[c] = n]
<1>1. k \in Group
  BY DEF Group
<1>2. k.exp = [h.exp EXCEPT ![c] = n]
  BY DEF Group
<1>3. k.exp[c] = n /\ k.exp[1 - c] = h.exp[1 - c]
  BY <1>2, TheOther DEF Group
<1>4. /\ k.in_sequence = h.in_sequence /\ k.status = h.status
      /\ k.base = h.base /\ k.count = h.count
      /\ k.lowest = h.lowest /\ k.highest = h.highest /\ k.missing = h.missing
  BY DEF Group
<1> HIDE DEF k
<1>5. Most(k) = Larger(n, h.exp[1 - c])
  BY <1>1, <1>3, MostOf
<1> QED
  BY <1>1, <1>3, <1>4, <1>5 DEF k

\* Declaring numbers lost.
LEMMA LossNoticed ==
  ASSUME NEW h \in Group, NEW first \in Int, NEW size \in Int
  PROVE  LET k == NotifyPacketLoss(h, first, size)
         IN  /\ k \in Group /\ k.exp = h.exp
             /\ k.in_sequence = h.in_sequence /\ k.status = h.status
             /\ k.base = h.base /\ k.count = h.count
             /\ k.lowest = h.lowest /\ k.highest = h.highest /\ k.missing = h.missing
<1>1. h.lost \cup (first .. first + size - 1) \in SUBSET Int
  BY DEF Group
<1> QED
  BY <1>1 DEF NotifyPacketLoss, Group

\* An empty window.
LEMMA WindowEmptied ==
  ASSUME NEW h \in Group
  PROVE  LET k == InitMissing(h)
         IN  /\ k \in Group /\ k.exp = h.exp
             /\ k.in_sequence = h.in_sequence /\ k.status = h.status
             /\ k.base = 0 /\ k.count = 0
             /\ k.lowest = 0 /\ k.highest = 0 /\ k.missing = {}
  BY DEF InitMissing, Group

\* The line is in sequence, or out of it, and says so.
LEMMA FlagsSet ==
  ASSUME NEW h \in Group
  PROVE  /\ LET k == SetInSequence(h)
            IN  /\ k \in Group /\ k.exp = h.exp /\ k.in_sequence = TRUE /\ k.status = TRUE
                /\ k.base = h.base /\ k.count = h.count
                /\ k.lowest = h.lowest /\ k.highest = h.highest /\ k.missing = h.missing
         /\ LET k == SetOutOfSequence(h)
            IN  /\ k \in Group /\ k.exp = h.exp /\ k.in_sequence = FALSE /\ k.status = FALSE
                /\ k.base = h.base /\ k.count = h.count
                /\ k.lowest = h.lowest /\ k.highest = h.highest /\ k.missing = h.missing
  BY DEF SetInSequence, SetOutOfSequence, SendAlert, Group

\* k is group h with size numbers from first as its window.
Begun(h, first, size, k) ==
    /\ k \in Group /\ k.exp = h.exp
    /\ k.in_sequence = h.in_sequence /\ k.status = h.status
    /\ k.base = first /\ k.lowest = first /\ k.highest = first + size - 1
    /\ k.missing = first .. first + size - 1 /\ k.count = size

\* Numbers put into an empty window.
LEMMA WindowBegun ==
  ASSUME NEW h \in Group, h.count = 0,
         NEW first \in Nat, first > h.base, NEW size \in Nat \ {0}
  PROVE  Begun(h, first, size, AddSequencesToMissing(h, first, size))
<1> DEFINE k == AddSequencesToMissing(h, first, size)
           last == first + size - 1
<1>1. first .. last \subseteq Nat /\ last \in Nat /\ h.count + size = size
  OBVIOUS
<1>2. k = [h EXCEPT !.base = first, !.lowest = first, !.highest = last,
                    !.missing = {} \cup (first .. last), !.count = @ + size]
  BY GroupFields DEF AddSequencesToMissing
<1> HIDE DEF k, last
<1>3. k \in Group
  BY <1>1, <1>2 DEF Group
<1>4. /\ k.exp = h.exp /\ k.in_sequence = h.in_sequence /\ k.status = h.status
      /\ k.base = first /\ k.lowest = first /\ k.highest = last
      /\ k.missing = first .. last /\ k.count = size
  BY <1>1, <1>2 DEF Group
<1> QED
  BY <1>3, <1>4 DEF k, last, Begun

\* Numbers put into a window that has some below them.
LEMMA NumbersAdded ==
  ASSUME NEW h \in Group, h.count # 0,
         NEW first \in Nat, first > h.base, NEW size \in Nat \ {0}, NEW last, last = first + size - 1
  PROVE  LET k == AddSequencesToMissing(h, first, size)
         IN  /\ k \in Group /\ k.exp = h.exp
             /\ k.in_sequence = h.in_sequence /\ k.status = h.status
             /\ k.base = h.base /\ k.lowest = h.lowest
             /\ k.highest >= last /\ k.highest >= h.highest
             /\ k.missing = h.missing \cup (first .. last) /\ k.count = h.count + size
<1> DEFINE k == AddSequencesToMissing(h, first, size)
           high == IF last >= h.highest THEN last ELSE h.highest
<1>1. first .. last \subseteq Nat /\ last \in Nat /\ h.count + size \in Nat
  BY GroupFields
<1>2. high \in Nat /\ high >= last /\ high >= h.highest
  BY <1>1, GroupFields
<1>3. /\ h.base = IF h.count = 0 THEN first ELSE h.base
      /\ h.lowest = IF h.count = 0 THEN first ELSE h.lowest
      /\ high = IF h.count = 0 \/ last >= h.highest THEN last ELSE h.highest
      /\ h.missing = IF h.count = 0 THEN {} ELSE h.missing
      /\ ~(first <= h.base)
  BY GroupFields
<1> HIDE DEF high
<1>4. k = [h EXCEPT !.base = @, !.lowest = @, !.highest = high,
                    !.missing = @ \cup (first .. last), !.count = @ + size]
  BY <1>3 DEF AddSequencesToMissing
<1> HIDE DEF k
<1>5. k \in Group
  BY <1>1, <1>2, <1>4 DEF Group
<1>6. /\ k.exp = h.exp /\ k.in_sequence = h.in_sequence /\ k.status = h.status
      /\ k.base = h.base /\ k.lowest = h.lowest /\ k.highest = high
      /\ k.missing = h.missing \cup (first .. last) /\ k.count = h.count + size
  BY <1>1, <1>2, <1>4 DEF Group
<1> QED
  BY <1>2, <1>5, <1>6 DEF k

\* Whatever numbers are put into it, a group stays one.
LEMMA AddKeepsGroup ==
  ASSUME NEW h \in Group, NEW first \in Nat, NEW size \in Nat \ {0}
  PROVE  LET k == AddSequencesToMissing(h, first, size)
         IN  /\ k \in Group /\ k.exp = h.exp
             /\ k.in_sequence = h.in_sequence /\ k.status = h.status
<1>1. CASE first <= h.base
  BY <1>1 DEF AddSequencesToMissing
<1>2. CASE first > h.base
  BY <1>2, WindowBegun, NumbersAdded DEF Begun
<1> QED
  BY <1>1, <1>2, GroupFields

\* Half of the window.
LEMMA HalfRange ==
  /\ MISSING_RANGE \in Nat /\ MISSING_RANGE \div 2 \in Nat \ {0}
  /\ MISSING_RANGE \div 2 < MISSING_RANGE
  BY RangeAssumption

\* A gap while in sequence is recorded whole, or, wider than the window, not at all.
LEMMA FirstGapEffect ==
  ASSUME NEW h \in Group, NEW n \in Nat, NEW most \in Nat, n > most
  PROVE  LET k == FirstGap(h, n - most, n, most)
         IN  /\ k \in Group /\ k.exp = h.exp
             /\ n - most > MISSING_RANGE =>
                  /\ k.in_sequence = h.in_sequence /\ k.status = h.status
                  /\ k.missing = {} /\ k.count = 0
             /\ n - most <= MISSING_RANGE =>
                  /\ k.in_sequence = FALSE /\ k.status = FALSE
                  /\ most > 0 => /\ k.base = most /\ k.lowest = most /\ k.highest = n - 1
                                 /\ k.missing = most .. n - 1 /\ k.count = n - most
<1> DEFINE k == FirstGap(h, n - most, n, most)
           e == InitMissing(h)
<1>1. /\ e \in Group /\ e.exp = h.exp
      /\ e.in_sequence = h.in_sequence /\ e.status = h.status
      /\ e.base = 0 /\ e.count = 0 /\ e.missing = {}
  BY WindowEmptied
<1> HIDE DEF e
<1>2. CASE n - most > MISSING_RANGE
  <2>1. k = e
    <3> DEFINE half == n - MISSING_RANGE \div 2
               start == IF half < most THEN most ELSE half
               newSize == IF n - start < n - most THEN n - most ELSE n - start
    <3>1. ~(n - most > newSize)
      BY HalfRange
    <3>2. k = IF n - most > newSize THEN NotifyPacketLoss(e, most, start - most) ELSE e
      BY <1>2 DEF FirstGap, e
    <3> QED
      BY <3>1, <3>2
  <2> HIDE DEF k
  <2> QED
    BY <1>1, <1>2, <2>1, HalfRange DEF k
<1>3. CASE n - most <= MISSING_RANGE
  <2> DEFINE a == AddSequencesToMissing(e, most, n - most)
  <2>1. k = SetOutOfSequence(a)
    BY <1>3, HalfRange DEF FirstGap, e
  <2>0. n - most \in Nat \ {0} /\ most + (n - most) - 1 = n - 1
    OBVIOUS
  <2>2. /\ a \in Group /\ a.exp = e.exp
        /\ most > 0 => /\ a.base = most /\ a.lowest = most /\ a.highest = n - 1
                       /\ a.missing = most .. n - 1 /\ a.count = n - most
    <3>1. a \in Group /\ a.exp = e.exp
      BY <1>1, <2>0, AddKeepsGroup
    <3>2. CASE most > 0
      <4> DEFINE z == n - most
                 last == n - 1
      <4>1. z \in Nat \ {0} /\ last = most + z - 1 /\ a = AddSequencesToMissing(e, most, z)
            /\ most > 0
        BY <1>1, <2>0, <3>2
      <4> HIDE DEF z, last, a
      <4>2. Begun(e, most, z, a)
        BY <1>1, <4>1, WindowBegun
      <4> QED
        BY <3>1, <4>1, <4>2 DEF z, last, Begun
    <3> QED
      BY <3>1, <3>2
  <2> HIDE DEF a, k
  <2>3. /\ k \in Group /\ k.exp = a.exp /\ k.in_sequence = FALSE /\ k.status = FALSE
        /\ k.base = a.base /\ k.count = a.count
        /\ k.lowest = a.lowest /\ k.highest = a.highest /\ k.missing = a.missing
    BY <2>1, <2>2, FlagsSet
  <2> QED
    BY <1>1, <1>3, <2>2, <2>3, HalfRange DEF k
<1>4. n - most > MISSING_RANGE \/ n - most <= MISSING_RANGE
  BY HalfRange
<1> HIDE DEF k
<1> QED
  BY <1>2, <1>3, <1>4

\* The number is in the window.
Within(h, n) == n < h.base + MISSING_RANGE

\* A gap while out of sequence is added to the window.
LEMMA SecondGapAdds ==
  ASSUME NEW h \in Group, NEW n \in Nat, NEW most \in Nat, n > most, Within(h, n)
  PROVE  LET k == SecondGap(h, n - most, n, most)
         IN  /\ k \in Group /\ k.exp = h.exp
             /\ k.in_sequence = h.in_sequence /\ k.status = h.status
             /\ (most > h.base /\ h.count # 0) =>
                  /\ k.base = h.base /\ k.lowest = h.lowest
                  /\ k.highest >= n - 1 /\ k.highest >= h.highest
                  /\ k.missing = h.missing \cup (most .. n - 1)
                  /\ k.count = h.count + (n - most)
<1> DEFINE k == SecondGap(h, n - most, n, most)
           z == n - most
           last == n - 1
<1>1. z \in Nat \ {0} /\ last = most + z - 1
  OBVIOUS
<1>2. k = AddSequencesToMissing(h, most, z)
  BY DEF SecondGap, Within
<1> HIDE DEF z, last, k
<1>3. /\ k \in Group /\ k.exp = h.exp
      /\ k.in_sequence = h.in_sequence /\ k.status = h.status
  BY <1>1, <1>2, AddKeepsGroup
<1>4. ASSUME most > h.base, h.count # 0
      PROVE  /\ k.base = h.base /\ k.lowest = h.lowest
             /\ k.highest >= last /\ k.highest >= h.highest
             /\ k.missing = h.missing \cup (most .. last)
             /\ k.count = h.count + z
  BY <1>1, <1>2, <1>4, NumbersAdded
<1> QED
  BY <1>3, <1>4 DEF k, z, last

\* A gap that ends beyond the window begins a new one with half a window of numbers.
LEMMA SecondGapRenews ==
  ASSUME NEW h \in Group, NEW n \in Nat, NEW most \in Nat, n > most, ~Within(h, n)
  PROVE  LET k == SecondGap(h, n - most, n, most)
             half == MISSING_RANGE \div 2
         IN  /\ k \in Group /\ k.exp = h.exp
             /\ k.in_sequence = h.in_sequence /\ k.status = h.status
             /\ k.base = n - half /\ k.lowest = n - half /\ k.highest = n - 1
             /\ k.missing = (n - half) .. (n - 1) /\ k.count = half
<1> DEFINE k == SecondGap(h, n - most, n, most)
           half == MISSING_RANGE \div 2
           l == NotifyPacketLoss(h, h.lowest, h.count)
           e == InitMissing(l)
           first == n - half
           last == n - 1
<1>1. k = AddSequencesToMissing(e, first, half)
  BY DEF SecondGap, Within
<1>2. l \in Group /\ l.exp = h.exp /\ l.in_sequence = h.in_sequence /\ l.status = h.status
  <2>1. h.lowest \in Int /\ h.count \in Int
    BY GroupFields
  <2> QED
    BY <2>1, LossNoticed
<1> HIDE DEF l
<1>3. /\ e \in Group /\ e.exp = h.exp
      /\ e.in_sequence = h.in_sequence /\ e.status = h.status
      /\ e.base = 0 /\ e.count = 0
  BY <1>2, WindowEmptied
<1>4. first \in Nat /\ first > 0 /\ half \in Nat \ {0} /\ last = first + half - 1
  BY HalfRange, GroupFields DEF Within
<1> HIDE DEF e, k, first, half, last
<1>5. /\ k \in Group /\ k.exp = h.exp
      /\ k.in_sequence = h.in_sequence /\ k.status = h.status
      /\ k.base = first /\ k.lowest = first /\ k.highest = first + half - 1
      /\ k.missing = first .. first + half - 1 /\ k.count = half
  <2>1. Begun(e, first, half, k)
    BY <1>1, <1>3, <1>4, WindowBegun
  <2> QED
    BY <1>3, <2>1 DEF Begun
<1> QED
  BY <1>4, <1>5 DEF k, first, half, last

\* The least missing number after n, when there is one.
LEMMA NextLowestIs ==
  ASSUME NEW h \in Group, NEW n \in Nat
  PROVE  LET later == {k \in (n + 1) .. h.highest : IsSequenceInMissing(h, k)}
         IN  /\ NextLowest(h, n) \in Nat
             /\ later # {} => /\ NextLowest(h, n) \in later
                              /\ \A j \in later : NextLowest(h, n) <= j
<1> DEFINE later == {k \in (n + 1) .. h.highest : IsSequenceInMissing(h, k)}
<1>1. later \in SUBSET Nat
  BY GroupFields
<1>2. NextLowest(h, n) = IF later = {} THEN h.lowest
                         ELSE CHOOSE k \in later : \A j \in later : k <= j
  BY DEF NextLowest
<1> HIDE DEF later
<1>3. later # {} => /\ NextLowest(h, n) \in later
                    /\ \A j \in later : NextLowest(h, n) <= j
  <2> SUFFICES ASSUME later # {}
               PROVE  /\ NextLowest(h, n) \in later
                      /\ \A j \in later : NextLowest(h, n) <= j
    OBVIOUS
  <2>1. \E k \in later : \A j \in later : k <= j
    BY <1>1, MF!LeastNumber
  <2> QED
    BY <1>2, <2>1
<1>4. NextLowest(h, n) \in Nat
  BY <1>1, <1>2, <1>3, GroupFields
<1> QED
  BY <1>3, <1>4 DEF later

\* Taking a number out of the window.
LEMMA NumberRemoved ==
  ASSUME NEW h \in Group, NEW n \in Nat
  PROVE  LET k == RemoveSequenceFromMissing(h, n)
         IN  /\ k \in Group /\ k.exp = h.exp
             /\ k.in_sequence = h.in_sequence /\ k.status = h.status
             /\ k.base = h.base /\ k.highest = h.highest
             /\ (WindowOK(h) /\ ~h.in_sequence /\ n \in h.missing) =>
                  /\ k.missing = h.missing \ {n}
                  /\ IsFiniteSet(k.missing) /\ k.count = Cardinality(k.missing)
                  /\ k.missing # {} =>
                       k.lowest \in k.missing /\ \A j \in k.missing : k.lowest <= j
<1> DEFINE k == RemoveSequenceFromMissing(h, n)
<1>1. CASE h.count = 0 \/ n < h.base \/ n >= h.base + MISSING_RANGE
  <2>1. k = h
    BY <1>1 DEF RemoveSequenceFromMissing
  <2>2. ~(WindowOK(h) /\ ~h.in_sequence /\ n \in h.missing)
    <3> SUFFICES ASSUME WindowOK(h), ~h.in_sequence, n \in h.missing PROVE FALSE
      OBVIOUS
    <3>1. h.base <= n /\ n < h.base + MISSING_RANGE
      BY DEF WindowOK, InWindow
    <3>2. h.count # 0
      BY FS_EmptySet DEF WindowOK
    <3> QED
      BY <1>1, <3>1, <3>2, GroupFields, HalfRange
  <2> QED
    BY <2>1, <2>2
<1>2. CASE ~(h.count = 0 \/ n < h.base \/ n >= h.base + MISSING_RANGE)
  <2> DEFINE a == [h EXCEPT !.missing = @ \ {n}, !.count = @ - 1]
  <2>1. /\ a \in Group /\ a.exp = h.exp
        /\ a.in_sequence = h.in_sequence /\ a.status = h.status
        /\ a.base = h.base /\ a.highest = h.highest /\ a.lowest = h.lowest
        /\ a.missing = h.missing \ {n} /\ a.count = h.count - 1
    <3>1. h.count - 1 \in Nat /\ h.missing \ {n} \in SUBSET Nat
      BY <1>2, GroupFields
    <3> QED
      BY <3>1 DEF Group
  <2>2. k = IF n > a.lowest THEN a
            ELSE [a EXCEPT !.lowest = IF a.count > 0 THEN NextLowest(a, n) ELSE 0]
    BY <1>2 DEF RemoveSequenceFromMissing
  <2> HIDE DEF a
  <2> DEFINE low == IF n > a.lowest THEN a.lowest
                    ELSE IF a.count > 0 THEN NextLowest(a, n) ELSE 0
  <2>3. low \in Nat
    BY <2>1, NextLowestIs, GroupFields
  <2>4. /\ k \in Group /\ k.exp = h.exp
        /\ k.in_sequence = h.in_sequence /\ k.status = h.status
        /\ k.base = h.base /\ k.highest = h.highest /\ k.lowest = low
        /\ k.missing = a.missing /\ k.count = a.count
    <3>1. CASE n > a.lowest
      BY <2>1, <2>2, <3>1
    <3>2. CASE ~(n > a.lowest)
      <4>1. k = [a EXCEPT !.lowest = low]
        BY <2>2, <3>2
      <4> HIDE DEF k, low
      <4> QED
        BY <2>1, <2>3, <4>1 DEF Group
    <3> QED
      BY <3>1, <3>2
  <2> HIDE DEF k
  <2>5. ASSUME WindowOK(h), ~h.in_sequence, n \in h.missing
        PROVE  /\ k.missing = h.missing \ {n}
               /\ IsFiniteSet(k.missing) /\ k.count = Cardinality(k.missing)
               /\ k.missing # {} =>
                    k.lowest \in k.missing /\ \A j \in k.missing : k.lowest <= j
    <3>1. /\ IsFiniteSet(a.missing) /\ a.count = Cardinality(a.missing)
      BY <2>1, <2>5, FS_RemoveElement DEF WindowOK
    <3>2. ASSUME a.missing # {}
          PROVE  low \in a.missing /\ \A j \in a.missing : low <= j
      <4>1. InWindow(h)
        BY <2>5 DEF WindowOK
      <4>2. CASE n > a.lowest
        BY <2>1, <4>1, <4>2, GroupFields DEF InWindow
      <4>3. CASE ~(n > a.lowest)
        <5>1. n = h.lowest /\ \A j \in h.missing : n <= j /\ j <= h.highest /\ j < h.base + MISSING_RANGE
          BY <2>1, <2>5, <4>1, <4>3, GroupFields DEF InWindow
        <5>2. a.count > 0
          BY <3>1, <3>2, FS_EmptySet, FS_CardinalityType
        <5>3. low = NextLowest(a, n)
          BY <4>3, <5>2
        <5> DEFINE later == {j \in (n + 1) .. a.highest : IsSequenceInMissing(a, j)}
        <5>4. later = a.missing
          <6>1. ASSUME NEW j \in a.missing PROVE j \in later
            <7>1. j \in Nat /\ j > n /\ j <= a.highest
              BY <2>1, <5>1, GroupFields
            <7>2. IsSequenceInMissing(a, j)
              <8>1. /\ ~a.in_sequence
                    /\ a.lowest = n /\ a.base <= n
                    /\ j < a.base + MISSING_RANGE
                BY <2>1, <2>5, <4>1, <5>1 DEF InWindow
              <8> QED
                BY <2>1, <7>1, <8>1, HalfRange, GroupFields DEF IsSequenceInMissing
            <7> QED
              BY <2>1, <7>1, <7>2, GroupFields
          <6>2. ASSUME NEW j \in later PROVE j \in a.missing
            BY DEF IsSequenceInMissing
          <6> QED
            BY <6>1, <6>2
        <5>5. later # {} => /\ NextLowest(a, n) \in later
                            /\ \A j \in later : NextLowest(a, n) <= j
          BY <2>1, NextLowestIs
        <5> HIDE DEF later, low
        <5> QED
          BY <3>2, <5>3, <5>4, <5>5
      <4> QED
        BY <4>2, <4>3
    <3> HIDE DEF low
    <3> QED
      BY <2>1, <2>4, <3>1, <3>2
  <2> HIDE DEF low
  <2> QED
    BY <2>4, <2>5 DEF k
<1> QED
  BY <1>1, <1>2

\* The first packet of a copy sets what the copy expects.
LEMMA StartEffect ==
  ASSUME NEW h \in Group, NEW c \in Copies, NEW n \in Nat
  PROVE  LET k == Start(h, c, n)
         IN  /\ k \in Group
             /\ k.exp[c] = (IF h.exp[c] = 0 THEN n ELSE h.exp[c])
             /\ k.exp[1 - c] = h.exp[1 - c]
             /\ k.in_sequence = h.in_sequence /\ k.status = h.status
             /\ k.base = h.base /\ k.count = h.count
             /\ k.lowest = h.lowest /\ k.highest = h.highest /\ k.missing = h.missing
<1> DEFINE m == IF h.exp[c] = 0 THEN n ELSE h.exp[c]
<1>1. m \in Nat
  BY GroupFields DEF Group
<1>2. Start(h, c, n) = [h EXCEPT !.exp[c] = m]
  BY DEF Start
<1> HIDE DEF m
<1>3. LET k == [h EXCEPT !.exp[c] = m]
      IN  /\ k \in Group
          /\ k.exp[c] = m /\ k.exp[1 - c] = h.exp[1 - c]
          /\ k.in_sequence = h.in_sequence /\ k.status = h.status
          /\ k.base = h.base /\ k.count = h.count
          /\ k.lowest = h.lowest /\ k.highest = h.highest /\ k.missing = h.missing
  BY <1>1, ExpSet
<1> QED
  BY <1>2, <1>3 DEF m

\* The line is in sequence, and has said so.
Sequenced(h) == h.in_sequence = TRUE /\ h.status = TRUE

\* The number is beyond the window.
Beyond(h, n) == n > h.base + MISSING_RANGE

\* A packet within the window leaves it alone.
LEMMA PassWindowNot ==
  ASSUME NEW h \in Group, NEW c, NEW n \in Nat, ~Beyond(h, n)
  PROVE  PassWindow(h, c, n) = h
  BY HalfRange, GroupFields DEF PassWindow, Beyond

\* A packet beyond the window gives the window up.
LEMMA PassWindowEffect ==
  ASSUME NEW h \in Group, NEW c \in Copies, NEW n \in Nat, Beyond(h, n)
  PROVE  LET k == PassWindow(h, c, n)
         IN  /\ k \in Group
             /\ k.exp[c] = n /\ k.exp[1 - c] = h.exp[1 - c]
             /\ Sequenced(k) /\ k.count = 0 /\ k.missing = {}
<1> DEFINE k == PassWindow(h, c, n)
           l == NotifyPacketLoss(h, h.lowest, h.highest - h.lowest + 1)
           e == InitMissing(l)
           x == [e EXCEPT !.exp[c] = n]
<1>1. k = SetInSequence(x)
  BY HalfRange, GroupFields DEF PassWindow, Beyond
<1>2. l \in Group /\ l.exp = h.exp
  <2>1. h.lowest \in Int /\ h.highest - h.lowest + 1 \in Int
    BY GroupFields
  <2> QED
    BY <2>1, LossNoticed
<1> HIDE DEF l
<1>3. e \in Group /\ e.exp = h.exp /\ e.count = 0 /\ e.missing = {}
  BY <1>2, WindowEmptied
<1> HIDE DEF e
<1>4. /\ x \in Group /\ x.exp[c] = n /\ x.exp[1 - c] = h.exp[1 - c]
      /\ x.count = 0 /\ x.missing = {}
  BY <1>3, ExpSet
<1> HIDE DEF x, k
<1>5. /\ k \in Group /\ k.exp = x.exp /\ k.in_sequence = TRUE /\ k.status = TRUE
      /\ k.count = x.count /\ k.missing = x.missing
  BY <1>1, <1>4, FlagsSet
<1> QED
  BY <1>4, <1>5 DEF k, Sequenced

\* k is group h with number n no longer missing, in sequence when none is left.
Filled(h, n, k) ==
    /\ k.missing = h.missing \ {n}
    /\ IsFiniteSet(k.missing) /\ k.count = Cardinality(k.missing)
    /\ k.status = k.in_sequence /\ (k.in_sequence <=> k.missing = {})
    /\ k.missing # {} =>
         /\ k.base = h.base /\ k.highest = h.highest
         /\ k.lowest \in k.missing /\ \A j \in k.missing : k.lowest <= j

\* A missing number is taken out.
LEMMA FillEffect ==
  ASSUME NEW h \in Group, NEW c \in Copies, NEW n \in Nat
  PROVE  LET k == Fill(h, c, n)
         IN  /\ k \in Group
             /\ k.exp[c] = (IF n >= h.exp[c] THEN n + 1 ELSE h.exp[c])
             /\ k.exp[1 - c] = h.exp[1 - c]
             /\ (WindowOK(h) /\ ~h.in_sequence /\ n \in h.missing) => Filled(h, n, k)
<1> DEFINE k == Fill(h, c, n)
           a == RemoveSequenceFromMissing(h, n)
           e == InitMissing(a)
           b == IF IsMissingEmpty(a) THEN SetInSequence(e) ELSE a
<1>1. /\ a \in Group /\ a.exp = h.exp
      /\ a.in_sequence = h.in_sequence /\ a.status = h.status
      /\ a.base = h.base /\ a.highest = h.highest
  BY NumberRemoved
<1>2. ASSUME WindowOK(h), ~h.in_sequence, n \in h.missing
      PROVE  /\ a.missing = h.missing \ {n}
             /\ IsFiniteSet(a.missing) /\ a.count = Cardinality(a.missing)
             /\ a.missing # {} =>
                  a.lowest \in a.missing /\ \A j \in a.missing : a.lowest <= j
  BY <1>2, NumberRemoved
<1>3. k = IF n >= b.exp[c] THEN [b EXCEPT !.exp[c] = n + 1] ELSE b
  BY DEF Fill
<1> HIDE DEF a
<1>4. CASE a.count = 0
  <2>1. /\ e \in Group /\ e.exp = h.exp /\ e.count = 0 /\ e.missing = {}
    BY <1>1, WindowEmptied
  <2>2. b = SetInSequence(e)
    BY <1>4 DEF IsMissingEmpty
  <2> HIDE DEF b, e
  <2>3. /\ b \in Group /\ b.exp = h.exp /\ b.in_sequence = TRUE /\ b.status = TRUE
        /\ b.count = 0 /\ b.missing = {}
    BY <2>1, <2>2, FlagsSet
  <2>4. /\ k \in Group
        /\ k.exp[c] = (IF n >= h.exp[c] THEN n + 1 ELSE h.exp[c])
        /\ k.exp[1 - c] = h.exp[1 - c]
        /\ k.in_sequence = TRUE /\ k.status = TRUE /\ k.count = 0 /\ k.missing = {}
    <3>1. n + 1 \in Nat
      OBVIOUS
    <3> HIDE DEF k
    <3> QED
      BY <1>3, <2>3, <3>1, ExpSet
  <2>5. ASSUME WindowOK(h), ~h.in_sequence, n \in h.missing PROVE h.missing \ {n} = {}
    BY <1>2, <1>4, <2>5, FS_EmptySet
  <2> HIDE DEF k
  <2> QED
    BY <2>4, <2>5, FS_EmptySet DEF k, Filled
<1>5. CASE a.count # 0
  <2>1. b = a
    BY <1>5 DEF IsMissingEmpty
  <2>2. /\ k \in Group
        /\ k.exp[c] = (IF n >= h.exp[c] THEN n + 1 ELSE h.exp[c])
        /\ k.exp[1 - c] = h.exp[1 - c]
        /\ k.in_sequence = a.in_sequence /\ k.status = a.status /\ k.count = a.count
        /\ k.missing = a.missing
        /\ k.base = a.base /\ k.highest = a.highest /\ k.lowest = a.lowest
    <3>1. n + 1 \in Nat
      OBVIOUS
    <3> HIDE DEF b, k
    <3> QED
      BY <1>1, <1>3, <2>1, <3>1, ExpSet
  <2>3. ASSUME WindowOK(h), ~h.in_sequence, n \in h.missing
        PROVE  Filled(h, n, k)
    <3>1. k.missing # {}
      BY <1>2, <1>5, <2>2, <2>3, FS_EmptySet
    <3>2. k.in_sequence = FALSE /\ k.status = FALSE
      BY <1>1, <2>2, <2>3, GroupFields DEF WindowOK
    <3> HIDE DEF b, k
    <3> QED
      BY <1>1, <1>2, <2>2, <2>3, <3>1, <3>2 DEF Filled
  <2> HIDE DEF b, k
  <2> QED
    BY <2>2, <2>3 DEF k
<1> QED
  BY <1>4, <1>5

\* The number a copy expects after n.
LEMMA Advance ==
  ASSUME NEW h \in Group, NEW c \in Copies, NEW n \in Nat
  PROVE  LET k == [h EXCEPT !.exp[c] = n + 1]
         IN  /\ k \in Group
             /\ k.exp[c] = n + 1 /\ k.exp[1 - c] = h.exp[1 - c]
             /\ Most(k) = Larger(n + 1, h.exp[1 - c])
             /\ k.in_sequence = h.in_sequence /\ k.status = h.status
             /\ k.base = h.base /\ k.count = h.count
             /\ k.lowest = h.lowest /\ k.highest = h.highest /\ k.missing = h.missing
<1> DEFINE m == n + 1
<1>1. m \in Nat
  OBVIOUS
<1> HIDE DEF m
<1>2. LET k == [h EXCEPT !.exp[c] = m]
      IN  /\ k \in Group
          /\ k.exp[c] = m /\ k.exp[1 - c] = h.exp[1 - c]
          /\ Most(k) = Larger(m, h.exp[1 - c])
          /\ k.in_sequence = h.in_sequence /\ k.status = h.status
          /\ k.base = h.base /\ k.count = h.count
          /\ k.lowest = h.lowest /\ k.highest = h.highest /\ k.missing = h.missing
  BY <1>1, ExpSet
<1> QED
  BY <1>2 DEF m

\* What need_2_publish does in sequence.
LEMMA InOrderIs ==
  ASSUME NEW s \in Group, NEW c \in Copies, NEW n \in Nat
  PROVE  /\ s.exp[c] \in Nat /\ s.exp[1 - c] \in Nat
         /\ InOrder(s, c, n) =
              IF n < s.exp[c] THEN [g |-> s, pub |-> FALSE]
              ELSE IF n = s.exp[c] \/ n <= s.exp[1 - c]
                   THEN [g |-> [s EXCEPT !.exp[c] = n + 1], pub |-> n >= s.exp[1 - c]]
                   ELSE [g |-> [FirstGap(s, n - Most(s), n, Most(s)) EXCEPT !.exp[c] = n + 1],
                         pub |-> TRUE]
<1>1. s.exp[c] \in Nat /\ s.exp[1 - c] \in Nat
  BY TheOther DEF Group
<1>2. Larger(s.exp[c], s.exp[1 - c]) = Most(s)
  BY MostOf
<1> QED
  BY <1>1, <1>2, Zenon DEF InOrder

\* A number the copy has passed is dropped.
LEMMA InOrderOld ==
  ASSUME NEW s \in Group, NEW c \in Copies, NEW n \in Nat, n < s.exp[c]
  PROVE  InOrder(s, c, n).g = s /\ ~InOrder(s, c, n).pub
<1>1. InOrder(s, c, n) = [g |-> s, pub |-> FALSE]
  BY InOrderIs, Zenon
<1>2. [g |-> s, pub |-> FALSE].g = s /\ ~[g |-> s, pub |-> FALSE].pub
  BY Zenon
<1> QED
  BY <1>1, <1>2, Zenon

\* The number the copy expects, or one the other copy has brought, is published
\* when the other has not brought it.
LEMMA InOrderNext ==
  ASSUME NEW s \in Group, NEW c \in Copies, NEW n \in Nat,
         n >= s.exp[c], n = s.exp[c] \/ n <= s.exp[1 - c]
  PROVE  /\ InOrder(s, c, n).g = [s EXCEPT !.exp[c] = n + 1]
         /\ n >= s.exp[1 - c] <=> InOrder(s, c, n).pub
<1> DEFINE r == InOrder(s, c, n)
<1>1. ~(n < s.exp[c])
  BY InOrderIs
<1>2. r = [g |-> [s EXCEPT !.exp[c] = n + 1], pub |-> n >= s.exp[1 - c]]
  BY <1>1, InOrderIs, Zenon
<1> HIDE DEF r
<1>3. r.g = [s EXCEPT !.exp[c] = n + 1] /\ r.pub = (n >= s.exp[1 - c])
  BY <1>2, Zenon
<1> QED
  BY <1>3, Zenon DEF r

\* A number beyond both opens a gap.
LEMMA InOrderGap ==
  ASSUME NEW s \in Group, NEW c \in Copies, NEW n \in Nat,
         n > s.exp[c], n > s.exp[1 - c]
  PROVE  /\ n > Most(s)
         /\ InOrder(s, c, n).g = [FirstGap(s, n - Most(s), n, Most(s)) EXCEPT !.exp[c] = n + 1]
         /\ InOrder(s, c, n).pub
<1>1. ~(n < s.exp[c]) /\ ~(n = s.exp[c] \/ n <= s.exp[1 - c])
  BY InOrderIs
<1>2. n > Most(s)
  BY InOrderIs, MostOf DEF Larger
<1> DEFINE f == [FirstGap(s, n - Most(s), n, Most(s)) EXCEPT !.exp[c] = n + 1]
<1>3. InOrder(s, c, n) = [g |-> f, pub |-> TRUE]
  BY <1>1, InOrderIs, Zenon
<1> HIDE DEF f
<1>4. [g |-> f, pub |-> TRUE].g = f /\ [g |-> f, pub |-> TRUE].pub
  BY Zenon
<1>5. InOrder(s, c, n).g = f /\ InOrder(s, c, n).pub
  BY <1>3, <1>4, Zenon
<1> QED
  BY <1>2, <1>5 DEF f

\* What need_2_publish does out of sequence.
LEMMA OutOfOrderIs ==
  ASSUME NEW s \in Group, NEW c \in Copies, NEW n \in Nat
  PROVE  OutOfOrder(s, c, n) =
           IF n = Most(s) THEN [g |-> [s EXCEPT !.exp[c] = n + 1], pub |-> TRUE]
           ELSE IF n > Most(s)
           THEN [g |-> [SecondGap(s, n - Most(s), n, Most(s)) EXCEPT !.exp[c] = n + 1], pub |-> TRUE]
           ELSE IF IsSequenceInMissing(s, n)
           THEN [g |-> Fill(s, c, n), pub |-> TRUE]
           ELSE [g |-> s, pub |-> FALSE]
<1> DEFINE my == s.exp[c]
           other == s.exp[1 - c]
           most == Most(s)
           A == [g |-> [s EXCEPT !.exp[c] = n + 1], pub |-> TRUE]
           B == [g |-> [SecondGap(s, n - most, n, most) EXCEPT !.exp[c] = n + 1], pub |-> TRUE]
           C == [g |-> Fill(s, c, n), pub |-> TRUE]
           D == [g |-> s, pub |-> FALSE]
<1>1. my \in Nat /\ other \in Nat
  BY TheOther DEF Group
<1>2. Larger(my, other) = most
  BY MostOf
<1>3. /\ n = most <=> (n = my /\ n >= other) \/ (n >= my /\ n = other)
      /\ n > most <=> n > my /\ n > other
  BY <1>1, <1>2 DEF Larger
<1>4. OutOfOrder(s, c, n) = IF (n = my /\ n >= other) \/ (n >= my /\ n = other) THEN A
                            ELSE IF n > my /\ n > other THEN B
                            ELSE IF IsSequenceInMissing(s, n) THEN C ELSE D
  BY <1>2, Zenon DEF OutOfOrder
<1> HIDE DEF A, B, C, D, my, other, most
<1>5. OutOfOrder(s, c, n) = IF n = most THEN A
                            ELSE IF n > most THEN B
                            ELSE IF IsSequenceInMissing(s, n) THEN C ELSE D
  BY <1>3, <1>4, Zenon
<1> QED
  BY <1>5, Zenon DEF A, B, C, D, most

\* The number the more advanced copy expects.
LEMMA OutOfOrderNext ==
  ASSUME NEW s \in Group, NEW c \in Copies, NEW n \in Nat, n = Most(s)
  PROVE  OutOfOrder(s, c, n).g = [s EXCEPT !.exp[c] = n + 1] /\ OutOfOrder(s, c, n).pub
<1> DEFINE k == [s EXCEPT !.exp[c] = n + 1]
<1>1. OutOfOrder(s, c, n) = [g |-> k, pub |-> TRUE]
  BY OutOfOrderIs, Zenon
<1> HIDE DEF k
<1>2. [g |-> k, pub |-> TRUE].g = k /\ [g |-> k, pub |-> TRUE].pub
  BY Zenon
<1>3. OutOfOrder(s, c, n).g = k /\ OutOfOrder(s, c, n).pub
  BY <1>1, <1>2, Zenon
<1> QED
  BY <1>3, Zenon DEF k

\* A number beyond both copies.
LEMMA OutOfOrderGap ==
  ASSUME NEW s \in Group, NEW c \in Copies, NEW n \in Nat, n > Most(s)
  PROVE  /\ OutOfOrder(s, c, n).g =
              [SecondGap(s, n - Most(s), n, Most(s)) EXCEPT !.exp[c] = n + 1]
         /\ OutOfOrder(s, c, n).pub
<1> DEFINE k == [SecondGap(s, n - Most(s), n, Most(s)) EXCEPT !.exp[c] = n + 1]
<1>0. n # Most(s)
  BY GroupFields
<1>1. OutOfOrder(s, c, n) = [g |-> k, pub |-> TRUE]
  BY <1>0, OutOfOrderIs, Zenon
<1> HIDE DEF k
<1>2. [g |-> k, pub |-> TRUE].g = k /\ [g |-> k, pub |-> TRUE].pub
  BY Zenon
<1>3. OutOfOrder(s, c, n).g = k /\ OutOfOrder(s, c, n).pub
  BY <1>1, <1>2, Zenon
<1> QED
  BY <1>3, Zenon DEF k

\* A missing number, and one neither new nor missing, which is dropped.
LEMMA OutOfOrderBehind ==
  ASSUME NEW s \in Group, NEW c \in Copies, NEW n \in Nat, n < Most(s)
  PROVE  /\ IsSequenceInMissing(s, n) =>
              OutOfOrder(s, c, n).g = Fill(s, c, n) /\ OutOfOrder(s, c, n).pub
         /\ ~IsSequenceInMissing(s, n) =>
              OutOfOrder(s, c, n).g = s /\ ~OutOfOrder(s, c, n).pub
<1> DEFINE k == Fill(s, c, n)
<1>0. n # Most(s) /\ ~(n > Most(s))
  BY GroupFields
<1>1. OutOfOrder(s, c, n) = IF IsSequenceInMissing(s, n) THEN [g |-> k, pub |-> TRUE]
                            ELSE [g |-> s, pub |-> FALSE]
  BY <1>0, OutOfOrderIs, Zenon
<1> HIDE DEF k
<1>2. /\ [g |-> k, pub |-> TRUE].g = k /\ [g |-> k, pub |-> TRUE].pub
      /\ [g |-> s, pub |-> FALSE].g = s /\ ~[g |-> s, pub |-> FALSE].pub
  BY Zenon
<1>3. /\ IsSequenceInMissing(s, n) =>
           OutOfOrder(s, c, n).g = k /\ OutOfOrder(s, c, n).pub
      /\ ~IsSequenceInMissing(s, n) =>
           OutOfOrder(s, c, n).g = s /\ ~OutOfOrder(s, c, n).pub
  BY <1>1, <1>2, Zenon
<1> QED
  BY <1>3, Zenon DEF k

\* Whatever the numbers, a group stays one.
LEMMA NeedType ==
  ASSUME NEW h \in Group, NEW c \in Copies, NEW n \in Nat
  PROVE  NeedToPublish(h, c, n).g \in Group
<1> DEFINE s == Start(h, c, n)
<1>1. s \in Group
  BY StartEffect
<1> HIDE DEF s
<1>2. [s EXCEPT !.exp[c] = n + 1] \in Group
  BY <1>1, Advance
<1>3. CASE s.in_sequence
  <2> DEFINE r == InOrder(s, c, n)
             f == FirstGap(s, n - Most(s), n, Most(s))
  <2>1. NeedToPublish(h, c, n) = r
    BY <1>3 DEF NeedToPublish, s
  <2>2. CASE n < s.exp[c]
    BY <1>1, <2>1, <2>2, InOrderOld
  <2>3. CASE n >= s.exp[c] /\ (n = s.exp[c] \/ n <= s.exp[1 - c])
    BY <1>1, <1>2, <2>1, <2>3, InOrderNext
  <2>4. CASE n > s.exp[c] /\ n > s.exp[1 - c]
    <3>1. n > Most(s) /\ r.g = [f EXCEPT !.exp[c] = n + 1]
      BY <1>1, <2>4, InOrderGap
    <3>2. f \in Group
      BY <1>1, <3>1, FirstGapEffect, GroupFields
    <3> HIDE DEF r, f
    <3>3. r.g \in Group
      BY <3>1, <3>2, Advance
    <3> QED
      BY <2>1, <3>3
  <2>5. \/ n < s.exp[c]
        \/ n >= s.exp[c] /\ (n = s.exp[c] \/ n <= s.exp[1 - c])
        \/ n > s.exp[c] /\ n > s.exp[1 - c]
    <3>1. s.exp[c] \in Nat /\ s.exp[1 - c] \in Nat
      BY <1>1, InOrderIs
    <3> QED
      BY <3>1
  <2> QED
    BY <2>2, <2>3, <2>4, <2>5
<1>4. CASE ~s.in_sequence
  <2> DEFINE p == PassWindow(s, c, n)
             r == OutOfOrder(p, c, n)
             f == SecondGap(p, n - Most(p), n, Most(p))
  <2>1. NeedToPublish(h, c, n) = r
    BY <1>4 DEF NeedToPublish, s
  <2>2. p \in Group
    BY <1>1, PassWindowEffect, PassWindowNot
  <2> HIDE DEF p
  <2>3. n > Most(p) => f \in Group
    BY <2>2, SecondGapAdds, SecondGapRenews, GroupFields
  <2>4. Fill(p, c, n) \in Group
    BY <2>2, FillEffect
  <2>5. /\ [p EXCEPT !.exp[c] = n + 1] \in Group
        /\ n > Most(p) => [f EXCEPT !.exp[c] = n + 1] \in Group
    <3> HIDE DEF f
    <3> QED
      BY <2>2, <2>3, Advance
  <2>6. CASE n = Most(p)
    BY <2>1, <2>2, <2>5, <2>6, OutOfOrderNext
  <2>7. CASE n > Most(p)
    BY <2>1, <2>2, <2>5, <2>7, OutOfOrderGap
  <2>8. CASE n < Most(p)
    BY <2>1, <2>2, <2>4, <2>8, OutOfOrderBehind
  <2>9. n = Most(p) \/ n > Most(p) \/ n < Most(p)
    BY <2>2, GroupFields
  <2> QED
    BY <2>6, <2>7, <2>8, <2>9
<1> QED
  BY <1>3, <1>4

\* What handling number n of copy c makes of group h, when the result is group k:
\* the window stays right and the more advanced copy goes no way back; a number is
\* published only if it is new or missing, and then is behind and not missing; and
\* a number of the window that is not missing was published before, or now, or was
\* passed over by the first packet of the copy.
Merged(h, c, n, k, pub) ==
    /\ k \in Group /\ WindowOK(k) /\ Most(k) >= Most(h)
    /\ pub => /\ n < Most(k) /\ n \notin k.missing
              /\ n >= Most(h) \/ n \in h.missing
    /\ ~k.in_sequence =>
         \A m \in k.base .. Most(k) - 1 :
            \/ m \in k.missing
            \/ pub /\ m = n
            \/ h.exp[c] = 0 /\ Most(h) <= m /\ m < n
            \/ ~h.in_sequence /\ h.base <= m /\ m < Most(h) /\ m \notin h.missing

\* A group in sequence with nothing missing.
LEMMA ClearWindow ==
  ASSUME NEW k \in Group, k.in_sequence = TRUE, k.status = TRUE, k.missing = {}, k.count = 0
  PROVE  WindowOK(k)
  BY FS_EmptySet DEF WindowOK

\* What the copies expect once the first packet of c is there: s is h after Start.
CopyStarted(h, c, n, s) ==
    /\ s \in Group /\ s.exp[c] \in Nat /\ s.exp[1 - c] \in Nat
    /\ Most(s) \in Nat /\ Most(h) \in Nat
    /\ Most(s) >= s.exp[c] /\ Most(s) >= s.exp[1 - c]
    /\ Most(s) \in {s.exp[c], s.exp[1 - c]}
    /\ Most(s) >= Most(h) /\ Most(h) >= s.exp[1 - c]
    /\ h.exp[c] = 0 => s.exp[c] = n /\ Most(h) = s.exp[1 - c]
    /\ h.exp[c] # 0 => s.exp[c] # 0 /\ Most(s) = Most(h)
    /\ s.in_sequence = h.in_sequence /\ s.status = h.status
    /\ s.base = h.base /\ s.count = h.count
    /\ s.lowest = h.lowest /\ s.highest = h.highest /\ s.missing = h.missing

\* Start does so.
LEMMA StartMost ==
  ASSUME NEW h \in Group, NEW c \in Copies, NEW n \in Nat, NEW s, s = Start(h, c, n)
  PROVE  CopyStarted(h, c, n, s)
<1>1. /\ s \in Group
      /\ s.exp[c] = (IF h.exp[c] = 0 THEN n ELSE h.exp[c])
      /\ s.exp[1 - c] = h.exp[1 - c]
      /\ s.in_sequence = h.in_sequence /\ s.status = h.status
      /\ s.base = h.base /\ s.count = h.count
      /\ s.lowest = h.lowest /\ s.highest = h.highest /\ s.missing = h.missing
  BY StartEffect
<1>2. h.exp[c] \in Nat /\ h.exp[1 - c] \in Nat
  BY TheOther DEF Group
<1>3. Most(s) = Larger(s.exp[c], s.exp[1 - c]) /\ Most(h) = Larger(h.exp[c], h.exp[1 - c])
  BY <1>1, MostOf
<1> QED
  BY <1>1, <1>2, <1>3 DEF Larger, CopyStarted

\* In sequence.
LEMMA InOrderMerges ==
  ASSUME NEW h \in Group, NEW c \in Copies, NEW n \in Nat, WindowOK(h), h.in_sequence,
         NEW s, s = Start(h, c, n), NEW r, r = InOrder(s, c, n)
  PROVE  Merged(h, c, n, r.g, r.pub)
<1>1. /\ s \in Group /\ s.exp[c] \in Nat /\ s.exp[1 - c] \in Nat
      /\ Most(s) \in Nat /\ Most(h) \in Nat
      /\ Most(s) >= s.exp[c] /\ Most(s) >= s.exp[1 - c]
      /\ Most(s) \in {s.exp[c], s.exp[1 - c]}
      /\ Most(s) >= Most(h)
      /\ h.exp[c] = 0 => s.exp[c] = n /\ Most(h) = s.exp[1 - c]
      /\ h.exp[c] # 0 => s.exp[c] # 0 /\ Most(s) = Most(h)
  <2>1. CopyStarted(h, c, n, s)
    BY StartMost
  <2> QED
    BY <2>1 DEF CopyStarted
<1>2. s.in_sequence = TRUE /\ s.status = TRUE /\ s.missing = {} /\ s.count = 0
  <2>1. h.in_sequence = TRUE /\ h.status = TRUE /\ h.missing = {} /\ h.count = 0
    BY GroupFields, FS_EmptySet DEF WindowOK
  <2>2. CopyStarted(h, c, n, s)
    BY StartMost
  <2> QED
    BY <2>1, <2>2 DEF CopyStarted
<1>3. CASE n < s.exp[c]
  <2>1. r.g = s /\ ~r.pub
    BY <1>1, <1>3, InOrderOld
  <2>2. WindowOK(s)
    BY <1>1, <1>2, ClearWindow
  <2> QED
    BY <1>1, <1>2, <2>1, <2>2 DEF Merged
<1>4. CASE n >= s.exp[c] /\ (n = s.exp[c] \/ n <= s.exp[1 - c])
  <2> DEFINE k == [s EXCEPT !.exp[c] = n + 1]
  <2>1. r.g = k /\ (n >= s.exp[1 - c] <=> r.pub)
    BY <1>1, <1>4, InOrderNext
  <2>2. /\ k \in Group /\ Most(k) = Larger(n + 1, s.exp[1 - c])
        /\ k.in_sequence = TRUE /\ k.status = TRUE /\ k.missing = {} /\ k.count = 0
    BY <1>1, <1>2, Advance
  <2> HIDE DEF k
  <2>3. WindowOK(k)
    BY <2>2, ClearWindow
  <2>4. Most(k) >= Most(s) /\ n < Most(k)
    BY <1>1, <1>4, <2>2 DEF Larger
  <2>5. n >= s.exp[1 - c] => n >= Most(h)
    BY <1>1, <1>4
  <2>6. Most(k) >= Most(h)
    BY <1>1, <2>2, <2>4, GroupFields
  <2> QED
    BY <2>1, <2>2, <2>3, <2>4, <2>5, <2>6 DEF Merged
<1>5. CASE n > s.exp[c] /\ n > s.exp[1 - c]
  <2> DEFINE f == FirstGap(s, n - Most(s), n, Most(s))
             k == [f EXCEPT !.exp[c] = n + 1]
  <2>1. n > Most(s) /\ r.g = k /\ r.pub
    BY <1>1, <1>5, InOrderGap
  <2>2. Most(s) = Most(h) /\ Most(s) > 0 /\ h.exp[c] # 0
    BY <1>1, <1>5
  <2>3. /\ f \in Group /\ f.exp = s.exp
        /\ n - Most(s) > MISSING_RANGE =>
             /\ f.in_sequence = s.in_sequence /\ f.status = s.status
             /\ f.missing = {} /\ f.count = 0
        /\ n - Most(s) <= MISSING_RANGE =>
             /\ f.in_sequence = FALSE /\ f.status = FALSE
             /\ Most(s) > 0 => /\ f.base = Most(s) /\ f.lowest = Most(s) /\ f.highest = n - 1
                               /\ f.missing = Most(s) .. n - 1 /\ f.count = n - Most(s)
    <3> DEFINE most == Most(s)
    <3>1. s \in Group /\ most \in Nat /\ n > most
      BY <1>1, <2>1
    <3> HIDE DEF most
    <3>2. LET e == FirstGap(s, n - most, n, most)
          IN  /\ e \in Group /\ e.exp = s.exp
              /\ n - most > MISSING_RANGE =>
                   /\ e.in_sequence = s.in_sequence /\ e.status = s.status
                   /\ e.missing = {} /\ e.count = 0
              /\ n - most <= MISSING_RANGE =>
                   /\ e.in_sequence = FALSE /\ e.status = FALSE
                   /\ most > 0 => /\ e.base = most /\ e.lowest = most /\ e.highest = n - 1
                                  /\ e.missing = most .. n - 1 /\ e.count = n - most
      BY <3>1, FirstGapEffect
    <3> QED
      BY <3>2 DEF most
  <2> HIDE DEF f
  <2>4. /\ k \in Group /\ k.exp[c] = n + 1 /\ k.exp[1 - c] = s.exp[1 - c]
        /\ Most(k) = Larger(n + 1, s.exp[1 - c])
        /\ k.in_sequence = f.in_sequence /\ k.status = f.status
        /\ k.base = f.base /\ k.count = f.count
        /\ k.lowest = f.lowest /\ k.highest = f.highest /\ k.missing = f.missing
    BY <2>3, Advance
  <2> HIDE DEF k
  <2>5. Most(k) = n + 1
    BY <1>1, <1>5, <2>4 DEF Larger
  <2>6. CASE n - Most(s) > MISSING_RANGE
    <3>1. k.in_sequence = TRUE /\ k.status = TRUE /\ k.missing = {} /\ k.count = 0
      BY <1>2, <2>3, <2>4, <2>6
    <3>2. WindowOK(k)
      BY <2>4, <3>1, ClearWindow
    <3> QED
      BY <1>1, <2>1, <2>2, <2>4, <2>5, <3>1, <3>2 DEF Merged
  <2>7. CASE n - Most(s) <= MISSING_RANGE
    <3>1. /\ k.in_sequence = FALSE /\ k.status = FALSE
          /\ k.base = Most(s) /\ k.lowest = Most(s) /\ k.highest = n - 1
          /\ k.missing = Most(s) .. n - 1 /\ k.count = n - Most(s)
      BY <2>2, <2>3, <2>4, <2>7
    <3>2. IsFiniteSet(k.missing) /\ k.count = Cardinality(k.missing)
      <4>1. Most(s) \in Int /\ n - 1 \in Int /\ ~(Most(s) > n - 1) /\ (n - 1) - Most(s) + 1 = n - Most(s)
        BY <1>1, <2>1
      <4>2. IsFiniteSet(Most(s) .. n - 1) /\ Cardinality(Most(s) .. n - 1) = (n - 1) - Most(s) + 1
        BY <4>1, FS_Interval
      <4> QED
        BY <3>1, <4>1, <4>2
    <3>3. k.missing # {} /\ Most(s) \in k.missing
      BY <1>1, <2>1, <3>1
    <3>4. InWindow(k)
      BY <1>1, <2>1, <2>2, <2>5, <2>7, <3>1, <3>3, HalfRange DEF InWindow
    <3>5. WindowOK(k)
      BY <3>1, <3>2, <3>3, <3>4 DEF WindowOK
    <3>6. \A m \in k.base .. Most(k) - 1 : m \in k.missing \/ m = n
      BY <1>1, <2>1, <2>5, <3>1
    <3>7. n < Most(k) /\ n \notin k.missing /\ n >= Most(h) /\ Most(k) >= Most(h)
      BY <1>1, <2>1, <2>2, <2>5, <3>1
    <3> QED
      BY <2>1, <2>4, <3>5, <3>6, <3>7 DEF Merged
  <2>8. n - Most(s) > MISSING_RANGE \/ n - Most(s) <= MISSING_RANGE
    BY <1>1, HalfRange
  <2> QED
    BY <2>6, <2>7, <2>8
<1>6. \/ n < s.exp[c]
      \/ n >= s.exp[c] /\ (n = s.exp[c] \/ n <= s.exp[1 - c])
      \/ n > s.exp[c] /\ n > s.exp[1 - c]
  BY <1>1
<1> QED
  BY <1>3, <1>4, <1>5, <1>6

\* The window of a group out of sequence.
LEMMA OpenWindow ==
  ASSUME NEW k \in Group, k.in_sequence = FALSE, k.status = FALSE,
         IsFiniteSet(k.missing), k.count = Cardinality(k.missing), InWindow(k)
  PROVE  WindowOK(k)
<1>1. k.missing # {}
  BY DEF InWindow
<1> QED
  BY <1>1 DEF WindowOK

\* With the window given up, the number is the next.
LEMMA GivenUp ==
  ASSUME NEW p \in Group, NEW c \in Copies, NEW n \in Nat, p.exp[c] = n, p.exp[1 - c] <= n,
         Sequenced(p), p.count = 0, p.missing = {},
         NEW r, r = OutOfOrder(p, c, n)
  PROVE  r.g \in Group /\ WindowOK(r.g) /\ Most(r.g) = n + 1 /\ r.g.missing = {} /\ r.pub
<1>0. p.exp[1 - c] \in Nat
  BY TheOther DEF Group
<1>1. Most(p) = n
  <2>1. Most(p) = Larger(p.exp[c], p.exp[1 - c])
    BY MostOf
  <2> QED
    BY <1>0, <2>1 DEF Larger
<1> DEFINE k == [p EXCEPT !.exp[c] = n + 1]
<1>2. r.g = k /\ r.pub
  BY <1>1, OutOfOrderNext
<1>3. /\ k \in Group /\ Most(k) = Larger(n + 1, p.exp[1 - c])
      /\ k.in_sequence = p.in_sequence /\ k.status = p.status
      /\ k.count = p.count /\ k.missing = p.missing
  BY Advance
<1> HIDE DEF k
<1>4. Most(k) = n + 1
  BY <1>0, <1>3 DEF Larger
<1>5. WindowOK(k)
  BY <1>3, ClearWindow DEF Sequenced
<1> QED
  BY <1>2, <1>3, <1>4, <1>5

\* Out of sequence, a number beyond the window: everything in it is given up.
LEMMA PassMerges ==
  ASSUME NEW h \in Group, NEW c \in Copies, NEW n \in Nat, WindowOK(h), ~h.in_sequence,
         NEW s, CopyStarted(h, c, n, s), Beyond(s, n),
         NEW p, p = PassWindow(s, c, n), NEW r, r = OutOfOrder(p, c, n)
  PROVE  Merged(h, c, n, r.g, r.pub)
<1>1. s \in Group /\ s.exp[1 - c] \in Nat /\ s.base = h.base /\ Most(h) \in Nat /\ s.exp[1 - c] <= Most(h)
  BY DEF CopyStarted
<1>2. Most(h) <= n
  BY <1>1, HalfRange, GroupFields DEF WindowOK, InWindow, Beyond
<1>3. /\ p \in Group /\ p.exp[c] = n /\ p.exp[1 - c] = s.exp[1 - c]
      /\ Sequenced(p) /\ p.count = 0 /\ p.missing = {}
  BY <1>1, PassWindowEffect
<1>4. p.exp[1 - c] <= n
  BY <1>1, <1>2, <1>3
<1>5. r.g \in Group /\ WindowOK(r.g) /\ Most(r.g) = n + 1 /\ r.g.missing = {} /\ r.pub
  BY <1>3, <1>4, GivenUp
<1>6. r.g.in_sequence
  BY <1>5 DEF WindowOK
<1>7. n < Most(r.g) /\ Most(r.g) >= Most(h) /\ n >= Most(h)
  BY <1>1, <1>2, <1>5
<1> QED
  BY <1>5, <1>6, <1>7 DEF Merged

\* Out of sequence, the number the more advanced copy expects.
LEMMA NextMerges ==
  ASSUME NEW h \in Group, NEW c \in Copies, NEW n \in Nat, WindowOK(h), ~h.in_sequence,
         NEW s, CopyStarted(h, c, n, s), ~Beyond(s, n), n = Most(s),
         NEW r, r = OutOfOrder(s, c, n)
  PROVE  Merged(h, c, n, r.g, r.pub)
<1>1. /\ s \in Group /\ s.exp[1 - c] \in Nat /\ s.base = h.base
      /\ Most(h) \in Nat /\ Most(s) \in Nat
      /\ s.exp[1 - c] <= Most(s) /\ Most(h) <= Most(s)
      /\ h.exp[c] # 0 => Most(s) = Most(h)
  BY DEF CopyStarted
<1>2. /\ s.in_sequence = FALSE /\ s.status = FALSE /\ s.count = h.count
      /\ s.lowest = h.lowest /\ s.highest = h.highest /\ s.missing = h.missing
  BY GroupFields DEF CopyStarted, WindowOK
<1>3. InWindow(h) /\ IsFiniteSet(h.missing) /\ h.count = Cardinality(h.missing)
  BY DEF WindowOK
<1> DEFINE k == [s EXCEPT !.exp[c] = n + 1]
<1>4. r.g = k /\ r.pub
  BY <1>1, OutOfOrderNext
<1>5. /\ k \in Group /\ Most(k) = Larger(n + 1, s.exp[1 - c])
      /\ k.in_sequence = s.in_sequence /\ k.status = s.status
      /\ k.base = s.base /\ k.count = s.count
      /\ k.lowest = s.lowest /\ k.highest = s.highest /\ k.missing = s.missing
  BY <1>1, Advance
<1> HIDE DEF k
<1>6. Most(k) = n + 1
  BY <1>1, <1>5 DEF Larger
<1>7. \A m \in h.missing : m \in Nat /\ m < n
  BY <1>1, <1>3, GroupFields DEF InWindow
<1>12. n <= s.base + MISSING_RANGE
  BY <1>1, GroupFields, HalfRange DEF Beyond
<1>8. InWindow(k)
  BY <1>12, <1>1, <1>2, <1>3, <1>5, <1>6, <1>7, GroupFields, HalfRange DEF InWindow
<1>9. WindowOK(k)
  BY <1>2, <1>3, <1>5, <1>8, OpenWindow
<1>10. ASSUME NEW m \in k.base .. Most(k) - 1
       PROVE  \/ m \in k.missing
              \/ m = n
              \/ h.exp[c] = 0 /\ Most(h) <= m /\ m < n
              \/ h.base <= m /\ m < Most(h) /\ m \notin h.missing
  <2>1. m \in Int /\ h.base <= m /\ m <= n
    BY <1>1, <1>5, <1>6, GroupFields
  <2> QED
    BY <1>1, <1>2, <1>5, <2>1
<1>11. n < Most(k) /\ Most(k) >= Most(h) /\ n >= Most(h) /\ n \notin k.missing
  BY <1>1, <1>2, <1>5, <1>6, <1>7
<1> QED
  BY <1>4, <1>5, <1>9, <1>10, <1>11 DEF Merged

\* Out of sequence, a number beyond both copies: a second gap.
LEMMA GapMerges ==
  ASSUME NEW h \in Group, NEW c \in Copies, NEW n \in Nat, WindowOK(h), ~h.in_sequence,
         NEW s, CopyStarted(h, c, n, s), ~Beyond(s, n), n > Most(s),
         NEW r, r = OutOfOrder(s, c, n)
  PROVE  Merged(h, c, n, r.g, r.pub)
<1> DEFINE most == Most(h)
<1>1. /\ s \in Group /\ s.exp[1 - c] \in Nat /\ s.base = h.base
      /\ most \in Nat /\ Most(s) = most /\ s.exp[1 - c] <= most
  BY DEF CopyStarted
<1>2. /\ s.in_sequence = FALSE /\ s.status = FALSE /\ s.count = h.count
      /\ s.lowest = h.lowest /\ s.highest = h.highest /\ s.missing = h.missing
  BY GroupFields DEF CopyStarted, WindowOK
<1>3. InWindow(h) /\ IsFiniteSet(h.missing) /\ h.count = Cardinality(h.missing)
  BY DEF WindowOK
<1>0. s.count # 0 /\ most > s.base
  BY <1>1, <1>2, <1>3, FS_EmptySet DEF InWindow
<1> DEFINE f == SecondGap(s, n - most, n, most)
           k == [f EXCEPT !.exp[c] = n + 1]
<1>4. r.g = k /\ r.pub
  BY <1>1, OutOfOrderGap
<1> DEFINE half == MISSING_RANGE \div 2
<1>13. n > most
  BY <1>1
<1> HIDE DEF most
<1>5. /\ f \in Group /\ f.exp = s.exp
      /\ f.in_sequence = s.in_sequence /\ f.status = s.status
  BY <1>1, <1>13, SecondGapAdds, SecondGapRenews
<1>14. ASSUME Within(s, n)
       PROVE  /\ f.base = s.base /\ f.lowest = s.lowest
              /\ f.highest >= n - 1 /\ f.highest >= s.highest
              /\ f.missing = s.missing \cup (most .. n - 1)
              /\ f.count = s.count + (n - most)
  BY <1>0, <1>1, <1>13, <1>14, SecondGapAdds
<1>15. ASSUME ~Within(s, n)
       PROVE  /\ f.base = n - half /\ f.lowest = n - half /\ f.highest = n - 1
              /\ f.missing = (n - half) .. (n - 1) /\ f.count = half
  BY <1>1, <1>13, <1>15, SecondGapRenews
<1> HIDE DEF f
<1>6. /\ k \in Group /\ Most(k) = Larger(n + 1, f.exp[1 - c])
      /\ k.in_sequence = FALSE /\ k.status = FALSE
      /\ k.base = f.base /\ k.count = f.count
      /\ k.lowest = f.lowest /\ k.highest = f.highest /\ k.missing = f.missing
  BY <1>2, <1>5, Advance
<1> HIDE DEF k
<1>7. Most(k) = n + 1 /\ n > most
  BY <1>1, <1>5, <1>6 DEF Larger
<1>8. n < Most(k) /\ Most(k) >= Most(h) /\ n >= Most(h)
  BY <1>1, <1>7 DEF most
<1>12. n <= s.base + MISSING_RANGE
  BY <1>1, GroupFields, HalfRange DEF Beyond
<1>9. CASE Within(s, n)
  <2>0. n < s.base + MISSING_RANGE
    BY <1>9 DEF Within
  <2>1. /\ k.base = h.base /\ k.lowest = h.lowest
        /\ k.highest >= n - 1 /\ k.highest >= h.highest
        /\ k.missing = h.missing \cup (most .. n - 1)
        /\ k.count = h.count + (n - most)
    BY <1>1, <1>2, <1>6, <1>9, <1>14
  <2>2. \A m \in h.missing : /\ m \in Nat /\ h.base <= m /\ m < h.base + MISSING_RANGE /\ m < most
                             /\ h.lowest <= m /\ m <= h.highest
    BY <1>3, GroupFields DEF InWindow, most
  <2>3. h.lowest \in h.missing /\ 0 < h.base /\ h.base < most
    BY <1>3 DEF InWindow, most
  <2>4. InWindow(k)
    <3>0. k.highest \in Nat /\ h.highest \in Nat /\ h.lowest \in Nat /\ h.base \in Nat
      BY <1>6, GroupFields
    <3>1. ASSUME NEW m \in k.missing
          PROVE  /\ k.base <= m /\ m < k.base + MISSING_RANGE /\ m < Most(k)
                 /\ k.lowest <= m /\ m <= k.highest
      <4>1. CASE m \in h.missing
        BY <1>1, <1>7, <2>1, <2>2, <3>0, <4>1, HalfRange
      <4>2. CASE m \in most .. n - 1
        BY <1>1, <1>7, <2>0, <2>1, <2>2, <2>3, <3>0, <4>2, HalfRange
      <4> QED
        BY <2>1, <4>1, <4>2
    <3>2. 0 < k.base /\ k.base < Most(k) /\ Most(k) <= k.base + MISSING_RANGE + 1
      BY <1>1, <1>7, <2>0, <2>1, <2>3, <3>0, HalfRange
    <3> QED
      BY <2>1, <2>3, <3>1, <3>2 DEF InWindow
  <2>5. IsFiniteSet(k.missing) /\ k.count = Cardinality(k.missing)
    <3> DEFINE b == n - 1
               J == most .. b
    <3>1. most \in Int /\ b \in Int /\ ~(most > b) /\ b - most + 1 = n - most /\ n - most \in Nat
      BY <1>1, <1>7
    <3>2. h.missing \cap J = {} /\ k.missing = h.missing \cup J
      BY <1>1, <2>1, <2>2
    <3> HIDE DEF b
    <3>3. IsFiniteSet(J) /\ Cardinality(J) = b - most + 1
      BY <3>1, FS_Interval
    <3> HIDE DEF J
    <3>4. /\ IsFiniteSet(h.missing \cup J)
          /\ Cardinality(h.missing \cup J) =
               Cardinality(h.missing) + Cardinality(J) - Cardinality(h.missing \cap J)
      BY <1>3, <3>3, FS_Union
    <3>5. Cardinality({}) = 0 /\ Cardinality(h.missing) \in Nat
      BY <1>3, FS_EmptySet, FS_CardinalityType
    <3>7. Cardinality(h.missing \cap J) = 0 /\ Cardinality(J) = n - most
      BY <3>1, <3>2, <3>3, <3>5
    <3>6. Cardinality(h.missing \cup J) = h.count + (n - most)
      BY <1>1, <1>3, <3>1, <3>4, <3>5, <3>7
    <3> QED
      BY <2>1, <3>2, <3>4, <3>6
  <2>6. WindowOK(k)
    BY <1>6, <2>4, <2>5, OpenWindow
  <2>7. ASSUME NEW m \in k.base .. Most(k) - 1
        PROVE  \/ m \in k.missing
               \/ m = n
               \/ h.base <= m /\ m < Most(h) /\ m \notin h.missing
    <3>1. m \in Int /\ h.base <= m /\ m <= n
      BY <1>7, <2>1, GroupFields
    <3> QED
      BY <1>1, <2>1, <3>1 DEF most
  <2>8. n \notin k.missing
    BY <1>1, <1>7, <2>1, <2>2
  <2> QED
    BY <1>4, <1>6, <1>8, <2>6, <2>7, <2>8 DEF Merged
<1>10. CASE ~Within(s, n)
  <2>1. /\ k.base = n - half /\ k.lowest = n - half /\ k.highest = n - 1
        /\ k.missing = (n - half) .. (n - 1) /\ k.count = half
    BY <1>6, <1>10, <1>15
  <2>2. half \in Nat \ {0} /\ half < MISSING_RANGE /\ MISSING_RANGE \in Nat /\ n > half
    BY <1>1, <1>10, HalfRange, GroupFields DEF Within
  <2> HIDE DEF half
  <2>3. InWindow(k)
    BY <1>7, <2>1, <2>2 DEF InWindow
  <2>4. IsFiniteSet(k.missing) /\ k.count = Cardinality(k.missing)
    <3>1. n - half \in Int /\ n - 1 \in Int /\ ~(n - half > n - 1) /\ (n - 1) - (n - half) + 1 = half
      BY <2>2
    <3> DEFINE a == n - half
               b == n - 1
    <3>2. a \in Int /\ b \in Int /\ ~(a > b) /\ b - a + 1 = half /\ k.missing = a .. b
      BY <2>1, <3>1
    <3> HIDE DEF a, b
    <3>3. IsFiniteSet(a .. b) /\ Cardinality(a .. b) = b - a + 1
      BY <3>2, FS_Interval
    <3> QED
      BY <2>1, <3>2, <3>3
  <2>5. WindowOK(k)
    BY <1>6, <2>3, <2>4, OpenWindow
  <2>6. \A m \in k.base .. Most(k) - 1 : m \in k.missing \/ m = n
    BY <1>7, <2>1, <2>2
  <2>7. n \notin k.missing
    BY <2>1
  <2> QED
    BY <1>4, <1>6, <1>8, <2>5, <2>6, <2>7 DEF Merged
<1> QED
  BY <1>9, <1>10

\* Out of sequence, a number behind: it was missing, or is dropped.
LEMMA BehindMerges ==
  ASSUME NEW h \in Group, NEW c \in Copies, NEW n \in Nat, WindowOK(h), ~h.in_sequence,
         NEW s, CopyStarted(h, c, n, s), n < Most(s),
         NEW r, r = OutOfOrder(s, c, n)
  PROVE  Merged(h, c, n, r.g, r.pub)
<1>1. /\ s \in Group /\ s.exp[c] \in Nat /\ s.exp[1 - c] \in Nat
      /\ Most(s) \in Nat /\ Most(s) = Most(h) /\ s.exp[1 - c] <= Most(s) /\ s.exp[c] <= Most(s)
      /\ Most(s) \in {s.exp[c], s.exp[1 - c]}
  BY DEF CopyStarted
<1>2. /\ s.in_sequence = h.in_sequence /\ s.status = h.status /\ s.count = h.count
      /\ s.base = h.base
      /\ s.lowest = h.lowest /\ s.highest = h.highest /\ s.missing = h.missing
  BY DEF CopyStarted
<1>3. InWindow(s) /\ WindowOK(s) /\ ~s.in_sequence
  BY <1>1, <1>2 DEF WindowOK, InWindow
<1>4. CASE IsSequenceInMissing(s, n)
  <2> DEFINE k == Fill(s, c, n)
  <2>1. r.g = k /\ r.pub
    BY <1>1, <1>4, OutOfOrderBehind
  <2>2. n \in s.missing
    BY <1>4 DEF IsSequenceInMissing
  <2>3. /\ k \in Group
        /\ k.exp[c] = (IF n >= s.exp[c] THEN n + 1 ELSE s.exp[c])
        /\ k.exp[1 - c] = s.exp[1 - c]
        /\ Filled(s, n, k)
    BY <1>1, <1>3, <2>2, FillEffect
  <2> HIDE DEF k
  <2>4. Most(k) = Most(s)
    <3>1. Most(k) = Larger(k.exp[c], k.exp[1 - c])
      BY <2>3, MostOf
    <3> QED
      BY <1>1, <2>3, <3>1 DEF Larger
  <2>5. k.missing # {} => InWindow(k)
    BY <1>3, <2>3, <2>4 DEF InWindow, Filled
  <2>6. WindowOK(k)
    BY <2>3, <2>5 DEF WindowOK, Filled
  <2>7. ASSUME ~k.in_sequence, NEW m \in k.base .. Most(k) - 1
        PROVE  \/ m \in k.missing \/ m = n
               \/ h.base <= m /\ m < Most(h) /\ m \notin h.missing
    <3>1. k.base = h.base /\ k.missing = h.missing \ {n} /\ h.base \in Nat
      BY <1>2, <2>3, <2>7, GroupFields DEF Filled
    <3> QED
      BY <1>1, <2>4, <2>7, <3>1
  <2>8. n < Most(k) /\ n \notin k.missing /\ n \in h.missing /\ Most(k) >= Most(h)
    BY <1>1, <1>2, <2>2, <2>3, <2>4 DEF Filled
  <2> QED
    BY <2>1, <2>3, <2>6, <2>7, <2>8 DEF Merged
<1>5. CASE ~IsSequenceInMissing(s, n)
  <2>1. r.g = s /\ ~r.pub
    BY <1>1, <1>5, OutOfOrderBehind
  <2>2. ASSUME NEW m \in s.base .. Most(s) - 1
        PROVE  m \in s.missing \/ (h.base <= m /\ m < Most(h) /\ m \notin h.missing)
    BY <1>1, <1>2, GroupFields
  <2>3. Most(s) >= Most(h)
    BY <1>1
  <2> QED
    BY <1>1, <1>3, <2>1, <2>2, <2>3 DEF Merged
<1> QED
  BY <1>4, <1>5

\* What need_2_publish makes of a group whose window is right.
LEMMA NeedMerges ==
  ASSUME NEW h \in Group, NEW c \in Copies, NEW n \in Nat, WindowOK(h),
         NEW r, r = NeedToPublish(h, c, n)
  PROVE  Merged(h, c, n, r.g, r.pub)
<1> DEFINE s == Start(h, c, n)
           p == PassWindow(s, c, n)
<1>1. CopyStarted(h, c, n, s)
  BY StartMost
<1>2. r = IF s.in_sequence THEN InOrder(s, c, n) ELSE OutOfOrder(p, c, n)
  BY DEF NeedToPublish
<1>3. s \in Group /\ s.in_sequence = h.in_sequence /\ Most(s) \in Nat
  BY <1>1 DEF CopyStarted
<1>4. CASE h.in_sequence
  <2>1. r = InOrder(s, c, n)
    BY <1>2, <1>3, <1>4
  <2> QED
    BY <1>4, <2>1, InOrderMerges
<1>5. CASE ~h.in_sequence
  <2>1. r = OutOfOrder(p, c, n)
    BY <1>2, <1>3, <1>5
  <2> HIDE DEF s
  <2>2. CASE Beyond(s, n)
    BY <1>1, <1>5, <2>1, <2>2, PassMerges
  <2>3. CASE ~Beyond(s, n)
    <3>1. p = s
      BY <1>3, <2>3, PassWindowNot
    <3>2. r = OutOfOrder(s, c, n)
      BY <2>1, <3>1
    <3>3. n = Most(s) \/ n > Most(s) \/ n < Most(s)
      BY <1>3
    <3> QED
      BY <1>1, <1>5, <2>3, <3>2, <3>3, NextMerges, GapMerges, BehindMerges
  <2> QED
    BY <2>2, <2>3
<1> QED
  BY <1>4, <1>5

-----------------------------------------------------------------------------
(* What the messages of a packet do to the group.                          *)

\* k has the window of h.
SameWindow(h, k) ==
    /\ k \in Group /\ k.in_sequence = h.in_sequence /\ k.status = h.status
    /\ k.base = h.base /\ k.count = h.count
    /\ k.lowest = h.lowest /\ k.highest = h.highest /\ k.missing = h.missing

\* The work on a packet.
Work(w) == {"feed", "p", "g", "d", "rc", "stop"} \subseteq DOMAIN w /\ w.g \in Group /\ w.p \in ArcaPacket

\* The work goes on with the same packet and the same window; only a reset
\* changes what the copies expect.
GoesOn(w, v) ==
    /\ Work(v) /\ v.p = w.p /\ SameWindow(w.g, v.g)
    /\ w.p.type # "reset" => v.g.exp = w.g.exp

\* A step that does nothing to packet and group.
LEMMA Untouched ==
  ASSUME NEW w, NEW v, Work(w), DOMAIN v = DOMAIN w, v.p = w.p, v.g = w.g
  PROVE  GoesOn(w, v)
  BY DEF Work, GoesOn, SameWindow

\* A step that gives the group another loss or alert.
LEMMA Regrouped ==
  ASSUME NEW w, NEW v, Work(w), DOMAIN v = DOMAIN w, v.p = w.p,
         v.g.exp = w.g.exp, SameWindow(w.g, v.g)
  PROVE  GoesOn(w, v)
<1>1. v.g \in Group
  BY DEF SameWindow
<1> QED
  BY <1>1 DEF Work, GoesOn

\* One step after another.
LEMMA GoesFurther ==
  ASSUME NEW u, NEW v, NEW w, GoesOn(u, v), GoesOn(v, w)
  PROVE  GoesOn(u, w)
  BY DEF GoesOn, SameWindow

\* A message that only publishes.
LEMMA PublishedGoesOn ==
  ASSUME NEW w, NEW e, Work(w)
  PROVE  GoesOn(w, Published(w, e))
<1> DEFINE v == Published(w, e)
<1>1. DOMAIN v = DOMAIN w /\ v.p = w.p /\ v.g = w.g
  BY DEF Published, Work
<1> QED
  BY <1>1, Untouched

\* The group is told of a loss.
LEMMA LossGoesOn ==
  ASSUME NEW w, NEW first \in Int, NEW size \in Int, NEW n, Work(w)
  PROVE  GoesOn(w, [w EXCEPT !.g = NotifyPacketLoss(@, first, size), !.rc = n])
<1> DEFINE k == NotifyPacketLoss(w.g, first, size)
           v == [w EXCEPT !.g = k, !.rc = n]
<1>1. SameWindow(w.g, k) /\ k.exp = w.g.exp
  BY LossNoticed DEF SameWindow, Work
<1> HIDE DEF k
<1>2. DOMAIN v = DOMAIN w /\ v.p = w.p /\ v.g = k
  BY DEF Work
<1> HIDE DEF v
<1>3. GoesOn(w, v)
  BY <1>1, <1>2, Regrouped
<1> QED
  BY <1>3 DEF v, k

\* The exchange's notice that messages are unavailable.
LEMMA UnavailableGoesOn ==
  ASSUME NEW w, NEW m \in ArcaMsg, Work(w)
  PROVE  GoesOn(w, Unavailable(w, m))
<1> DEFINE b == ParseMessageUnavailable(m)
           k == NotifyPacketLoss(w.g, b.lo, b.hi - b.lo)
           v == [w EXCEPT !.g = k]
<1>1. b.lo \in Int /\ b.hi - b.lo \in Int
  BY DEF ParseMessageUnavailable, Body, Body0, ArcaMsg
<1> HIDE DEF b
<1>2. SameWindow(w.g, k) /\ k.exp = w.g.exp
  BY <1>1, LossNoticed DEF SameWindow, Work
<1> HIDE DEF k
<1>3. DOMAIN v = DOMAIN w /\ v.p = w.p /\ v.g = k
  BY DEF Work
<1> HIDE DEF v
<1>4. GoesOn(w, v)
  BY <1>2, <1>3, Regrouped
<1>5. GoesOn(v, Published(v, w.d))
  BY <1>4, PublishedGoesOn DEF GoesOn
<1>6. Unavailable(w, m) = Published(v, w.d)
  BY DEF Unavailable, b, k, v
<1> QED
  BY <1>4, <1>5, <1>6, GoesFurther

\* A sequence reset.
LEMMA ResetGoesOn ==
  ASSUME NEW w, NEW m \in ArcaMsg, Work(w), w.p.type = "reset"
  PROVE  GoesOn(w, ResetSequence(w, m))
<1> DEFINE b == ParseSequenceNumberReset(m)
           x == [c \in Copies |-> b.next]
           k == [w.g EXCEPT !.exp = x]
           v == [w EXCEPT !.g = k]
           e == PublishStartOfDay(w.d, b)
<1>1. b.next \in Nat
  BY DEF ParseSequenceNumberReset, Body, Body0, ArcaMsg
<1>2. x \in [Copies -> Nat]
  BY <1>1
<1> HIDE DEF x
<1>3. SameWindow(w.g, k)
  BY <1>2 DEF SameWindow, Group, Work
<1> HIDE DEF k
<1>4. DOMAIN v = DOMAIN w /\ v.p = w.p /\ v.g = k
  BY DEF Work
<1> HIDE DEF v
<1>5. GoesOn(w, v)
  <2>1. v.g \in Group
    BY <1>3, <1>4 DEF SameWindow
  <2> QED
    BY <1>3, <1>4, <2>1 DEF GoesOn, Work
<1>6. GoesOn(v, Published(v, e))
  BY <1>5, PublishedGoesOn DEF GoesOn
<1>7. ResetSequence(w, m) = Published(v, e)
  BY DEF ResetSequence, b, x, k, v, e
<1> QED
  BY <1>5, <1>6, <1>7, GoesFurther

\* A packet of an unknown type.
LEMMA UnknownGoesOn ==
  ASSUME NEW w, Work(w)
  PROVE  GoesOn(w, UnknownType(w))
<1>1. w.p.sn \in Int /\ 1 \in Int
  BY DEF Work, ArcaPacket
<1> QED
  BY <1>1, LossGoesOn, Zenon DEF UnknownType

\* An order message.
LEMMA OrdersGoesOn ==
  ASSUME NEW w, NEW m, Work(w)
  PROVE  GoesOn(w, Orders(w, m))
<1>1. w.p.sn \in Int /\ 1 \in Int
  BY DEF Work, ArcaPacket
<1>2. GoesOn(w, [w EXCEPT !.g = NotifyPacketLoss(@, w.p.sn, 1), !.rc = 1])
  BY <1>1, LossGoesOn, Zenon
<1> DEFINE b == ParseOrders(m)
<1> HIDE DEF b
<1>3. \/ \E e : Orders(w, m) = Published(w, e)
      \/ Orders(w, m) = [w EXCEPT !.g = NotifyPacketLoss(@, w.p.sn, 1), !.rc = 1]
  BY Zenon DEF Orders, b
<1> QED
  BY <1>2, <1>3, PublishedGoesOn

\* A message of a book or of a trade packet.
LEMMA MesgGoesOn ==
  ASSUME NEW w, NEW m \in ArcaMsg, NEW first, Work(w)
  PROVE  GoesOn(w, ParseMesg(w, m, first))
<1>1. GoesOn(w, [w EXCEPT !.rc = 0])
  <2>1. DOMAIN [w EXCEPT !.rc = 0] = DOMAIN w /\ [w EXCEPT !.rc = 0].p = w.p /\ [w EXCEPT !.rc = 0].g = w.g
    BY DEF Work
  <2> QED
    BY <2>1, Untouched
<1>2. GoesOn(w, ParseBookMesg(w, m, first))
  <2>1. \/ w.p.type = "reset" /\ ParseBookMesg(w, m, first) = ResetSequence(w, m)
        \/ ParseBookMesg(w, m, first) \in {Unavailable(w, m), Orders(w, m), UnknownType(w)}
        \/ \E e : ParseBookMesg(w, m, first) = Published(w, e)
    <3>1. \E e : BookRefresh(w, m, first) = Published(w, e)
      BY Zenon DEF BookRefresh
    <3> QED
      BY <3>1, Zenon DEF ParseBookMesg
  <2> QED
    BY <2>1, ResetGoesOn, UnavailableGoesOn, OrdersGoesOn, UnknownGoesOn, PublishedGoesOn
<1>3. GoesOn(w, ParseTradeMesg(w, m))
  <2>1. \/ w.p.type = "reset" /\ ParseTradeMesg(w, m) = ResetSequence(w, m)
        \/ ParseTradeMesg(w, m) \in {Unavailable(w, m), UnknownType(w)}
        \/ \E e : ParseTradeMesg(w, m) = Published(w, e)
    BY Zenon DEF ParseTradeMesg
  <2> QED
    BY <2>1, ResetGoesOn, UnavailableGoesOn, UnknownGoesOn, PublishedGoesOn
<1> QED
  BY <1>1, <1>2, <1>3, Zenon DEF ParseMesg

\* One message of a packet and what follows it.
LEMMA NextGoesOn ==
  ASSUME NEW w, NEW k \in 1 .. Len(w.p.msgs), Work(w)
  PROVE  GoesOn(w, NextMessage(w, k))
<1>0. w.p.msgs[k] \in ArcaMsg
  BY DEF Work, ArcaPacket
<1>1. GoesOn(w, w)
  BY Untouched
<1> DEFINE x == InHand(w, k)
           v == ParseMesg(x, w.p.msgs[k], k = 1)
<1>2. GoesOn(w, v)
  <2>1. DOMAIN x = DOMAIN w /\ x.p = w.p /\ x.g = w.g
    BY DEF InHand, Work
  <2>2. GoesOn(w, x)
    BY <2>1, Untouched
  <2> HIDE DEF x
  <2>3. GoesOn(x, v)
    BY <1>0, <2>2, MesgGoesOn DEF GoesOn
  <2> HIDE DEF v
  <2> QED
    BY <2>2, <2>3, GoesFurther
<1> HIDE DEF v
<1>3. Work(v) /\ v.p.sn \in Nat
  BY <1>2 DEF GoesOn, Work, ArcaPacket
<1>4. GoesOn(v, EndPacket(v))
  <2> DEFINE a == [v.g EXCEPT !.alerts = @ \cup {v.p.sn}]
             u == [v EXCEPT !.g = a, !.stop = TRUE]
  <2>1. SameWindow(v.g, a) /\ a.exp = v.g.exp
    <3>1. v.g.alerts \cup {v.p.sn} \in SUBSET Nat
      BY <1>3 DEF Work, Group
    <3> QED
      BY <1>3, <3>1 DEF Work, SameWindow, Group
  <2>2. EndPacket(v) = u
    BY Zenon DEF EndPacket, ParseError, RuntPacketError
  <2> HIDE DEF a
  <2>3. DOMAIN u = DOMAIN v /\ u.p = v.p /\ u.g = a
    BY <1>3 DEF Work
  <2> HIDE DEF u
  <2> QED
    BY <1>3, <2>1, <2>2, <2>3, Regrouped
<1>5. GoesOn(w, EndPacket(v))
  BY <1>2, <1>4, GoesFurther
<1>6. NextMessage(w, k) \in {w, v, EndPacket(v)}
  BY Zenon DEF NextMessage, Then, v, x
<1> QED
  BY <1>1, <1>2, <1>5, <1>6

\* The operator the messages are folded with.
LEMMA MessageIs ==
  ASSUME NEW w, NEW k
  PROVE  Message(w, k) = NextMessage(w, k)
  BY DEF Message, Then

\* All the messages of a packet.
LEMMA MessagesGoOn ==
  ASSUME NEW w, Work(w)
  PROVE  GoesOn(w, Messages(w))
<1> DEFINE n == Held(w.p)
           seq == [k \in 1 .. n |-> k]
<1>1. n \in Nat /\ Len(w.p.msgs) \in Nat /\ n <= Len(w.p.msgs)
  BY DEF Work, ArcaPacket, Held
<1>2. DOMAIN seq = 1 .. n /\ \A k \in 1 .. n : seq[k] = k
  OBVIOUS
<1>3. Messages(w) = MF!Fold(w, seq)
  BY Zenon DEF Messages, FoldLeft, MapThenFoldSet, Max,
               MF!Fold, MF!FoldLeft, MF!MapThenFoldSet, MF!Max
<1> HIDE DEF n, seq
<1>4. PICK F : /\ F[0] = w
               /\ \A k \in 1 .. n : F[k] = Message(F[k - 1], seq[k])
               /\ MF!Fold(w, seq) = F[n]
  BY <1>1, <1>2, MF!FoldRuns
<1> DEFINE S == {k \in Nat : k <= n => GoesOn(w, F[k])}
<1>5. 0 \in S
  <2>1. GoesOn(w, w)
    BY Untouched
  <2> QED
    BY <1>4, <2>1
<1>6. ASSUME NEW k \in Nat, k \in S PROVE k + 1 \in S
  <2> SUFFICES ASSUME k + 1 <= n PROVE GoesOn(w, F[k + 1])
    OBVIOUS
  <2>1. k + 1 \in 1 .. n /\ (k + 1) - 1 = k
    BY <1>1
  <2>2. GoesOn(w, F[k])
    BY <1>1, <1>6, <2>1
  <2>3. F[k + 1] = NextMessage(F[k], k + 1)
    BY <1>2, <1>4, <2>1, MessageIs
  <2>4. Work(F[k]) /\ k + 1 \in 1 .. Len(F[k].p.msgs)
    BY <1>1, <2>1, <2>2 DEF GoesOn
  <2>5. GoesOn(F[k], NextMessage(F[k], k + 1))
    BY <2>4, NextGoesOn
  <2> QED
    BY <2>2, <2>3, <2>5, GoesFurther
<1> HIDE DEF S
<1>7. Nat \subseteq S
  BY <1>5, <1>6, MF!Induction
<1>8. GoesOn(w, F[n])
  BY <1>1, <1>7 DEF S
<1> QED
  BY <1>3, <1>4, <1>8

\* What processing a packet makes of the group.
LEMMA PacketProcessed ==
  ASSUME NEW feed, NEW h \in Group, NEW e, NEW c \in Copies, NEW p \in ArcaPacket,
         NEW u, NEW r, r = ProcessPacket(feed, h, e, c, p, u)
  PROVE  LET a == Action(h, c, p)
         IN  /\ r.pub = a.pub /\ a.g \in Group
             /\ SameWindow(a.g, r.w.g)
             /\ p.type # "reset" => r.w.g.exp = a.g.exp
<1> DEFINE a == Action(h, c, p)
           q == ParsePacketHdr(p)
           w == [feed |-> feed, p |-> q, g |-> a.g,
                 d |-> [e EXCEPT !.wire = <<>>, !.unsent = u], rc |-> 2, stop |-> FALSE]
           v == IF a.pub /\ p.decodes THEN MsgFlush(Messages(w)) ELSE w
<1>1. a.g \in Group
  <2>1. CASE p.type = "reset"
    <3>1. a.g = h
      BY <2>1 DEF Action
    <3> QED
      BY <3>1
  <2>2. CASE p.type # "reset"
    <3>1. a = NeedToPublish(h, c, p.sn)
      BY <2>2 DEF Action
    <3> QED
      BY <3>1, NeedType DEF ArcaPacket
  <2> QED
    BY <2>1, <2>2
<1>2. q \in ArcaPacket /\ q.type = p.type
  BY DEF ParsePacketHdr, ArcaPacket
<1>3. r = [w |-> v, pub |-> a.pub]
  BY Zenon DEF ProcessPacket, Then
<1> HIDE DEF a, q
<1>4. Work(w) /\ w.g = a.g /\ w.p = q
  BY <1>1, <1>2 DEF Work
<1> HIDE DEF w
<1>5. GoesOn(w, w) /\ GoesOn(w, MsgFlush(Messages(w)))
  <2> DEFINE m == Messages(w)
  <2>1. GoesOn(w, w) /\ GoesOn(w, m)
    BY <1>4, Untouched, MessagesGoOn
  <2> HIDE DEF m
  <2>2. Work(m)
    BY <2>1 DEF GoesOn
  <2>3. DOMAIN MsgFlush(m) = DOMAIN m /\ MsgFlush(m).p = m.p /\ MsgFlush(m).g = m.g
    BY <2>2 DEF MsgFlush, Work
  <2>4. GoesOn(m, MsgFlush(m))
    BY <2>2, <2>3, Untouched
  <2> QED
    BY <2>1, <2>4, GoesFurther DEF m
<1>6. GoesOn(w, v)
  BY <1>5
<1> HIDE DEF v
<1>7. r.w = v /\ r.pub = a.pub
  BY <1>3
<1> QED
  BY <1>1, <1>2, <1>4, <1>6, <1>7 DEF GoesOn, a

-----------------------------------------------------------------------------
(* What has been published and what the window says of it.                 *)

\* l is the position of the last reset among the published positions o, 0 without one.
IsLast(ps, o, l) ==
    /\ l \in Nat
    /\ \A j \in Range(o) : ps[j].type = "reset" => j <= l
    /\ l = 0 \/ (l \in Range(o) /\ ps[l].type = "reset")

\* The positions published after position l.
Since(o, l) == {j \in Range(o) : j > l}

\* What was published since the last reset is behind the more advanced copy; what is
\* marked missing of it was marked anew; and out of sequence, every number of the
\* window is missing, or was passed over, or published.
Told(ps, l, o, ag, sk, h) ==
    /\ \A j \in Since(o, l) : ps[j].sn < Most(h)
    /\ \A j \in Since(o, l) : ps[j].sn \in h.missing => j \in ag
    /\ ~h.in_sequence =>
         \A m \in h.base .. Most(h) - 1 :
            m \in h.missing \/ m \in sk \/ \E j \in Since(o, l) : ps[j].sn = m

\* Nothing but resets and what was marked anew is published twice.
Once(ps, o, ag) ==
    \A j, k \in 1 .. Len(o) :
        j # k /\ o[j] = o[k] => o[j] \in ag \/ ps[o[j]].type = "reset"

\* There is one last reset only.
LEMMA LastUnique ==
  ASSUME NEW ps, NEW o, NEW l, NEW m, IsLast(ps, o, l), IsLast(ps, o, m),
         \A j \in Range(o) : j \in Nat /\ j > 0
  PROVE  l = m
  BY DEF IsLast

\* The elements of a sequence and of one element more.
LEMMA RangeAppend ==
  ASSUME NEW S, NEW o \in Seq(S), NEW i \in S
  PROVE  /\ Append(o, i) \in Seq(S) /\ Range(Append(o, i)) = Range(o) \cup {i}
         /\ Range(o) \subseteq S
         /\ Len(Append(o, i)) = Len(o) + 1
         /\ Append(o, i)[Len(o) + 1] = i
         /\ \A k \in 1 .. Len(o) : Append(o, i)[k] = o[k] /\ o[k] \in Range(o)
<1> DEFINE q == Append(o, i)
<1>1. /\ q \in Seq(S) /\ Len(q) = Len(o) + 1 /\ q[Len(o) + 1] = i
      /\ \A k \in 1 .. Len(o) : q[k] = o[k]
  OBVIOUS
<1> HIDE DEF q
<1>2. DOMAIN q = 1 .. Len(o) + 1 /\ DOMAIN o = 1 .. Len(o) /\ Len(o) \in Nat
  BY <1>1
<1>3. Range(q) = Range(o) \cup {i}
  BY <1>1, <1>2 DEF Range
<1>4. Range(o) \subseteq S /\ \A k \in 1 .. Len(o) : o[k] \in Range(o)
  BY <1>2 DEF Range
<1> QED
  BY <1>1, <1>3, <1>4 DEF q

\* LastReset is the last reset.
LEMMA LastResetIs ==
  ASSUME Pkts \in Seq(ArcaPacket), out \in Seq(1 .. Len(Pkts))
  PROVE  IsLast(Pkts, out, LastReset)
<1> DEFINE R == {j \in Range(out) : Pkts[j].type = "reset"}
           N == Len(Pkts)
<1>1. N \in Nat /\ R \subseteq 1 .. N
  BY DEF Range
<1>2. CASE R = {}
  <2>1. LastReset = 0
    BY <1>2 DEF LastReset
  <2> QED
    BY <1>2, <2>1 DEF IsLast
<1>3. CASE R # {}
  <2> DEFINE T == {N - j : j \in R}
  <2> HIDE DEF N, R
  <2>0. \A j \in R : j \in Nat /\ N - j \in Nat
    BY <1>1
  <2>1. T \in SUBSET Nat /\ T # {}
    BY <1>3, <2>0
  <2>2. PICK m \in T : \A k \in T : m <= k
    BY <2>1, MF!LeastNumber
  <2>3. PICK j \in R : m = N - j
    BY <2>2
  <2>4. ASSUME NEW k \in R PROVE k <= j
    <3>1. N - j <= N - k
      BY <2>2, <2>3
    <3> QED
      BY <1>1, <2>0, <3>1
  <2>5. LastReset = CHOOSE x \in R : \A k \in R : k <= x
    BY <1>3 DEF LastReset, R
  <2>6. LastReset \in R /\ \A k \in R : k <= LastReset
    BY <2>4, <2>5
  <2> QED
    BY <1>1, <2>6 DEF IsLast, R
<1> QED
  BY <1>2, <1>3

\* The window of group h is right, and what has been published agrees with it.
History(ps, l, o, ag, sk, h) ==
    /\ ps \in Seq(ArcaPacket) /\ o \in Seq(1 .. Len(ps)) /\ h \in Group
    /\ WindowOK(h) /\ IsLast(ps, o, l) /\ Told(ps, l, o, ag, sk, h) /\ Once(ps, o, ag)

\* What Note makes of the histories when the packet at position i is not a reset.
PacketNoted(ps, o, ag, sk, h, c, i, k, pub, ob, ab, sb) ==
    /\ i \in 1 .. Len(ps) /\ ps[i].type # "reset" /\ Merged(h, c, ps[i].sn, k, pub)
    /\ ob = IF pub THEN Append(o, i) ELSE o
    /\ ab = ag \cup {j \in Range(o) : ps[j].sn \in k.missing \ h.missing}
    /\ sb = IF h.exp[c] = 0 THEN sk \cup (Most(h) .. ps[i].sn - 1) ELSE sk

\* And when it is a reset, handled in step.
ResetNoted(ps, o, ag, h, i, k, ob, ab) ==
    /\ h.missing = {} /\ i \in 1 .. Len(ps) /\ ps[i].type = "reset"
    /\ \A m \in 1 .. Len(o) : o[m] <= i
    /\ SameWindow(h, k) /\ ob = Append(o, i) /\ ag \subseteq ab

\* A packet that is not a reset: what need_2_publish decides keeps the history right.
LEMMA PacketKeeps ==
  ASSUME NEW ps, NEW l, NEW o, NEW ag, NEW sk, NEW h, History(ps, l, o, ag, sk, h),
         NEW c \in Copies, NEW i, i >= l, NEW k, NEW pub, NEW ob, NEW ab, NEW sb,
         PacketNoted(ps, o, ag, sk, h, c, i, k, pub, ob, ab, sb)
  PROVE  History(ps, l, ob, ab, sb, k)
<1> DEFINE n == ps[i].sn
<1>0. /\ ps \in Seq(ArcaPacket) /\ o \in Seq(1 .. Len(ps)) /\ h \in Group
      /\ IsLast(ps, o, l) /\ Told(ps, l, o, ag, sk, h) /\ Once(ps, o, ag)
      /\ i \in 1 .. Len(ps) /\ ps[i].type # "reset" /\ Merged(h, c, ps[i].sn, k, pub)
      /\ ob = IF pub THEN Append(o, i) ELSE o
      /\ ab = ag \cup {j \in Range(o) : ps[j].sn \in k.missing \ h.missing}
      /\ sb = IF h.exp[c] = 0 THEN sk \cup (Most(h) .. ps[i].sn - 1) ELSE sk
  BY Zenon DEF History, PacketNoted
<1> USE <1>0
<1>1. /\ Range(o) \subseteq 1 .. Len(ps) /\ Range(Append(o, i)) = Range(o) \cup {i}
      /\ Len(Append(o, i)) = Len(o) + 1 /\ Len(o) \in Nat
      /\ Append(o, i)[Len(o) + 1] = i
      /\ \A m \in 1 .. Len(o) : Append(o, i)[m] = o[m] /\ o[m] \in Range(o)
  BY RangeAppend
<1>2. /\ l \in Nat /\ i \in Nat /\ Len(ps) \in Nat /\ n \in Nat
      /\ Most(h) \in Nat /\ Most(k) \in Nat
      /\ \A j \in 1 .. Len(ps) : ps[j].sn \in Nat
  <2>1. \A j \in 1 .. Len(ps) : ps[j] \in ArcaPacket
    OBVIOUS
  <2>2. \A j \in 1 .. Len(ps) : ps[j].sn \in Nat
    BY <2>1 DEF ArcaPacket
  <2>3. Most(h) \in Nat /\ Most(k) \in Nat
    BY GroupFields DEF Merged
  <2>4. l \in Nat /\ i \in Nat /\ Len(ps) \in Nat
    BY DEF IsLast
  <2> QED
    BY <2>2, <2>3, <2>4
<1>3. i > l
  <2>1. i # l
    BY <1>2 DEF IsLast
  <2> QED
    BY <1>2, <2>1
<1>4. Most(k) >= Most(h)
  BY DEF Merged
<1>5. Since(ob, l) = IF pub THEN Since(o, l) \cup {i} ELSE Since(o, l)
  BY <1>1, <1>2, <1>3 DEF Since
<1>6. Since(o, l) \subseteq Since(ob, l) /\ Since(o, l) \subseteq Range(o)
  BY <1>5 DEF Since
<1>7. ASSUME NEW j \in Since(ob, l) PROVE ps[j].sn < Most(k) /\ (ps[j].sn \in k.missing => j \in ab)
  <2>1. CASE j \in Since(o, l)
    <3>1. ps[j].sn < Most(h) /\ (ps[j].sn \in h.missing => j \in ag) /\ j \in Range(o)
      BY <1>6, <2>1 DEF Told
    <3>2. ps[j].sn \in Nat
      BY <1>1, <1>2, <3>1
    <3>3. ps[j].sn < Most(k)
      BY <1>2, <1>4, <3>1, <3>2
    <3>4. ps[j].sn \in k.missing => j \in ab
      BY <3>1
    <3> QED
      BY <3>3, <3>4
  <2>2. CASE j \notin Since(o, l)
    <3>1. pub /\ j = i
      BY <1>5, <1>7, <2>2
    <3> QED
      BY <3>1 DEF Merged
  <2> QED
    BY <2>1, <2>2
<1>8. ASSUME ~k.in_sequence, NEW m \in k.base .. Most(k) - 1
      PROVE  m \in k.missing \/ m \in sb \/ \E j \in Since(ob, l) : ps[j].sn = m
  <2>0. m \in Int /\ h.base \in Nat
    BY GroupFields
  <2>1. \/ m \in k.missing
        \/ pub /\ m = n
        \/ h.exp[c] = 0 /\ Most(h) <= m /\ m < n
        \/ ~h.in_sequence /\ h.base <= m /\ m < Most(h) /\ m \notin h.missing
    BY <1>8 DEF Merged
  <2>2. CASE pub /\ m = n
    BY <1>5, <2>2
  <2>3. CASE h.exp[c] = 0 /\ Most(h) <= m /\ m < n
    BY <1>2, <2>0, <2>3
  <2>4. CASE ~h.in_sequence /\ h.base <= m /\ m < Most(h) /\ m \notin h.missing
    <3>1. m \in h.base .. Most(h) - 1
      BY <1>2, <2>0, <2>4
    <3>2. m \in sk \/ \E j \in Since(o, l) : ps[j].sn = m
      BY <2>4, <3>1 DEF Told
    <3> QED
      BY <1>6, <3>2
  <2> QED
    BY <2>1, <2>2, <2>3, <2>4
<1>9. Told(ps, l, ob, ab, sb, k)
  BY <1>7, <1>8, Zenon DEF Told
<1>10. IsLast(ps, ob, l)
  BY <1>1, <1>2 DEF IsLast
<1>11. ASSUME pub, i \in Range(o) PROVE i \in ag
  <2>1. i \in Since(o, l)
    BY <1>3, <1>11 DEF Since
  <2>2. n < Most(h) /\ (n \in h.missing => i \in ag)
    BY <2>1 DEF Told
  <2>3. n >= Most(h) \/ n \in h.missing
    BY <1>11 DEF Merged
  <2> QED
    BY <1>2, <2>2, <2>3
<1>12. Once(ps, ob, ab)
  <2>1. CASE ~pub
    BY <2>1 DEF Once
  <2>2. CASE pub
    <3>1. ob = Append(o, i)
      BY <2>2
    <3>2. SUFFICES ASSUME NEW a \in 1 .. Len(ob), NEW b \in 1 .. Len(ob), a # b, ob[a] = ob[b]
                   PROVE  ob[a] \in ag \/ ps[ob[a]].type = "reset"
      BY Zenon DEF Once
    <3>3. CASE a <= Len(o) /\ b <= Len(o)
      <4>1. a \in 1 .. Len(o) /\ b \in 1 .. Len(o)
        BY <1>1, <3>1, <3>3
      <4>2. ob[a] = o[a] /\ ob[b] = o[b]
        BY <1>1, <3>1, <4>1
      <4> QED
        BY <3>2, <4>1, <4>2 DEF Once
    <3>4. CASE ~(a <= Len(o) /\ b <= Len(o))
      <4>1. \/ a = Len(o) + 1 /\ b \in 1 .. Len(o)
            \/ b = Len(o) + 1 /\ a \in 1 .. Len(o)
        BY <1>1, <3>1, <3>2, <3>4
      <4>2. i \in Range(o) /\ ob[a] = i
        BY <1>1, <3>1, <3>2, <4>1
      <4> QED
        BY <1>11, <2>2, <4>2
    <3> QED
      BY <3>3, <3>4
  <2> QED
    BY <2>1, <2>2
<1>13. ob \in Seq(1 .. Len(ps))
  <2>1. CASE pub
    BY <2>1
  <2>2. CASE ~pub
    BY <2>2
  <2> QED
    BY <2>1, <2>2
<1> QED
  BY <1>9, <1>10, <1>12, <1>13 DEF History, Merged

\* A reset handled while the copies are in step begins a new history.
LEMMA ResetKeeps ==
  ASSUME NEW ps, NEW l, NEW o, NEW ag, NEW sk, NEW h, History(ps, l, o, ag, sk, h),
         NEW i, NEW k, NEW ob, NEW ab, ResetNoted(ps, o, ag, h, i, k, ob, ab)
  PROVE  History(ps, i, ob, ab, {}, k)
<1>. /\ ps \in Seq(ArcaPacket) /\ o \in Seq(1 .. Len(ps)) /\ h \in Group
     /\ WindowOK(h) /\ Once(ps, o, ag) /\ h.missing = {}
     /\ i \in 1 .. Len(ps) /\ ps[i].type = "reset" /\ \A m \in 1 .. Len(o) : o[m] <= i
     /\ SameWindow(h, k) /\ ob = Append(o, i) /\ ag \subseteq ab
  BY Zenon DEF History, ResetNoted
<1>0. /\ Range(o) \subseteq 1 .. Len(ps) /\ Range(Append(o, i)) = Range(o) \cup {i}
      /\ Len(Append(o, i)) = Len(o) + 1 /\ Len(o) \in Nat
      /\ Append(o, i)[Len(o) + 1] = i
      /\ \A m \in 1 .. Len(o) : Append(o, i)[m] = o[m] /\ o[m] \in Range(o)
  BY RangeAppend
<1>1. /\ Range(o) \subseteq 1 .. Len(ps) /\ Range(ob) = Range(o) \cup {i}
      /\ Len(ob) = Len(o) + 1 /\ Len(o) \in Nat
      /\ ob[Len(o) + 1] = i
      /\ \A m \in 1 .. Len(o) : ob[m] = o[m] /\ o[m] \in Range(o)
  BY <1>0, Zenon
<1>2. i \in Nat /\ Len(ps) \in Nat /\ \A j \in Range(o) : j <= i
  BY DEF Range
<1>3. h.in_sequence
  BY DEF WindowOK
<1>4. WindowOK(k) /\ k.in_sequence
  <2>1. /\ k.in_sequence = h.in_sequence /\ k.status = h.status
        /\ k.count = h.count /\ k.missing = h.missing
    BY DEF SameWindow
  <2> QED
    BY <1>3, <2>1, Zenon DEF WindowOK
<1>5. Since(ob, i) = {}
  BY <1>1, <1>2 DEF Since
<1>6. Told(ps, i, ob, ab, {}, k)
  BY <1>4, <1>5, Zenon DEF Told
<1>7. IsLast(ps, ob, i)
  BY <1>1, <1>2 DEF IsLast
<1>8. Once(ps, ob, ab)
  <2> SUFFICES ASSUME NEW a \in 1 .. Len(ob), NEW b \in 1 .. Len(ob), a # b, ob[a] = ob[b]
               PROVE  ob[a] \in ab \/ ps[ob[a]].type = "reset"
    BY Zenon DEF Once
  <2>1. CASE a \in 1 .. Len(o) /\ b \in 1 .. Len(o)
    <3>1. ob[a] = o[a] /\ ob[b] = o[b]
      BY <1>1, <2>1
    <3>2. o[a] \in ag \/ ps[o[a]].type = "reset"
      BY <2>1, <3>1 DEF Once
    <3> QED
      BY <3>1, <3>2
  <2>2. CASE ~(a \in 1 .. Len(o) /\ b \in 1 .. Len(o))
    <3>1. a = Len(o) + 1 \/ b = Len(o) + 1
      BY <1>1, <2>2
    <3>2. ob[a] = i
      BY <1>1, <3>1
    <3> QED
      BY <3>2
  <2> QED
    BY <2>1, <2>2
<1>9. k \in Group
  BY DEF SameWindow
<1> QED
  BY <1>4, <1>6, <1>7, <1>8, <1>9 DEF History

-----------------------------------------------------------------------------
(* The invariant of an ARCA line.                                          *)

\* The state of the receive loop.
IsLoop(r) == {"pc", "last", "k", "found"} \subseteq DOMAIN r /\ r.last \in Nat /\ r.k \in Nat

\* The states of the line, of the network and of the receive loop.
LineType ==
    /\ script \in Scripts /\ g \in Group
    /\ net \in [Copies -> 0 .. Len(Pkts)]
    /\ sock \in [Copies -> Seq(1 .. Len(Pkts))]
    /\ \A c \in Copies : Len(sock[c]) <= MaxQueue
    /\ buf \in [Copies -> [type : STRING, at : 0 .. Len(Pkts)]]
    /\ out \in Seq(1 .. Len(Pkts)) /\ stopped \in BOOLEAN
    /\ IsLoop(lh)
    /\ lh.pc = "drain" => Len(Sockets) > 0

\* No copy is before position l.
Ahead(l) ==
    \A c \in Range(Sockets) :
        net[c] >= l /\ \A k \in 1 .. Len(sock[c]) : sock[c][k] >= l

\* Window and history, as long as every reset was handled in step and no short
\* datagram went by a number it never had.
LineInv ==
    ~mixed =>
        /\ WindowOK(g) /\ Told(Pkts, LastReset, out, again, skipped, g)
        /\ Once(Pkts, out, again) /\ Ahead(LastReset)

CopyInv == LineType /\ LineInv

\* The packets of a script.
LEMMA ScriptType ==
  ASSUME LineType
  PROVE  Pkts \in Seq(ArcaPacket) /\ Len(Pkts) \in Nat /\ Range(Sockets) \subseteq Copies
<1>1. Pkts \in Seq(ArcaPacket)
  BY ArcaAssumption DEF LineType, Pkts
<1>2. Sockets \in Seq(Copies)
  BY ArcaAssumption
<1> QED
  BY <1>1, <1>2 DEF Range

\* The first state.
LEMMA InitCopies == ArcaInit => CopyInv
<1> SUFFICES ASSUME ArcaInit PROVE CopyInv
  OBVIOUS
<1>1. NewFeedGroup \in Group
  <2>1. [c \in Copies |-> 0] \in [Copies -> Nat]
    OBVIOUS
  <2> QED
    BY <2>1 DEF NewFeedGroup, Group
<1>2. WindowOK(NewFeedGroup)
  <2>1. /\ NewFeedGroup.in_sequence = TRUE /\ NewFeedGroup.status = TRUE
        /\ NewFeedGroup.missing = {} /\ NewFeedGroup.count = 0
    BY Zenon DEF NewFeedGroup
  <2> QED
    BY <1>1, <2>1, ClearWindow
<1>3. Pkts \in Seq(ArcaPacket) /\ Len(Pkts) \in Nat
  BY ArcaAssumption DEF ArcaInit, Pkts
<1>4. LineType
  <2>1. /\ IsLoop(lh)
        /\ lh.pc = "none"
    <3>1. IsLoop(Loop0)
      BY DEF Loop0, IsLoop
    <3>2. Loop0.pc = "none"
      BY DEF Loop0
    <3>3. lh = Loop0
      BY Zenon DEF ArcaInit
    <3> QED
      BY <3>1, <3>2, <3>3
  <2>2. sock \in [Copies -> Seq(1 .. Len(Pkts))] /\ \A c \in Copies : sock[c] = <<>>
    BY DEF ArcaInit
  <2>3. net \in [Copies -> 0 .. Len(Pkts)]
    BY <1>3 DEF ArcaInit
  <2>4. out \in Seq(1 .. Len(Pkts)) /\ g \in Group /\ script \in Scripts
    BY <1>1 DEF ArcaInit
  <2>6. stopped \in BOOLEAN
    BY Zenon DEF ArcaInit
  <2>7. buf \in [Copies -> [type : STRING, at : 0 .. Len(Pkts)]]
    <3>1. "zero" \in STRING /\ 0 \in 0 .. Len(Pkts)
      BY <1>3, StringAssumption
    <3>2. NoPacket \in [type : STRING, at : 0 .. Len(Pkts)]
      BY <3>1 DEF NoPacket
    <3> QED
      BY <3>2, Zenon DEF ArcaInit
  <2>5. \A c \in Copies : Len(sock[c]) <= MaxQueue
    BY <2>2, ArcaAssumption
  <2> QED
    BY <2>1, <2>2, <2>3, <2>4, <2>5, <2>6, <2>7 DEF LineType
<1>5. Range(out) = {} /\ Len(out) = 0 /\ LastReset = 0
  <2>1. out = <<>>
    BY DEF ArcaInit
  <2>2. Range(out) = {} /\ Len(out) = 0
    BY <2>1 DEF Range
  <2> QED
    BY <2>2 DEF LastReset
<1>6. Since(out, LastReset) = {}
  BY <1>5 DEF Since
<1>7. g.in_sequence
  BY Zenon DEF ArcaInit, NewFeedGroup
<1>8. Told(Pkts, LastReset, out, again, skipped, g)
  BY <1>6, <1>7, Zenon DEF Told
<1>9. Once(Pkts, out, again)
  BY <1>5 DEF Once
<1>10. Ahead(LastReset)
  BY <1>5, ScriptType, <1>4 DEF Ahead, LineType, ArcaInit
<1>11. WindowOK(g)
  BY <1>2 DEF ArcaInit
<1> QED
  BY <1>4, <1>8, <1>9, <1>10, <1>11 DEF CopyInv, LineInv

\* A step that leaves the line and its sockets alone.
LEMMA OthersKeep ==
  ASSUME CopyInv, UNCHANGED <<script, line, net, sock>>, stopped' \in BOOLEAN,
         IsLoop(lh'),
         lh'.pc = "drain" => Len(Sockets) > 0
  PROVE  CopyInv'
<1>1. /\ script' = script /\ g' = g /\ net' = net /\ sock' = sock /\ out' = out
      /\ again' = again /\ mixed' = mixed /\ skipped' = skipped /\ buf' = buf
  BY DEF line, told
<1>2. Pkts' = Pkts /\ LastReset' = LastReset
  BY <1>1 DEF Pkts, LastReset
<1>3. LineType'
  BY <1>1, <1>2 DEF CopyInv, LineType
<1>4. Ahead(LastReset) => Ahead(LastReset)'
  BY <1>1, <1>2 DEF Ahead
<1>5. LineInv'
  BY <1>1, <1>2, <1>4 DEF CopyInv, LineInv, Ahead
<1> QED
  BY <1>3, <1>5 DEF CopyInv

\* What the threads do outside the line.
LEMMA ThreadsKeep ==
  ASSUME CopyInv, \/ MainThread \/ MgmtThread \/ LhPost \/ LhEnd
                  \/ RuntKills \/ StopSignal \/ UNCHANGED arca
  PROVE  CopyInv'
<1>1. UNCHANGED <<script, line, net, sock>>
  BY DEF MainThread, MgmtThread, LhPost, LhEnd, RuntKills, StopSignal, arca, Boot, MgmtStart, LhStart,
         LhStartFails, MgmtWait, LhWait, FreeGroups, MgmtPost, MgmtProcess, MgmtEnd
<1>2. stopped' = stopped \/ stopped' = TRUE
  BY Zenon DEF MainThread, MgmtThread, LhPost, LhEnd, RuntKills, StopSignal, arca, proc, Boot, MgmtStart,
               LhStart, LhStartFails, MgmtWait, LhWait, FreeGroups, MgmtPost, MgmtProcess, MgmtEnd
<1>3. stopped' \in BOOLEAN
  BY <1>2, Zenon DEF CopyInv, LineType
<1>4. \/ lh' = lh \/ lh' = [lh EXCEPT !.pc = "init"] \/ lh' = [lh EXCEPT !.pc = "select"]
      \/ lh' = [Loop0 EXCEPT !.pc = "end"]
  BY Zenon DEF MainThread, MgmtThread, LhPost, LhEnd, RuntKills, StopSignal, arca, Boot, MgmtStart,
               LhStart, LhStartFails, MgmtWait, LhWait, FreeGroups, MgmtPost, MgmtProcess, MgmtEnd
<1>5. IsLoop(lh') /\ (lh'.pc = "drain" => Len(Sockets) > 0)
  <2>1. IsLoop(lh) /\ (lh.pc = "drain" => Len(Sockets) > 0)
    BY DEF CopyInv, LineType
  <2>2. ASSUME NEW r, IsLoop(r), NEW p PROVE LET q == [r EXCEPT !.pc = p] IN IsLoop(q) /\ q.pc = p
    BY <2>2 DEF IsLoop
  <2>3. IsLoop(Loop0)
    BY DEF Loop0, IsLoop
  <2>4. CASE lh' = lh
    BY <2>1, <2>4
  <2>5. CASE lh' = [lh EXCEPT !.pc = "init"]
    BY <2>1, <2>2, <2>5
  <2>6. CASE lh' = [lh EXCEPT !.pc = "select"]
    BY <2>1, <2>2, <2>6
  <2>7. CASE lh' = [Loop0 EXCEPT !.pc = "end"]
    BY <2>3, <2>2, <2>7
  <2> QED
    BY <1>4, <2>4, <2>5, <2>6, <2>7
<1> QED
  BY <1>1, <1>3, <1>5, OthersKeep

\* What the network does.
LEMMA NetKeeps ==
  ASSUME CopyInv, NEW c \in Range(Sockets), Carry(c) \/ Lose(c) \/ Repeat(c)
  PROVE  CopyInv'
<1>1. c \in Copies /\ Len(Pkts) \in Nat /\ Range(Sockets) \subseteq Copies
  BY ScriptType DEF CopyInv
<1>2. /\ script' = script /\ g' = g /\ out' = out /\ lh' = lh
      /\ again' = again /\ skipped' = skipped /\ buf' = buf
  BY DEF Carry, Lose, Repeat, line, told
<1>3. mixed' = mixed /\ stopped' = stopped
  BY Zenon DEF Carry, Lose, Repeat, line, told, proc
<1>4. Pkts' = Pkts /\ LastReset' = LastReset
  BY <1>2 DEF Pkts, LastReset
<1>5. net[c] \in 0 .. Len(Pkts) /\ sock[c] \in Seq(1 .. Len(Pkts)) /\ Len(sock[c]) \in Nat
      /\ Len(sock[c]) <= MaxQueue
  BY <1>1 DEF CopyInv, LineType
<1>6. /\ net' = net \/ (net[c] < Len(Pkts) /\ net' = [net EXCEPT ![c] = @ + 1])
      /\ \/ sock' = sock
         \/ \E i \in 1 .. Len(Pkts) : /\ i >= net[c] /\ Len(sock[c]) < MaxQueue
                                      /\ sock' = [sock EXCEPT ![c] = Append(@, i)]
  <2>1. CASE Carry(c)
    <3>1. net[c] + 1 \in 1 .. Len(Pkts) /\ net[c] + 1 >= net[c]
      BY <1>1, <1>5, <2>1 DEF Carry
    <3> QED
      BY <2>1, <3>1 DEF Carry, Put1
  <2>2. CASE Lose(c)
    BY <2>2 DEF Lose
  <2>3. CASE Repeat(c)
    <3>1. net[c] \in 1 .. Len(Pkts) /\ net[c] >= net[c]
      BY <1>1, <1>5, <2>3 DEF Repeat
    <3> QED
      BY <2>3, <3>1 DEF Repeat, Put1
  <2> QED
    BY <2>1, <2>2, <2>3
<1>7. /\ net' \in [Copies -> 0 .. Len(Pkts)]
      /\ \A e \in Copies : net'[e] >= net[e]
  <2>1. net \in [Copies -> 0 .. Len(Pkts)] /\ \A e \in Copies : net[e] \in Nat
    BY <1>1 DEF CopyInv, LineType
  <2>2. CASE net' = net
    BY <2>1, <2>2
  <2>3. CASE net[c] < Len(Pkts) /\ net' = [net EXCEPT ![c] = @ + 1]
    <3>1. net[c] + 1 \in 0 .. Len(Pkts) /\ net[c] + 1 >= net[c]
      BY <1>1, <1>5, <2>3
    <3>2. net'[c] = net[c] + 1 /\ \A e \in Copies : e # c => net'[e] = net[e]
      BY <1>1, <2>1, <2>3
    <3> QED
      BY <2>1, <2>3, <3>1, <3>2
  <2> QED
    BY <1>6, <2>2, <2>3
<1>8. /\ sock' \in [Copies -> Seq(1 .. Len(Pkts))]
      /\ \A e \in Copies : Len(sock'[e]) <= MaxQueue
      /\ \A e \in Copies : \A k \in 1 .. Len(sock'[e]) :
            \/ k \in 1 .. Len(sock[e]) /\ sock'[e][k] = sock[e][k]
            \/ sock'[e][k] >= net[e]
  <2>1. sock \in [Copies -> Seq(1 .. Len(Pkts))] /\ \A e \in Copies : Len(sock[e]) <= MaxQueue
    BY DEF CopyInv, LineType
  <2>2. CASE sock' = sock
    BY <2>1, <2>2
  <2>3. CASE sock' # sock
    <3>1. PICK i \in 1 .. Len(Pkts) : /\ i >= net[c] /\ Len(sock[c]) < MaxQueue
                                      /\ sock' = [sock EXCEPT ![c] = Append(@, i)]
      BY <1>6, <2>3
    <3> DEFINE q == Append(sock[c], i)
    <3>2. /\ q \in Seq(1 .. Len(Pkts)) /\ Len(q) = Len(sock[c]) + 1
          /\ q[Len(sock[c]) + 1] = i
          /\ \A k \in 1 .. Len(sock[c]) : q[k] = sock[c][k]
      BY <1>5
    <3>3. sock' = [sock EXCEPT ![c] = q]
      BY <3>1
    <3> HIDE DEF q
    <3>4. sock'[c] = q /\ \A e \in Copies : e # c => sock'[e] = sock[e]
      BY <1>1, <2>1, <3>3
    <3>5. sock' \in [Copies -> Seq(1 .. Len(Pkts))]
      BY <1>1, <2>1, <3>2, <3>3
    <3>6. Len(q) <= MaxQueue
      BY <1>5, <3>1, <3>2, ArcaAssumption
    <3>7. \A k \in 1 .. Len(q) :
            (k \in 1 .. Len(sock[c]) /\ q[k] = sock[c][k]) \/ q[k] >= net[c]
      BY <1>5, <3>1, <3>2
    <3> QED
      BY <1>1, <2>1, <3>4, <3>5, <3>6, <3>7
  <2> QED
    BY <2>2, <2>3
<1>9. LineType'
  BY <1>2, <1>3, <1>4, <1>7, <1>8 DEF CopyInv, LineType
<1>10. ASSUME ~mixed PROVE Ahead(LastReset)'
  <2>1. Ahead(LastReset)
    BY <1>10 DEF CopyInv, LineInv
  <2>2. IsLast(Pkts, out, LastReset)
    BY LastResetIs, ScriptType DEF CopyInv, LineType
  <2>3. LastReset \in Nat
    BY <2>2 DEF IsLast
  <2>4. ASSUME NEW e \in Range(Sockets)
        PROVE  net'[e] >= LastReset /\ \A k \in 1 .. Len(sock'[e]) : sock'[e][k] >= LastReset
    <3>1. e \in Copies /\ net[e] \in Nat /\ net'[e] \in Nat /\ net'[e] >= net[e]
      BY <1>1, <1>7 DEF CopyInv, LineType
    <3>2. net[e] >= LastReset /\ \A k \in 1 .. Len(sock[e]) : sock[e][k] >= LastReset
      BY <2>1 DEF Ahead
    <3>3. ASSUME NEW k \in 1 .. Len(sock'[e]) PROVE sock'[e][k] >= LastReset
      <4>1. sock'[e][k] \in Nat
        BY <1>8, <3>1
      <4>2. \/ k \in 1 .. Len(sock[e]) /\ sock'[e][k] = sock[e][k]
            \/ sock'[e][k] >= net[e]
        BY <1>8, <3>1
      <4> QED
        BY <2>3, <3>1, <3>2, <4>1, <4>2
    <3> QED
      BY <2>3, <3>1, <3>2, <3>3
  <2> QED
    BY <1>4, <2>4 DEF Ahead
<1>11. LineInv'
  <2> SUFFICES ASSUME ~mixed'
               PROVE  /\ WindowOK(g') /\ Told(Pkts', LastReset', out', again', skipped', g')
                      /\ Once(Pkts', out', again') /\ Ahead(LastReset)'
    BY DEF LineInv
  <2>1. ~mixed
    BY <1>3
  <2> QED
    BY <1>2, <1>4, <1>10, <2>1 DEF CopyInv, LineInv
<1> QED
  BY <1>9, <1>11 DEF CopyInv

\* A sequence without its first element.
LEMMA TailIs ==
  ASSUME NEW S, NEW q \in Seq(S), q # <<>>
  PROVE  /\ Head(q) \in S /\ Head(q) = q[1] /\ 1 \in 1 .. Len(q)
         /\ Tail(q) \in Seq(S) /\ Len(Tail(q)) = Len(q) - 1 /\ Len(q) \in Nat
         /\ \A k \in 1 .. Len(q) - 1 : k + 1 \in 1 .. Len(q) /\ Tail(q)[k] = q[k + 1]
  OBVIOUS

\* The alert for a short datagram leaves the window alone.
LEMMA RuntTold ==
  ASSUME NEW h \in Group
  PROVE  LET k == RuntPacketError(h, [sn |-> 0]) IN SameWindow(h, k) /\ k.exp = h.exp
<1>1. [sn |-> 0].sn = 0 /\ h.alerts \cup {0} \in SUBSET Nat
  BY DEF Group
<1> QED
  BY <1>1 DEF RuntPacketError, SameWindow, Group

\* The packets a short datagram may be taken for.
LEMMA RuntIs ==
  ASSUME LineType, NEW b \in [type : STRING, at : 0 .. Len(Pkts)], NEW p \in RuntPackets(b)
  PROVE  p \in ArcaPacket /\ p.type = b.type /\ p.sn = Number(b.at)
<1>1. Pkts \in Seq(ArcaPacket) /\ Len(Pkts) \in Nat
  BY ScriptType
<1>2. PICK m \in RuntMsgs(b.type) :
         p = [type |-> b.type, sn |-> Number(b.at), x |-> 0, cur |-> 0, name |-> None,
              bodies |-> IF b.at = 0 THEN 0 ELSE Pkts[b.at].bodies, decodes |-> TRUE, msgs |-> m]
  BY DEF RuntPackets
<1>3. TooShort \in ArcaMsg
  <2>1. "other" \in STRING /\ None \in STRING
    BY StringAssumption
  <2>2. FALSE \in BOOLEAN /\ 0 \in Nat
    OBVIOUS
  <2> QED
    BY <2>1, <2>2, Zenon DEF TooShort, ArcaMsg
<1>4. m \in Seq(ArcaMsg)
  <2>1. <<TooShort>> \in Seq(ArcaMsg)
    BY <1>3
  <2>2. \A q \in Garbage : q \in Seq(ArcaMsg) /\ Append(q, TooShort) \in Seq(ArcaMsg)
    BY <1>3, GarbageAssumption
  <2> QED
    BY <2>1, <2>2 DEF RuntMsgs
<1>5. Number(b.at) \in Nat /\ (IF b.at = 0 THEN 0 ELSE Pkts[b.at].bodies) \in Nat
  <2>1. CASE b.at = 0
    BY <2>1 DEF Number
  <2>2. CASE b.at # 0
    <3>1. Pkts[b.at] \in ArcaPacket
      BY <1>1, <2>2
    <3> QED
      BY <2>2, <3>1 DEF Number, ArcaPacket
  <2> QED
    BY <2>1, <2>2
<1>6. b.type \in STRING /\ None \in STRING
  <2>1. None \in STRING
    BY StringAssumption
  <2>2. b.type \in STRING
    OBVIOUS
  <2> QED
    BY <2>1, <2>2
<1> HIDE DEF TooShort
<1> QED
  BY <1>2, <1>4, <1>5, <1>6 DEF ArcaPacket

\* One datagram taken from a socket.
LEMMA TakenKeeps ==
  ASSUME CopyInv, NEW c \in Range(Sockets), sock[c] # <<>>,
         sock' = [sock EXCEPT ![c] = Tail(@)],
         \/ Datagram(c, Head(sock[c]))
         \/ \E b \in Buffers(c, Head(sock[c])) : Runt(c, b),
         script' = script, net' = net, stopped' = stopped,
         IsLoop(lh'), lh'.pc = "drain" => Len(Sockets) > 0
  PROVE  CopyInv'
<1> DEFINE i == Head(sock[c])
           s == sock[c]
<1>1. c \in Copies /\ Pkts \in Seq(ArcaPacket) /\ Len(Pkts) \in Nat /\ Range(Sockets) \subseteq Copies
  BY ScriptType DEF CopyInv
<1>2. /\ g \in Group /\ out \in Seq(1 .. Len(Pkts))
      /\ sock \in [Copies -> Seq(1 .. Len(Pkts))] /\ s \in Seq(1 .. Len(Pkts))
      /\ \A e \in Copies : Len(sock[e]) <= MaxQueue
  BY <1>1 DEF CopyInv, LineType
<1>3. i \in 1 .. Len(Pkts) /\ i = s[1] /\ 1 \in 1 .. Len(s)
  BY <1>2
<1>4. /\ [type |-> Pkts[i].type, at |-> i] \in [type : STRING, at : 0 .. Len(Pkts)]
      /\ Buffers(c, i) \subseteq [type : STRING, at : 0 .. Len(Pkts)]
  <2>1. Pkts[i].type \in STRING /\ i \in 0 .. Len(Pkts)
    <3>1. Pkts[i] \in ArcaPacket
      BY <1>1, <1>3
    <3> HIDE DEF i
    <3>2. Pkts[i].type \in STRING
      BY <3>1 DEF ArcaPacket
    <3> QED
      BY <1>1, <1>3, <3>2
  <2>2. buf[c] \in [type : STRING, at : 0 .. Len(Pkts)]
    BY <1>1 DEF CopyInv, LineType
  <2> QED
    BY <2>1, <2>2 DEF Buffers
<1>5. sock' = [sock EXCEPT ![c] = Tail(s)]
  OBVIOUS
<1>6. /\ Tail(s) \in Seq(1 .. Len(Pkts)) /\ Len(Tail(s)) = Len(s) - 1 /\ Len(s) \in Nat
      /\ \A k \in 1 .. Len(s) - 1 : k + 1 \in 1 .. Len(s) /\ Tail(s)[k] = s[k + 1]
  BY <1>2, TailIs
<1>7. sock'[c] = Tail(s) /\ \A e \in Copies : e # c => sock'[e] = sock[e]
  BY <1>1, <1>2, <1>5
<1>8. sock' \in [Copies -> Seq(1 .. Len(Pkts))] /\ \A e \in Copies : Len(sock'[e]) <= MaxQueue
  <2>1. sock' \in [Copies -> Seq(1 .. Len(Pkts))]
    BY <1>1, <1>2, <1>5, <1>6
  <2>2. Len(s) <= MaxQueue /\ Len(s) \in Nat /\ MaxQueue \in Nat
    BY <1>1, <1>2, ArcaAssumption
  <2>3. ASSUME NEW e \in Copies PROVE Len(sock'[e]) <= MaxQueue
    <3>1. CASE e = c
      <4>1. Len(sock'[e]) = Len(s) - 1
        BY <1>6, <1>7, <3>1
      <4> HIDE DEF s
      <4> QED
        BY <2>2, <4>1
    <3>2. CASE e # c
      BY <1>2, <1>7, <3>2
    <3> QED
      BY <3>1, <3>2
  <2> QED
    BY <2>1, <2>3
<1>9. \A e \in Copies : \A k \in 1 .. Len(sock'[e]) :
         \E m \in 1 .. Len(sock[e]) : sock'[e][k] = sock[e][m]
  <2> SUFFICES ASSUME NEW e \in Copies, NEW k \in 1 .. Len(sock'[e])
               PROVE  \E m \in 1 .. Len(sock[e]) : sock'[e][k] = sock[e][m]
    OBVIOUS
  <2>1. CASE e # c
    BY <1>7, <2>1
  <2>2. CASE e = c
    <3>1. k \in 1 .. Len(s) - 1
      BY <1>6, <1>7, <2>2
    <3>2. k + 1 \in 1 .. Len(s) /\ Tail(s)[k] = s[k + 1]
      BY <1>6, <3>1
    <3> QED
      BY <1>7, <2>2, <3>2
  <2> QED
    BY <2>1, <2>2
<1>10. Pkts' = Pkts
  BY DEF Pkts
<1>11. ASSUME NEW l, \A e \in Range(Sockets) :
                        net[e] >= l /\ \A k \in 1 .. Len(sock[e]) : sock[e][k] >= l
       PROVE  \A e \in Range(Sockets) :
                        net'[e] >= l /\ \A k \in 1 .. Len(sock'[e]) : sock'[e][k] >= l
  BY <1>1, <1>9, <1>11
<1> HIDE DEF i, s
<1>12. buf' \in [Copies -> [type : STRING, at : 0 .. Len(Pkts)]]
  <2>1. PICK b \in [type : STRING, at : 0 .. Len(Pkts)] : buf' = [buf EXCEPT ![c] = b]
    BY <1>4 DEF Datagram, Runt, i
  <2> QED
    BY <1>1, <2>1 DEF CopyInv, LineType
<1>13. ASSUME SameWindow(g, g'), g'.exp = g.exp, out' = out, again' = again,
              skipped' = skipped, mixed' = mixed
       PROVE  CopyInv'
  <2>1. LastReset' = LastReset
    BY <1>10, <1>13 DEF LastReset
  <2>2. LineType'
    BY <1>2, <1>8, <1>10, <1>12, <1>13 DEF CopyInv, LineType, SameWindow
  <2>3. ASSUME ~mixed PROVE Ahead(LastReset)'
    BY <1>11, <2>1, <2>3 DEF CopyInv, LineInv, Ahead
  <2>4. Most(g') = Most(g)
    BY <1>13 DEF Most
  <2>5. WindowOK(g) => WindowOK(g')
    BY <1>13, <2>4 DEF WindowOK, InWindow, SameWindow
  <2>6. Told(Pkts, LastReset, out, again, skipped, g)
          => Told(Pkts, LastReset, out, again, skipped, g')
    BY <1>13, <2>4 DEF Told, SameWindow
  <2>7. LineInv'
    BY <1>10, <1>13, <2>1, <2>3, <2>5, <2>6 DEF CopyInv, LineInv
  <2> QED
    BY <2>2, <2>7 DEF CopyInv
<1>14. ASSUME g' \in Group, out' = out, mixed' = TRUE PROVE CopyInv'
  <2>1. LineType'
    BY <1>2, <1>8, <1>10, <1>12, <1>14 DEF CopyInv, LineType
  <2> QED
    BY <1>14, <2>1 DEF CopyInv, LineInv
<1>15. ASSUME NEW j \in 1 .. Len(Pkts), NEW p \in ArcaPacket, p.sn = Pkts[j].sn,
              (p.type = "reset") <=> (Pkts[j].type = "reset"), ~mixed => j >= LastReset,
              NEW u, NEW q, q = ProcessPacket(script.feed, g, d, c, p, u), Note(c, j, q),
              SameWindow(q.w.g, g'), g'.exp = q.w.g.exp
       PROVE  CopyInv'
  <2> DEFINE r == q
             a == Action(g, c, p)
  <2>0. p.sn \in Nat
    BY DEF ArcaPacket
  <2>1. SameWindow(r.w.g, g') /\ g'.exp = r.w.g.exp /\ Note(c, j, r)
    BY <1>15
  <2>2. /\ r.pub = a.pub /\ a.g \in Group /\ SameWindow(a.g, r.w.g)
        /\ p.type # "reset" => r.w.g.exp = a.g.exp
    BY <1>1, <1>2, <1>15, PacketProcessed
  <2> HIDE DEF r
  <2>3. g' \in Group
    BY <2>1, <2>2 DEF SameWindow
  <2>4. out' \in Seq(1 .. Len(Pkts))
    <3>1. out' = Append(out, j) \/ out' = out
      BY <2>1, Zenon DEF Note
    <3>2. Append(out, j) \in Seq(1 .. Len(Pkts))
      BY <1>2
    <3> QED
      BY <1>2, <3>1, <3>2
  <2>5. LineType'
    BY <1>2, <1>8, <1>10, <1>12, <2>3, <2>4 DEF CopyInv, LineType
  <2>6. LineInv'
    <3> SUFFICES ASSUME ~mixed'
                 PROVE  /\ WindowOK(g') /\ Told(Pkts, LastReset', out', again', skipped', g')
                        /\ Once(Pkts, out', again')
                        /\ \A e \in Range(Sockets) : net'[e] >= LastReset'
                             /\ \A k \in 1 .. Len(sock'[e]) : sock'[e][k] >= LastReset'
      BY <1>10 DEF LineInv, Ahead
    <3>1. ~mixed /\ (p.type = "reset" => InStep(j))
      BY <1>15, <2>1, Zenon DEF Note
    <3>2. /\ WindowOK(g) /\ Told(Pkts, LastReset, out, again, skipped, g)
          /\ Once(Pkts, out, again) /\ Ahead(LastReset)
      BY <3>1 DEF CopyInv, LineInv
    <3>3. IsLast(Pkts, out, LastReset)
      BY <1>1, <1>2, LastResetIs
    <3>4. IsLast(Pkts, out', LastReset')
      <4>1. (Pkts \in Seq(ArcaPacket))' /\ (out \in Seq(1 .. Len(Pkts)))'
        BY <1>1, <1>10, <2>4
      <4>2. IsLast(Pkts, out, LastReset)'
        BY <4>1, LastResetIs, PTL
      <4> QED
        BY <1>10, <4>2 DEF IsLast
    <3>5. \A n \in Range(out') : n \in Nat /\ n > 0
      BY <1>1, <2>4 DEF Range
    <3>6. /\ out' = IF r.pub THEN Append(out, j) ELSE out
          /\ again' = again \cup {n \in Range(out) : Pkts[n].sn \in r.w.g.missing \ g.missing}
          /\ skipped' = IF p.type = "reset" THEN {}
                        ELSE IF g.exp[c] = 0 THEN skipped \cup (Most(g) .. p.sn - 1)
                        ELSE skipped
      BY <1>15, <2>1, Zenon DEF Note, MostAdvanced, Most
    <3>7. CASE p.type # "reset"
      <4>1. a = NeedToPublish(g, c, p.sn)
        BY <3>7 DEF Action
      <4>2. Merged(g, c, p.sn, a.g, a.pub)
        BY <1>1, <1>2, <2>0, <3>2, <4>1, NeedMerges
      <4>3. Merged(g, c, p.sn, g', r.pub)
        <5>1. /\ a.g.exp = g'.exp /\ Most(g') = Most(a.g) /\ SameWindow(a.g, g')
          BY <2>1, <2>2, <3>7 DEF Most, SameWindow
        <5>2. WindowOK(g')
          BY <2>1, <2>2, <4>2, <5>1 DEF Merged, WindowOK, InWindow, SameWindow
        <5> QED
          BY <2>1, <2>2, <2>3, <4>2, <5>1, <5>2 DEF Merged, SameWindow
      <4>4. j >= LastReset
        BY <1>15, <3>1
      <4>5. History(Pkts, LastReset, out', again', skipped', g')
        <5>1. again' = again \cup {n \in Range(out) : Pkts[n].sn \in g'.missing \ g.missing}
          BY <2>1, <3>6 DEF SameWindow
        <5>2. skipped' = IF g.exp[c] = 0 THEN skipped \cup (Most(g) .. p.sn - 1) ELSE skipped
          BY <3>6, <3>7
        <5>3. PacketNoted(Pkts, out, again, skipped, g, c, j, g', r.pub, out', again', skipped')
          BY <1>15, <3>6, <3>7, <4>3, <5>1, <5>2, Zenon DEF PacketNoted
        <5>4. History(Pkts, LastReset, out, again, skipped, g)
          BY <1>1, <1>2, <3>2, <3>3, Zenon DEF History
        <5> QED
          BY <1>1, <4>4, <5>3, <5>4, PacketKeeps
      <4>6. LastReset' = LastReset
        BY <3>4, <3>5, <4>5, LastUnique DEF History
      <4> QED
        BY <1>11, <3>2, <4>5, <4>6 DEF Ahead, History
    <3>8. CASE p.type = "reset"
      <4>1. a.g = g /\ r.pub
        BY <2>2, <3>8 DEF Action
      <4>2. SameWindow(g, g') /\ out' = Append(out, j) /\ again \subseteq again' /\ skipped' = {}
        BY <2>1, <2>2, <3>6, <3>8, <4>1 DEF SameWindow
      <4>3. InStep(j)
        BY <3>1, <3>8
      <4>4. /\ g.missing = {} /\ \A m \in 1 .. Len(out) : out[m] <= j
            /\ \A e \in Range(Sockets) : net[e] >= j /\ \A k \in 1 .. Len(sock[e]) : sock[e][k] >= j
        BY <4>3 DEF InStep
      <4>5. History(Pkts, j, out', again', skipped', g')
        <5>1. ResetNoted(Pkts, out, again, g, j, g', out', again')
          BY <1>15, <3>8, <4>2, <4>4, Zenon DEF ResetNoted
        <5>2. History(Pkts, LastReset, out, again, skipped, g)
          BY <1>1, <1>2, <3>2, <3>3, Zenon DEF History
        <5> QED
          BY <4>2, <5>1, <5>2, ResetKeeps
      <4>6. LastReset' = j
        BY <3>4, <3>5, <4>5, LastUnique DEF History
      <4> QED
        BY <1>11, <4>4, <4>5, <4>6 DEF History
    <3> QED
      BY <3>7, <3>8
  <2> QED
    BY <2>5, <2>6 DEF CopyInv
<1>16. CASE Datagram(c, i)
  <2>1. CASE Pkts[i].type = "heartbeat"
    <3>1. /\ g' = g /\ out' = out /\ again' = again /\ skipped' = skipped
      BY <1>16, <2>1 DEF Datagram, told
    <3>2. mixed' = mixed
      BY <1>16, <2>1, Zenon DEF Datagram, told
    <3> QED
      BY <1>2, <1>13, <3>1, <3>2 DEF SameWindow
  <2>2. CASE Pkts[i].type # "heartbeat"
    <3>1. PICK u : \E r \in {ProcessPacket(script.feed, g, d, c, Pkts[i], u)} :
                      g' = r.w.g /\ d' = r.w.d /\ Note(c, i, r)
      BY <1>16, <2>2, Zenon DEF Datagram
    <3> DEFINE r == ProcessPacket(script.feed, g, d, c, Pkts[i], u)
    <3>2. g' = r.w.g /\ Note(c, i, r)
      BY <3>1, Zenon
    <3>3. Pkts[i] \in ArcaPacket
      BY <1>1, <1>3
    <3>4. SameWindow(r.w.g, r.w.g)
      BY <1>1, <1>2, <3>3, PacketProcessed DEF SameWindow
    <3>5. ~mixed => i >= LastReset
      BY <1>3 DEF CopyInv, LineInv, Ahead, s
    <3> HIDE DEF r
    <3>6. r = ProcessPacket(script.feed, g, d, c, Pkts[i], u)
      BY DEF r
    <3> QED
      BY <1>3, <1>15, <3>2, <3>3, <3>4, <3>5, <3>6
  <2> QED
    BY <2>1, <2>2
<1>17. ASSUME NEW b \in Buffers(c, i), Runt(c, b) PROVE CopyInv'
  <2>0. b \in [type : STRING, at : 0 .. Len(Pkts)]
    BY <1>4
  <2>1. CASE b.type = "heartbeat"
    <3>1. /\ g' = RuntPacketError(g, [sn |-> 0])
          /\ out' = out /\ again' = again /\ skipped' = skipped
      BY <1>17, <2>1 DEF Runt
    <3>2. mixed' = mixed
      BY <1>17, <2>1, Zenon DEF Runt
    <3> QED
      BY <1>2, <1>13, <3>1, <3>2, RuntTold
  <2>2. CASE b.type # "heartbeat"
    <3>1. PICK p \in RuntPackets(b) : \E u : \E r \in {ProcessPacket(script.feed, g, d, c, p, u)} :
             /\ g' = RuntPacketError(r.w.g, [sn |-> 0])
             /\ IF StandsFor(b) THEN Note(c, b.at, r)
                ELSE mixed' = TRUE /\ UNCHANGED <<out, again, skipped>>
      <4>1. \E p \in RuntPackets(b) : \E u \in SUBSET (1 .. Len(p.msgs)) :
            \E r \in {ProcessPacket(script.feed, g, d, c, p, u)} :
                /\ ~(script.fast /\ r.pub)
                /\ g' = RuntPacketError(r.w.g, [sn |-> 0]) /\ d' = r.w.d
                /\ blank' = IF r.pub THEN blank \cup {b.at} ELSE blank
                /\ IF StandsFor(b) THEN Note(c, b.at, r)
                   ELSE mixed' = TRUE /\ UNCHANGED <<out, again, skipped>>
        BY <1>17, <2>2, Zenon DEF Runt
      <4> QED
        BY <4>1, Zenon
    <3>2. PICK u : \E r \in {ProcessPacket(script.feed, g, d, c, p, u)} :
             /\ g' = RuntPacketError(r.w.g, [sn |-> 0])
             /\ IF StandsFor(b) THEN Note(c, b.at, r)
                ELSE mixed' = TRUE /\ UNCHANGED <<out, again, skipped>>
      BY <3>1, Zenon
    <3> DEFINE r == ProcessPacket(script.feed, g, d, c, p, u)
    <3>3. /\ g' = RuntPacketError(r.w.g, [sn |-> 0])
          /\ IF StandsFor(b) THEN Note(c, b.at, r)
             ELSE mixed' = TRUE /\ UNCHANGED <<out, again, skipped>>
      BY <3>2, Zenon
    <3>4. p \in ArcaPacket /\ p.type = b.type /\ p.sn = Number(b.at)
      BY <2>0, RuntIs DEF CopyInv
    <3>5. r.w.g \in Group
      BY <1>1, <1>2, <3>4, PacketProcessed DEF SameWindow
    <3> HIDE DEF r
    <3>6. r = ProcessPacket(script.feed, g, d, c, p, u)
      BY DEF r
    <3>7. SameWindow(r.w.g, g') /\ g'.exp = r.w.g.exp /\ g' \in Group
      BY <3>3, <3>5, RuntTold DEF SameWindow
    <3>8. CASE StandsFor(b)
      <4>1. /\ b.at \in 1 .. Len(Pkts) /\ b.at >= LastReset
            /\ b.type # "reset" /\ Pkts[b.at].type # "reset"
        BY <1>1, <2>0, <3>8 DEF StandsFor
      <4>2. p.sn = Pkts[b.at].sn
        BY <3>4, <4>1 DEF Number
      <4> QED
        BY <1>15, <3>3, <3>4, <3>6, <3>7, <3>8, <4>1, <4>2
    <3>9. CASE ~StandsFor(b)
      <4>1. out' = out /\ mixed' = TRUE
        BY <3>3, <3>9, Zenon
      <4> QED
        BY <1>14, <3>7, <4>1
    <3> QED
      BY <3>8, <3>9
  <2> QED
    BY <2>1, <2>2
<1> QED
  BY <1>16, <1>17 DEF i

\* One read of a socket: it fails, or takes a datagram.
LEMMA GetKeeps ==
  ASSUME CopyInv, NEW c \in Range(Sockets), sock[c] # <<>>, GetPacket(c),
         script' = script, net' = net, stopped' = stopped,
         IsLoop(lh'), lh'.pc = "drain" => Len(Sockets) > 0
  PROVE  CopyInv'
<1>1. CASE UNCHANGED <<line, sock>>
  <2>1. stopped' \in BOOLEAN /\ UNCHANGED <<script, line, net, sock>>
    BY <1>1 DEF CopyInv, LineType
  <2> QED
    BY <2>1, OthersKeep
<1>2. CASE ~UNCHANGED <<line, sock>>
  <2>1. /\ sock' = [sock EXCEPT ![c] = Tail(@)]
        /\ \/ Datagram(c, Head(sock[c]))
           \/ \E b \in Buffers(c, Head(sock[c])) : Runt(c, b)
    BY <1>2 DEF GetPacket
  <2> QED
    BY <2>1, TakenKeeps
<1> QED
  BY <1>1, <1>2

\* The line handler thread takes packets.
LEMMA LoopKeeps == CopyInv /\ (Select \/ Drain) => CopyInv'
<1> SUFFICES ASSUME CopyInv, Select \/ Drain PROVE CopyInv'
  OBVIOUS
<1>1. /\ IsLoop(lh) /\ (lh.pc = "drain" => Len(Sockets) > 0) /\ Len(Sockets) \in Nat
      /\ Sockets \in Seq(Copies)
  BY ArcaAssumption DEF CopyInv, LineType
<1>2. script' = script /\ net' = net
  BY DEF Select, Drain
<1>3. stopped' = stopped
  BY Zenon DEF Select, Drain, proc
<1>4. CASE Select
  <2>1. PICK j \in 1 .. Len(Sockets) :
           /\ sock[Sockets[j]] # <<>> /\ GetPacket(Sockets[j])
           /\ lh' = [pc |-> "drain", last |-> j - 1, k |-> 0, found |-> FALSE]
    BY <1>4, Zenon DEF Select
  <2>2. IsLoop(lh') /\ Len(Sockets) > 0
    BY <1>1, <2>1 DEF IsLoop
  <2>3. Sockets[j] \in Range(Sockets)
    BY <1>1 DEF Range
  <2> QED
    BY <1>2, <1>3, <2>1, <2>2, <2>3, GetKeeps
<1>5. CASE Drain
  <2>1. Len(Sockets) > 0
    BY <1>1, <1>5 DEF Drain
  <2>2. NextSocket \in Range(Sockets)
    <3> DEFINE x == (lh.last + 1 + lh.k) % Len(Sockets)
    <3>1. lh.last + 1 + lh.k \in Nat
      BY <1>1 DEF IsLoop
    <3>2. x \in 0 .. Len(Sockets) - 1
      BY <1>1, <2>1, <3>1
    <3>3. x + 1 \in 1 .. Len(Sockets) /\ NextSocket = Sockets[x + 1]
      BY <1>1, <3>2 DEF NextSocket
    <3> QED
      BY <1>1, <3>3 DEF Range
  <2>3. IsLoop(lh')
    <3>1. \/ \E n \in {0, lh.k + 1} : \E f : lh' = [lh EXCEPT !.k = n, !.found = f]
          \/ lh' = [Loop0 EXCEPT !.pc = "select"]
      BY <1>5, Zenon DEF Drain
    <3>2. CASE \E n \in {0, lh.k + 1} : \E f : lh' = [lh EXCEPT !.k = n, !.found = f]
      <4>1. PICK n \in {0, lh.k + 1} : \E f : lh' = [lh EXCEPT !.k = n, !.found = f]
        BY <3>2
      <4>2. n \in Nat
        BY <1>1 DEF IsLoop
      <4> QED
        BY <1>1, <4>1, <4>2 DEF IsLoop
    <3>3. CASE lh' = [Loop0 EXCEPT !.pc = "select"]
      BY <3>3 DEF IsLoop, Loop0
    <3> QED
      BY <3>1, <3>2, <3>3
  <2>4. CASE sock[NextSocket] # <<>>
    <3>1. GetPacket(NextSocket)
      BY <1>5, <2>4 DEF Drain
    <3> QED
      BY <1>2, <1>3, <2>1, <2>2, <2>3, <2>4, <3>1, GetKeeps
  <2>5. CASE sock[NextSocket] = <<>>
    <3>1. UNCHANGED <<script, line, net, sock>>
      BY <1>2, <1>5, <2>5 DEF Drain
    <3>2. stopped' \in BOOLEAN
      BY <1>3 DEF CopyInv, LineType
    <3> QED
      BY <2>1, <2>3, <3>1, <3>2, OthersKeep
  <2> QED
    BY <2>4, <2>5
<1> QED
  BY <1>4, <1>5

\* The window of an ARCA line and what it has published agree, whatever either copy
\* loses, repeats or brings late (need_2_publish, process_packet).
THEOREM CopiesInvariant == ArcaSpec => []CopyInv
<1>1. CopyInv /\ [ArcaNext]_arca => CopyInv'
  <2> SUFFICES ASSUME CopyInv, [ArcaNext]_arca PROVE CopyInv'
    OBVIOUS
  <2>1. CASE Net
    <3>1. PICK c \in Range(Sockets) : Carry(c) \/ Lose(c) \/ Repeat(c)
      BY <2>1 DEF Net
    <3> QED
      BY <3>1, NetKeeps
  <2> QED
    BY <2>1, ThreadsKeep, LoopKeeps DEF ArcaNext, LhThread
<1> QED
  BY InitCopies, <1>1, PTL DEF ArcaSpec

\* need_2_publish merges the two copies of a line: no packet is published twice
\* unless second_gap has marked it anew, and the window tells exactly what can
\* still be recovered, as long as every reset is handled with the copies in step.
THEOREM CopiesAreMerged == ArcaSpec => []CopiesMerged
<1>1. CopyInv /\ ThreadInv => CopiesMerged
  <2> SUFFICES ASSUME CopyInv, ThreadInv PROVE CopiesMerged
    OBVIOUS
  <2>1. ArcaTypeOK
    <3>1. /\ g.exp \in [Copies -> Nat] /\ g.missing \subseteq Nat
          /\ {g.base, g.count, g.lowest, g.highest} \subseteq Nat
      BY GroupFields DEF CopyInv, LineType
    <3>2. g.in_sequence \in BOOLEAN /\ g.status \in BOOLEAN /\ stopped \in BOOLEAN
      BY GroupFields, Zenon DEF CopyInv, LineType
    <3>3. net \in [Copies -> 0 .. Len(Pkts)] /\ \A c \in Copies : Len(sock[c]) <= MaxQueue
      BY DEF CopyInv, LineType
    <3>4. /\ lh.pc \in {"none", "init", "select", "drain", "end"}
          /\ mg \in {"none", "init", "run", "end"}
      BY DEF ThreadInv, PlacesOK, LhPlaces, MgPlaces
    <3>5. sem \in 0 .. 1
      BY DEF ThreadInv, PlacesOK, PermitKept
    <3> QED
      BY <3>1, <3>2, <3>3, <3>4, <3>5 DEF ArcaTypeOK
  <2>2. PublishedOnce
    BY Zenon DEF CopyInv, LineInv, Once, PublishedOnce
  <2>3. WindowExact
    <3> SUFFICES ASSUME ~mixed
                 PROVE  /\ g.count = Cardinality(g.missing)
                        /\ g.status = g.in_sequence /\ g.in_sequence = (g.missing = {})
                        /\ ~g.in_sequence =>
                             /\ (g.base .. MostAdvanced - 1) \ PubNums \subseteq g.missing \cup skipped
                             /\ g.missing \cap PubNums \subseteq {Pkts[j].sn : j \in again}
                             /\ g.lowest \in g.missing /\ \A n \in g.missing : n >= g.lowest
      BY Zenon DEF WindowExact
    <3>1. WindowOK(g) /\ Told(Pkts, LastReset, out, again, skipped, g)
      BY DEF CopyInv, LineInv
    <3>2. g.in_sequence \in BOOLEAN
      BY GroupFields, Zenon DEF CopyInv, LineType
    <3>3. /\ g.count = Cardinality(g.missing) /\ g.status = g.in_sequence
          /\ g.in_sequence = (g.missing = {})
      BY <3>1, <3>2, Zenon DEF WindowOK
    <3>4. ASSUME ~g.in_sequence PROVE g.lowest \in g.missing /\ \A n \in g.missing : n >= g.lowest
      <4>1. InWindow(g) /\ g.lowest \in Nat /\ g.missing \subseteq Nat
        BY <3>1, <3>4, GroupFields DEF WindowOK, CopyInv, LineType
      <4> QED
        BY <4>1 DEF InWindow
    <3>5. PubNums = {Pkts[j].sn : j \in Since(out, LastReset)}
      BY Zenon DEF PubNums, Since
    <3>6. MostAdvanced = Most(g)
      BY DEF MostAdvanced, Most
    <3>7. ASSUME ~g.in_sequence
          PROVE  (g.base .. MostAdvanced - 1) \ PubNums \subseteq g.missing \cup skipped
      BY <3>1, <3>5, <3>6, <3>7 DEF Told
    <3>8. g.missing \cap PubNums \subseteq {Pkts[j].sn : j \in again}
      BY <3>1, <3>5 DEF Told
    <3> QED
      BY <3>3, <3>4, <3>7, <3>8
  <2> QED
    BY <2>1, <2>2, <2>3 DEF CopiesMerged
<1> QED
  BY CopiesInvariant, ThreadsInvariant, <1>1, PTL

===============================================================================
