------------------------------- MODULE GapFill -------------------------------
(***************************************************************************)
(* The linked gap list under its callers: the operations of GapHeap in any *)
(* order the parsers can call them.                                        *)
(***************************************************************************)
EXTENDS GapCaller

VARIABLES
  next_seq_no,  \* the caller's next expected sequence number
  report        \* the last call: its return code, and what it really lost

vars == <<list, next_seq_no, now, report>>

Init ==
  /\ list = NewList
  /\ next_seq_no = 1
  /\ now = 0
  /\ report = [op |-> "none", rc |-> 0, lost |-> 0]

\* A call of op that leaves result.list and returns result.rc.  The numbers in
\* filled left the list because their message arrived; any other is lost.
Returns(op, result, filled) ==
  /\ list' = result.list
  /\ report' = [op |-> op, rc |-> result.rc,
                lost |-> Cardinality((Missing(Records(list)) \ filled)
                                       \ Missing(Records(result.list)))]

Push(n) ==
  /\ list.ok
  /\ next_seq_no + n <= MaxSeqNo
  /\ Returns("push", HeapPush(list, next_seq_no, n, now), {})
  /\ next_seq_no' = next_seq_no + n
  /\ UNCHANGED now

FindAndDel(s) ==
  /\ list.ok
  /\ HeapFind(list, s) # NULL
  /\ Returns("del", HeapDel(list, HeapFind(list, s), s), {s})
  /\ UNCHANGED <<next_seq_no, now>>

Flush ==
  /\ list.ok
  /\ Returns("flush", HeapFlush(list, now), {})
  /\ UNCHANGED <<next_seq_no, now>>

\* The expected number arrived: the caller moves on without touching the list.
Arrive ==
  /\ next_seq_no < MaxSeqNo
  /\ next_seq_no' = next_seq_no + 1
  /\ UNCHANGED <<list, now, report>>

Tick ==
  /\ now < MaxClock
  /\ now' = now + 1
  /\ UNCHANGED <<list, next_seq_no, report>>

Next ==
  \/ \E n \in 1..MaxSeqNo : Push(n)
  \/ \E s \in 1..MaxSeqNo : FindAndDel(s)
  \/ Flush
  \/ Arrive
  \/ Tick

Spec == Init /\ [][Next]_vars

-----------------------------------------------------------------------------

TypeOK ==
  /\ list \in [node : [Chunk -> [seq_no : Nat, size : Nat, timestamp : Nat,
                                 next : Ptr, prev : Ptr]],
               free : Seq(Chunk), head : Ptr, tail : Ptr,
               count : 0..GapMax, ok : BOOLEAN]
  /\ next_seq_no \in 1..MaxSeqNo
  /\ now \in 0..MaxClock
  /\ report.rc \in Int

\* Gap records stay in sequence order, are never empty and never overlap, and
\* lie below the caller's next number, however splits reuse the head node.
RecordsOrdered ==
  LET g == Records(list) IN
  /\ \A i \in 1..Len(g) : g[i].size > 0
  /\ Ordered(g)
  /\ AllBelow(g, next_seq_no)

\* The list is sound at both levels: its links, count and pool agree, and the records
\* they hold are in order, whichever node a split on a full list takes for its own.
ListSound == TypeOK /\ ListIntact /\ RecordsOrdered

\* Push and flush return exactly "the number of lost sequence numbers"
\* (fh_shr_gap_fill.h:77), whatever splits, timeouts and full lists came before.
\* When del drops a record to make room it returns the size of the record it cut
\* (:208), which tells the caller only that something was lost.
LossNoticed ==
  /\ report.op \in {"push", "flush"} => report.rc = report.lost
  /\ report.op = "del" => (report.rc > 0 <=> report.lost > 0)

\* A list of at least two nodes behaves as the sequence of records: every call
\* does to the records what GapList says (the abstract specification).
Tracker == INSTANCE GapTracker WITH gaps <- Records(list)

ImplementsTracker == Tracker!TrackerSpec

===============================================================================
