------------------------------- MODULE GapList -------------------------------
(***************************************************************************)
(* The gap list of feeds/shared/gap_mgmt as a value: the sequence of gap   *)
(* records from list->head to list->tail, and what push, find, del and     *)
(* flush do to that sequence.  Module GapHeap has the linked-list code     *)
(* itself; run "gapfill_refines" shows that it computes these operators.   *)
(***************************************************************************)
EXTENDS Integers, Sequences, SequencesExt

CONSTANTS
  GapMax,      \* list->max: number of gap records the list may hold
  GapTimeout   \* list->timeout: seconds a gap may stay open

\* GapMax = 0 stands for "no gap list was allocated" (gap_list_max <= 0).
ASSUME GapAssumption == GapMax \in Nat /\ GapTimeout \in Nat

Gap == [seq_no : Nat, size : Nat, timestamp : Nat]

NewGap(s, n, t) == [seq_no |-> s, size |-> n, timestamp |-> t]

\* The sequence numbers of one gap, and of all gaps of a list.
Span(c) == c.seq_no .. (c.seq_no + c.size - 1)

Missing(g) == UNION {Span(g[i]) : i \in 1..Len(g)}

\* What is lost with the records of g.
Sizes(g) == FoldLeft(LAMBDA n, c : n + c.size, 0, g)

ListFull(g) == Len(g) >= GapMax

\* The list without its i-th record, and without its first k records.
RemoveRecordKept(g, i) == g   \* mutant: a filled record stays
RemoveRecord(g, i) ==
  [k \in 1..(Len(g) - 1) |-> IF k < i THEN g[k] ELSE g[k + 1]]

DropPrefix(g, k) == [j \in 1..(Len(g) - k) |-> g[k + j]]

-----------------------------------------------------------------------------
(* fh_shr_gap_fill_push: a full list gives up its head to make room.        *)

PushGap(g, s, n, now) ==
  Append(IF ListFull(g) THEN DropPrefix(g, 1) ELSE g, NewGap(s, n, now))

PushLost(g) == IF ListFull(g) THEN g[1].size ELSE 0

-----------------------------------------------------------------------------
(* fh_shr_gap_fill_find: i is the first record that covers s.               *)

FindGap(g, s, i) ==
  /\ i \in 1..Len(g)
  /\ s \in Span(g[i])
  /\ \A j \in 1..(i - 1) : s \notin Span(g[j])

-----------------------------------------------------------------------------
(* fh_shr_gap_fill_del: remove s from record i, which covers it.            *)

Below(c, s) == [c EXCEPT !.size = s - c.seq_no]
Above(c, s, t) == NewGap(s + 1, c.size - (s - c.seq_no) - 1, t)

InMiddle(c, s) == c.seq_no < s /\ s < c.seq_no + c.size - 1

SplitRecord(g, i, lo, hi) ==
  [k \in 1..(Len(g) + 1) |->
     IF k < i THEN g[k] ELSE IF k = i THEN lo ELSE IF k = i + 1 THEN hi ELSE g[k - 1]]

\* The record split off when the list is full reuses the old head node and
\* keeps that node's timestamp.
DelGap(g, i, s) ==
  LET c == g[i]
      split(t) == SplitRecord(g, i, Below(c, s), Above(c, s, t))
  IN  IF c.size = 1 THEN RemoveRecord(g, i)
      ELSE IF s = c.seq_no THEN [g EXCEPT ![i] = Above(c, s, c.timestamp)]
      ELSE IF s = c.seq_no + c.size - 1 THEN [g EXCEPT ![i] = Below(c, s)]
      ELSE IF ~ListFull(g) THEN split(c.timestamp)
      ELSE IF i = 1 THEN [g EXCEPT ![i] = Above(c, s, c.timestamp)]
      ELSE DropPrefix(split(g[1].timestamp), 1)

\* The return code: what the function reports as lost.
DelLost(g, i, s) ==
  LET c == g[i]
  IN  IF ~InMiddle(c, s) \/ ~ListFull(g) THEN 0
      ELSE IF i = 1 THEN s - c.seq_no ELSE c.size

\* What it really drops: off the head it gives up the head record, whose size
\* it never reads.
DelDropped(g, i, s) ==
  IF ~InMiddle(g[i], s) \/ ~ListFull(g) THEN 0
  ELSE IF i = 1 THEN s - g[i].seq_no ELSE g[1].size

-----------------------------------------------------------------------------
(* fh_shr_gap_fill_flush: the first k records are expired at time now.      *)

Expired(c, now) == c.timestamp < now - GapTimeout

ExpiredPrefix(g, now, k) ==
  /\ k \in 0..Len(g)
  /\ \A j \in 1..k : Expired(g[j], now)
  /\ k < Len(g) => ~Expired(g[k + 1], now)

-----------------------------------------------------------------------------
(* The records of a caller that only pushes numbers above the ones it has   *)
(* pushed before: in order and without overlap.                             *)

Ordered(g) ==
  \A i, j \in 1..Len(g) : i < j => g[i].seq_no + g[i].size <= g[j].seq_no

AllBelow(g, n) == \A i \in 1..Len(g) : g[i].seq_no + g[i].size <= n

===============================================================================
