------------------------------ MODULE GapCaller ------------------------------
(***************************************************************************)
(* What every caller of the linked gap list shares: the list, the time     *)
(* that its records are stamped with, and the bounds of a run.             *)
(***************************************************************************)
EXTENDS GapHeap, FiniteSets

CONSTANTS
  MaxSeqNo,    \* bound on the sequence numbers of a run
  MaxClock     \* bound on time(NULL), which starts at 0

ASSUME BoundAssumption == MaxSeqNo \in Nat \ {0} /\ MaxClock \in Nat

VARIABLES
  list,         \* the gap list
  now           \* time(NULL)

\* The links, the count and the pool agree after every push, del and flush: no chunk
\* is lost, linked twice, or linked and free (fh_shr_gap_fill.h), whatever node its
\* caller has held on to.
ListIntact == HeapOK(list)

===============================================================================
