------------------------------- MODULE GapHeap -------------------------------
(***************************************************************************)
(* The gap list as fh_shr_gap_fill.h builds it: GapMax list nodes carved   *)
(* out of one memory pool, linked by next and prev.  A list is a record    *)
(*   node  : the contents of every chunk of the pool (freed ones too)      *)
(*   free  : the pool's free chunks, last freed first (mp_mchunks)         *)
(*   head, tail, count : the fields of fh_shr_gap_fill_list                *)
(*   ok    : FALSE once the code has followed a NULL pointer               *)
(* Chunks are 1..GapMax and NULL is 0.                                     *)
(***************************************************************************)
EXTENDS GapList

NULL == 0
Chunk == 1..GapMax
Ptr == Chunk \cup {NULL}

\* fh_mpool_new zeroes the block and pushes the chunks one by one.
NewList ==
  [node  |-> [x \in Chunk |-> [seq_no |-> 0, size |-> 0, timestamp |-> 0,
                               next |-> NULL, prev |-> NULL]],
   free  |-> Reverse([x \in Chunk |-> x]),
   head  |-> NULL, tail |-> NULL, count |-> 0, ok |-> TRUE]

\* fh_mpool_get (no GROW flag: the pool of a gap list never grows).
PoolEmpty(L) == L.free = <<>>
PoolGet(L) == [L EXCEPT !.free = Tail(@)]

\* A node for a new record.
TakeNode(L) == [PoolGet(L) EXCEPT !.count = @ + 1]

\* fh_mpool_put (no CLEAR flag: the freed chunk keeps its contents).
PoolPutLeaks(L, x) == L   \* mutant: the filled record is not returned
PoolPut(L, x) == [L EXCEPT !.free = <<x>> \o @]

Crash(L) == [L EXCEPT !.ok = FALSE]

\* x->f = v, a fault when x is NULL.
SetPrev(L, x, p) == IF x = NULL THEN Crash(L) ELSE [L EXCEPT !.node[x].prev = p]
SetNext(L, x, p) == IF x = NULL THEN Crash(L) ELSE [L EXCEPT !.node[x].next = p]

-----------------------------------------------------------------------------
(* Walking the list from its head.                                          *)

Visited(L) ==
  LET at[k \in 1..(GapMax + 1)] ==
        IF k = 1 THEN L.head
        ELSE IF at[k - 1] = NULL THEN NULL ELSE L.node[at[k - 1]].next
  IN  at

Endless(L) == Visited(L)[GapMax + 1] # NULL

Chain(L) == [k \in {j \in 1..GapMax : Visited(L)[j] # NULL} |-> Visited(L)[k]]

Record(L, x) == NewGap(L.node[x].seq_no, L.node[x].size, L.node[x].timestamp)

Records(L) == LET c == Chain(L) IN [i \in 1..Len(c) |-> Record(L, c[i])]

-----------------------------------------------------------------------------
(* The operations.  Each returns the list afterwards and the return code;   *)
(* del also returns the node its caller is left with.                       *)

\* Link a chunk that is in no list after the tail.
LinkLast(L, x, gap) ==
  LET filled == [L EXCEPT !.node[x] = [seq_no |-> gap.seq_no, size |-> gap.size,
                                       timestamp |-> gap.timestamp,
                                       next |-> NULL, prev |-> L.tail]]
  IN  IF L.tail = NULL
        THEN [filled EXCEPT !.head = x, !.tail = x]
        ELSE [SetNext(filled, L.tail, x) EXCEPT !.tail = x]

\* What is lost with a record that is dropped or expires.
LostOnce(L, x) == 1   \* mutant: records are counted, not numbers
LostWith(L, x) == L.node[x].size

HeapPush(L, s, n, now) ==
  IF L.count + 1 > GapMax
    THEN IF L.head = NULL
           THEN [list |-> Crash(L), rc |-> 0]
           ELSE [list |-> LinkLast([L EXCEPT !.head = L.node[L.head].next], L.head,
                                   NewGap(s, n, now)),
                 rc   |-> LostWith(L, L.head)]
    ELSE IF PoolEmpty(L)
           THEN [list |-> L, rc |-> -1]
           ELSE [list |-> LinkLast(TakeNode(L), Head(L.free),
                                   NewGap(s, n, now)),
                 rc   |-> 0]

HeapFind(L, s) ==
  LET c == Chain(L)
      i == SelectInSeq(c, LAMBDA x : s \in Span(L.node[x]))
  IN  IF i = 0 THEN NULL ELSE c[i]

\* Put the upper half of record x, cut at s, into chunk h and link it after x.
SplitInto(L, x, h, s, t) ==
  LET c    == L.node[x]
      up   == Above(c, s, t)
      body == [L EXCEPT !.node[h] = [seq_no |-> up.seq_no, size |-> up.size,
                                     timestamp |-> t, next |-> c.next, prev |-> x],
                        !.node[x] = [c EXCEPT !.size = @ - (up.size + 1), !.next = h]]
  IN  IF x = L.tail THEN [body EXCEPT !.tail = h] ELSE SetPrev(body, c.next, h)

\* A record whose last number is gone leaves the list and returns to the pool.
Unlink(L, x) ==
  LET c == L.node[x]
      out ==
        IF L.head = L.tail THEN [L EXCEPT !.head = NULL, !.tail = NULL]
        ELSE IF x = L.head
          THEN SetPrev([L EXCEPT !.head = c.next], c.next, NULL)
        ELSE IF x = L.tail
          THEN SetNext([L EXCEPT !.tail = c.prev], c.prev, NULL)
        ELSE SetPrev(SetNext(L, c.prev, c.next), c.next, c.prev)
  IN  PoolPut([out EXCEPT !.count = @ - 1], x)

\* A full list whose head is cut keeps the upper part only.
CutHeadBelow(L, x, s) ==   \* mutant: keeps the lower part
  [L EXCEPT !.node[x].size = s - L.node[x].seq_no]
CutHead(L, x, s) ==
  [L EXCEPT !.node[x].seq_no = s + 1, !.node[x].size = @ - (s - L.node[x].seq_no + 1)]

DelMiddle(L, x, s) ==
  LET c == L.node[x] IN
  IF L.count >= GapMax
    THEN IF x = L.head
           THEN [list |-> CutHead(L, x, s), rc |-> s - c.seq_no, node |-> x]
           ELSE LET h == L.head
                    up == L.node[h].next
                    popped == SetPrev([L EXCEPT !.head = up], up, NULL)
                IN  [list |-> SplitInto(popped, x, h, s, L.node[h].timestamp),
                     rc |-> c.size, node |-> h]
    ELSE IF PoolEmpty(L)
           THEN [list |-> L, rc |-> -1, node |-> x]
           ELSE [list |-> SplitInto(TakeNode(L), x, Head(L.free), s, c.timestamp),
                 rc |-> 0, node |-> Head(L.free)]

HeapDel(L, x, s) ==
  LET c == L.node[x]
      cut ==
        IF c.seq_no = s
          THEN [list |-> [L EXCEPT !.node[x].seq_no = @ + 1, !.node[x].size = @ - 1],
                rc |-> 0, node |-> x]
        ELSE IF c.seq_no + c.size - 1 = s
          THEN [list |-> [L EXCEPT !.node[x].size = @ - 1], rc |-> 0, node |-> x]
        ELSE IF InMiddle(c, s)
          THEN DelMiddle(L, x, s)
        ELSE [list |-> L, rc |-> 0, node |-> x]
  IN  IF cut.list.node[x].size = 0
        THEN [list |-> Unlink(cut.list, x), rc |-> cut.rc, node |-> NULL]
        ELSE cut

\* What del drops from record x to make room on a full list; it returns c.size.
HeapDropped(L, x, s) ==
  LET c == L.node[x] IN
  IF ~InMiddle(c, s) \/ L.count < GapMax THEN 0
  ELSE IF x = L.head THEN s - c.seq_no ELSE LostWith(L, L.head)

\* Expired records leave from the head, one by one: each goes back to the pool
\* and the next one, now the head, loses its prev.
HeapFlush(L, now) ==
  LET c     == Chain(L)
      k     == CHOOSE n \in 0..Len(c) : ExpiredPrefix(Records(L), now, n)
      heads == {c[j] : j \in 2..(IF k < Len(c) THEN k + 1 ELSE k)}
      rest  == IF k = Len(c) THEN NULL ELSE c[k + 1]
  IN  [list |-> [L EXCEPT !.head = rest, !.count = @ - k,
                          !.tail = IF rest = NULL THEN NULL ELSE @,
                          !.free = Reverse(SubSeq(c, 1, k)) \o @,
                          !.node = [x \in Chunk |-> IF k > 0 /\ x \in heads
                                                    THEN [@[x] EXCEPT !.prev = NULL]
                                                    ELSE @[x]]],
       rc   |-> Sizes(SubSeq(Records(L), 1, k))]

-----------------------------------------------------------------------------
(* What a well-formed list is: the walk from head ends, at tail, after      *)
(* count nodes; every prev undoes a next; every chunk of the pool is in the *)
(* list or free, and not both.  (The head's own prev is never read.)        *)

HeapOK(L) ==
  LET c == Chain(L) IN
  /\ L.ok
  /\ ~Endless(L)
  /\ Len(c) = L.count
  /\ L.tail = IF c = <<>> THEN NULL ELSE Last(c)
  /\ \A i \in 2..Len(c) : L.node[c[i]].prev = c[i - 1]
  /\ Len(c) + Len(L.free) = GapMax
  /\ ToSet(c) \cup ToSet(L.free) = Chunk

===============================================================================
