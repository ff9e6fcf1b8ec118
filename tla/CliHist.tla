------------------------------ MODULE CliHist -------------------------------
(***************************************************************************)
(* The command history of the management shell (mgmt/cli/fh_cli_hist.c): a *)
(* ring of HIST_CNT commands, kept in a file from one session to the next. *)
(* A command is a sequence of characters; the empty one is a slot that was *)
(* never written.  h.idx is the slot the next command goes to, from 0.     *)
(***************************************************************************)
EXTENDS Integers, Sequences, SequencesExt

CONSTANT HIST_CNT

ASSUME HistAssumption == HIST_CNT \in Nat \ {0}

HistSlots == 0..HIST_CNT - 1
EmptyHist == [slot |-> [i \in HistSlots |-> <<>>], idx |-> 0, cnt |-> 0]

\* fh_cli_hist_get: the command n back; the slot to be written next for 0.
HistGet(h, n) == h.slot[(h.idx + HIST_CNT - n) % HIST_CNT]

\* The commands in the order they were given, the oldest first.
Entries(h) == [i \in 1..h.cnt |-> HistGet(h, h.cnt + 1 - i)]

HistLoad(file) ==
    LET n == IF Len(file) < HIST_CNT THEN Len(file) ELSE HIST_CNT
    IN  [slot |-> [i \in HistSlots |-> IF i < n THEN file[i + 1] ELSE <<>>], idx |-> n % HIST_CNT, cnt |-> n]

\* Nothing is written while there is nothing to write.
HistSave(h, file) == IF h.cnt > 0 THEN Entries(h) ELSE file

\* mutant: a full ring forgets to move on.
HistAddStays(h, cmd) ==
    IF h.cnt > 0 /\ HistGet(h, 1) = cmd THEN h
    ELSE [slot |-> [h.slot EXCEPT ![h.idx] = cmd],
          idx |-> IF h.cnt < HIST_CNT THEN (h.idx + 1) % HIST_CNT ELSE h.idx,
          cnt |-> IF h.cnt < HIST_CNT THEN h.cnt + 1 ELSE h.cnt]

\* A command that repeats the last one is not added.
HistAdd(h, cmd) ==
    IF h.cnt > 0 /\ HistGet(h, 1) = cmd THEN h
    ELSE [slot |-> [h.slot EXCEPT ![h.idx] = cmd],
          idx |-> (h.idx + 1) % HIST_CNT,
          cnt |-> IF h.cnt < HIST_CNT THEN h.cnt + 1 ELSE h.cnt]

\* The least number that passes the test, or none.
FirstOf(S) == IF S = {} THEN -1 ELSE CHOOSE i \in S : \A j \in S : i <= j

\* The number of the newest command that begins so.
HistFind(h, start) ==
    LET i == FirstOf({n \in 0..h.cnt - 1 : IsPrefix(start, HistGet(h, n + 1))})
    IN  IF i = -1 THEN -1 ELSE h.cnt - 1 - i

\* The next older command, from the iterator on, that contains the text.
HistMatch(h, text, itr) ==
    LET from == IF itr = h.cnt THEN 0 ELSE itr
        i == FirstOf({n \in from..h.cnt - 1 : \E k \in 0..Len(HistGet(h, n + 1)) :
                        IsPrefix(text, SubSeq(HistGet(h, n + 1), k + 1, Len(HistGet(h, n + 1))))})
    IN  [itr |-> IF i = -1 THEN from ELSE i + 1, found |-> i # -1, cmd |-> HistGet(h, i + 1)]

\* Entry n as the history command shows them; 0 is the last one.
HistCall(h, n) == HistGet(h, h.cnt - (IF n = 0 THEN h.cnt - 1 ELSE n))
=============================================================================
