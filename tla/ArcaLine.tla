------------------------------ MODULE ArcaLine ------------------------------
(***************************************************************************)
(* Duplicate and gap detection of an ARCA feed group                       *)
(* (src/feeds/arca/common/seq_handling.c, fh_feed_group.c and .h).         *)
(*                                                                         *)
(* A group is fed by two copies of the line, 0 (primary) and 1             *)
(* (secondary).  exp is the number expected on each, 0 before the first    *)
(* packet.  Out of sequence, the missing numbers are kept in a bit map of  *)
(* MISSING_RANGE numbers from missing_base; the bit map is the set         *)
(* missing of the numbers whose bit is set.  told collects what            *)
(* subscribers hear: the numbers declared lost, the other alerts, and the  *)
(* status of the last ordering alert.                                      *)
(***************************************************************************)
EXTENDS Integers, Sequences, FiniteSets, SequencesExt

CONSTANT MISSING_RANGE

ASSUME RangeAssumption == MISSING_RANGE \in Nat /\ MISSING_RANGE > 1

Copies == {0, 1}

NewFeedGroup ==
    [exp |-> [c \in Copies |-> 0], in_sequence |-> TRUE,
     base |-> 0, count |-> 0, lowest |-> 0, highest |-> 0, missing |-> {},
     lost |-> {}, alerts |-> {}, status |-> TRUE]

\* Alerts and loss notices; a notice names the numbers from first to first + size - 1.
SendAlert(g) == [g EXCEPT !.status = g.in_sequence]
NotifyPacketLoss(g, first, size) == [g EXCEPT !.lost = @ \cup (first .. first + size - 1)]

InitMissing(g) ==
    [g EXCEPT !.base = 0, !.count = 0, !.lowest = 0, !.highest = 0, !.missing = {}]

SetInSequence(g) == SendAlert([g EXCEPT !.in_sequence = TRUE])
SetOutOfSequence(g) == SendAlert([g EXCEPT !.in_sequence = FALSE])

IsMissingEmpty(g) == g.count = 0

IsSequenceInMissing(g, n) ==
    /\ ~g.in_sequence
    /\ n < g.lowest + MISSING_RANGE /\ n >= g.lowest /\ n >= g.base
    /\ n \in g.missing

\* The lowest missing number after n, if one is left; else lowest stays.
NextLowest(g, n) ==
    LET later == {k \in (n + 1) .. g.highest : IsSequenceInMissing(g, k)}
    IN  IF later = {} THEN g.lowest ELSE CHOOSE k \in later : \A j \in later : k <= j

RemoveSequenceFromMissing(g, n) ==
    IF g.count = 0 \/ n < g.base \/ n >= g.base + MISSING_RANGE THEN g
    ELSE LET h == [g EXCEPT !.missing = @ \ {n}, !.count = @ - 1]
         IN  IF n > h.lowest THEN h
             ELSE [h EXCEPT !.lowest = IF h.count > 0 THEN NextLowest(h, n) ELSE 0]

AddSequencesToMissing(g, first, size) ==
    LET last == first + size - 1
    IN  IF first <= g.base THEN g
        ELSE [g EXCEPT !.base = IF g.count = 0 THEN first ELSE @,
                       !.lowest = IF g.count = 0 THEN first ELSE @,
                       !.highest = IF g.count = 0 \/ last >= @ THEN last ELSE @,
                       !.missing = (IF g.count = 0 THEN {} ELSE @) \cup (first .. last),
                       !.count = @ + size]

(***************************************************************************)
(* A gap while in sequence.  A gap wider than the window is meant to be    *)
(* cut, its older part declared lost; new_gap_size is raised back to       *)
(* gap_size first, so nothing is declared and nothing is recorded.         *)
(***************************************************************************)
FirstGap(g, size, n, mostAdvanced) ==
    LET h == InitMissing(g)
    IN  IF size > MISSING_RANGE
        THEN LET half == n - MISSING_RANGE \div 2
                 start == IF half < mostAdvanced THEN mostAdvanced ELSE half
                 newSize == IF n - start < size THEN size ELSE n - start
             IN  IF size > newSize
                 THEN NotifyPacketLoss(h, mostAdvanced, start - mostAdvanced)
                 ELSE h
        ELSE SetOutOfSequence(AddSequencesToMissing(h, mostAdvanced, size))

\* A gap while out of sequence.
SecondGap(g, size, n, mostAdvanced) ==
    IF n < g.base + MISSING_RANGE
    THEN AddSequencesToMissing(g, mostAdvanced, size)
    ELSE AddSequencesToMissing(
             InitMissing(NotifyPacketLoss(g, g.lowest, g.count)),
             n - MISSING_RANGE \div 2, MISSING_RANGE \div 2)

Larger(a, b) == IF a > b THEN a ELSE b

\* mutant: what the other copy has brought is not looked at
InOrderAlone(g, c, n) ==
    LET most == Larger(g.exp[c], g.exp[1 - c])
    IN  IF n < g.exp[c] THEN [g |-> g, pub |-> FALSE]
        ELSE IF n = g.exp[c] \/ n <= g.exp[1 - c]
             THEN [g |-> [g EXCEPT !.exp[c] = n + 1], pub |-> TRUE]
             ELSE [g |-> [FirstGap(g, n - most, n, most) EXCEPT !.exp[c] = n + 1],
                   pub |-> TRUE]
\* need_2_publish, in sequence; g with the number expected on c not zero.
InOrder(g, c, n) ==
    LET my == g.exp[c]
        other == g.exp[1 - c]
        most == Larger(my, other)
    IN  IF n < my THEN [g |-> g, pub |-> FALSE]
        ELSE IF n = my \/ n <= other
             THEN [g |-> [g EXCEPT !.exp[c] = n + 1], pub |-> n >= other]
             ELSE [g |-> [FirstGap(g, n - most, n, most) EXCEPT !.exp[c] = n + 1],
                   pub |-> TRUE]

\* The window is left behind: everything in it is lost, the line is in sequence again.
PassWindow(g, c, n) ==
    IF n <= g.base + MISSING_RANGE THEN g
    ELSE SetInSequence([InitMissing(NotifyPacketLoss(g, g.lowest, g.highest - g.lowest + 1))
                           EXCEPT !.exp[c] = n])

\* A missing number arrived.
Fill(g, c, n) ==
    LET h == RemoveSequenceFromMissing(g, n)
        k == IF IsMissingEmpty(h) THEN SetInSequence(InitMissing(h)) ELSE h
    IN  IF n >= k.exp[c] THEN [k EXCEPT !.exp[c] = n + 1] ELSE k

\* need_2_publish, out of sequence.
OutOfOrder(g, c, n) ==
    LET my == g.exp[c]
        other == g.exp[1 - c]
        most == Larger(my, other)
    IN  IF (n = my /\ n >= other) \/ (n >= my /\ n = other)
        THEN [g |-> [g EXCEPT !.exp[c] = n + 1], pub |-> TRUE]
        ELSE IF n > my /\ n > other
        THEN [g |-> [SecondGap(g, n - most, n, most) EXCEPT !.exp[c] = n + 1], pub |-> TRUE]
        ELSE IF IsSequenceInMissing(g, n)
        THEN [g |-> Fill(g, c, n), pub |-> TRUE]
        ELSE [g |-> g, pub |-> FALSE]

\* The first packet of a copy sets the number expected on it.
Start(g, c, n) == [g EXCEPT !.exp[c] = IF @ = 0 THEN n ELSE @]

NeedToPublish(g, c, n) ==
    LET h == Start(g, c, n)
    IN  IF h.in_sequence THEN InOrder(h, c, n) ELSE OutOfOrder(PassWindow(h, c, n), c, n)

=============================================================================
