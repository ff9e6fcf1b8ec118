------------------------------ MODULE Arbiter ------------------------------
(***************************************************************************)
(* What line arbitration promises whoever consumes a line's messages: the  *)
(* numbers of a session are taken in order, a skipped number may still be  *)
(* recovered while it is open, and no number is ever processed twice.      *)
(***************************************************************************)
EXTENDS Integers

CONSTANT SeqNo   \* the sequence numbers of a session, natural numbers

VARIABLES
  next,       \* the lowest number not reached yet
  open,       \* skipped numbers that may still be recovered
  processed   \* how often each number was processed

arbiterVars == <<next, open, processed>>

ArbiterInit == next = 1 /\ open = {} /\ processed = [s \in SeqNo |-> 0]

\* Numbers from next up to s are skipped; any of the open ones may be given up.
ReachUpTo(s) == open' \in SUBSET (open \cup (next .. (s - 1)))

ProcessNext(s) ==
  /\ s >= next
  /\ next' = s + 1
  /\ ReachUpTo(s)
  /\ processed' = [processed EXCEPT ![s] = @ + 1]

Recover(s) ==
  /\ s \in open
  /\ open' \in SUBSET (open \ {s})
  /\ processed' = [processed EXCEPT ![s] = @ + 1]
  /\ UNCHANGED next

Skip ==
  /\ next' \in Nat /\ next' >= next
  /\ ReachUpTo(next')
  /\ UNCHANGED processed

ArbiterNext == Skip \/ \E s \in SeqNo : ProcessNext(s) \/ Recover(s)

ArbiterSpec == ArbiterInit /\ [][ArbiterNext]_arbiterVars

===============================================================================
