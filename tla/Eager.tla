------------------------------- MODULE Eager --------------------------------
(* Expressions whose parts are worked out once, and in order.              *)
EXTENDS SequencesExt

\* F of the value v.
Then(v, F(_)) == CHOOSE r \in {F(x) : x \in {v}} : TRUE

\* FoldLeft in which each step is worked out before the next.
Fold(op(_, _), base, seq) == FoldLeft(LAMBDA a, x : Then(a, LAMBDA b : op(b, x)), base, seq)
=============================================================================
