------------------------------ MODULE Folding -------------------------------
(* A loop over a sequence, as the state after each of its turns.           *)
EXTENDS Integers, Sequences

\* FoldLeft of the community modules, in time linear in the sequence.
Fold(op(_, _), base, seq) ==
  LET upto[i \in 0 .. Len(seq)] == IF i = 0 THEN base ELSE op(upto[i - 1], seq[i])
  IN upto[Len(seq)]
=============================================================================
