-------------------------------- MODULE Lists --------------------------------
(***************************************************************************)
(* Sums, selections and folds of sequences, as functions that are defined  *)
(* from one number to the next.                                            *)
(***************************************************************************)
EXTENDS Integers, SequencesExt

\* The sums of the first 0, 1, 2, ... of some numbers.
Sums(ns) == LET upto[i \in 0..Len(ns)] == IF i = 0 THEN 0 ELSE upto[i - 1] + ns[i] IN upto
Sum(s, f(_)) == Sums([i \in DOMAIN s |-> f(s[i])])[Len(s)]
Flat(s, f(_)) == FlattenSeq([i \in DOMAIN s |-> f(s[i])])

\* The numbers of I, of those from 1 to n, in order.
Ordered(n, I) ==
  LET upto[i \in 0..n] == IF i = 0 THEN <<>> ELSE IF i \in I THEN Append(upto[i - 1], i) ELSE upto[i - 1]
  IN  upto[n]

\* The elements of s at the places of I, in order.
Picked(s, I) == LET at == Ordered(Len(s), I) IN [k \in DOMAIN at |-> s[at[k]]]

\* What op makes of base and the elements of s, one after another.
Carried(s, base, op(_, _)) ==
  LET upto[i \in 0..Len(s)] == IF i = 0 THEN base ELSE op(upto[i - 1], s[i]) IN upto[Len(s)]
=============================================================================
