----------------------------- MODULE ListFilter -----------------------------
(***************************************************************************)
(* [x for x in q if x in S], as a list comprehension of the code reads.    *)
(* SelectSeq with a set for the test, so that its recursion can be proved  *)
(* about (ListFilter_proofs).                                              *)
(***************************************************************************)
EXTENDS Integers, Sequences

Keep(q, S) ==
  LET f[n \in 0..Len(q)] ==
        IF n = 0 THEN <<>>
        ELSE IF q[n] \in S THEN Append(f[n - 1], q[n]) ELSE f[n - 1]
  IN  f[Len(q)]
=============================================================================
