---------------------------- MODULE MCGraphPage -----------------------------
(* GraphPage on a small instance.                                          *)
EXTENDS GraphPage, TLC

Symmetry == Permutations(Key)
=============================================================================
