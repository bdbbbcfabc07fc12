------------------------------ MODULE MCIOLoop ------------------------------
(* IOLoop on a small instance.                                             *)
EXTENDS IOLoop, TLC

Symmetry == Permutations(Job) \cup Permutations(Timer)
=============================================================================
