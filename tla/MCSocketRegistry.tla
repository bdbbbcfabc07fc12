-------------------------- MODULE MCSocketRegistry --------------------------
(* SocketRegistry on a small instance.                                     *)
EXTENDS SocketRegistry, TLC

Symmetry == Permutations(Socket)
=============================================================================
