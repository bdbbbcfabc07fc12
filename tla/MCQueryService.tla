--------------------------- MODULE MCQueryService ---------------------------
(* QueryService on a small instance.                                       *)
EXTENDS QueryService, TLC

Symmetry == Permutations(Request)
=============================================================================
