----------------------------- MODULE MCLivePage -----------------------------
(* LivePage on a small instance.                                           *)
EXTENDS LivePage
=============================================================================
