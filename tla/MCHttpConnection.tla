------------------------- MODULE MCHttpConnection ---------------------------
(* One connection, with the bounds the .cfg file sets.                     *)
EXTENDS HttpConnection
=============================================================================
