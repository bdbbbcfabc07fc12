------------------------- MODULE MCWebSocketStream --------------------------
(* One connection, with the bounds the .cfg files set.                     *)
EXTENDS WebSocketStream
=============================================================================
