--------------------------- MODULE MCBackedWriter ---------------------------
(* Caps of a few packets, so that every cap is reached and interacts with   *)
(* the others: the real ones keep the same order.                           *)
EXTENDS BackedWriter

MCPacketLens == {1, 3}
=============================================================================
