--------------------------- MODULE MCEternalStream ---------------------------
(* One client, one server, a few packets each way and a few transports.     *)
EXTENDS EternalStream
=============================================================================
