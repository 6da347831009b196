---------------------------- MODULE MCForwarding ----------------------------
(***************************************************************************)
(* Small forwards for TLC: see the .cfg files.                             *)
(***************************************************************************)
EXTENDS Forwarding

\* The source's application writes a stream longer than one window, the
\* destination's a short reply.
UploadChunks == [s \in Sides |-> IF s = "src" THEN 3 ELSE 1]

\* Two chunks more than the queue of the destination's socket.
LongUpload == [s \in Sides |-> IF s = "src" THEN OutQueue + 2 ELSE 0]

\* Both applications write.
BothWays == [s \in Sides |-> 4]
=============================================================================
