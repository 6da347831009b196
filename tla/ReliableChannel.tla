--------------------------- MODULE ReliableChannel ---------------------------
(***************************************************************************)
(* What a session promises its two ends, whatever its transports do: every *)
(* application packet written at one end is handed to the other end once,  *)
(* in the order it was written, and eventually.  Packets are numbered in   *)
(* the order they are written.                                             *)
(***************************************************************************)
EXTENDS Naturals, Sequences

CONSTANTS Ends, Other(_)

VARIABLES written, handed

ChannelInit ==
    /\ written = [e \in Ends |-> 0]
    /\ handed = [e \in Ends |-> << >>]

Accept(e) ==
    /\ written' = [written EXCEPT ![e] = @ + 1]
    /\ UNCHANGED handed

Hand(e) ==
    /\ Len(handed[e]) < written[Other(e)]
    /\ handed' = [handed EXCEPT ![e] = Append(@, Len(@) + 1)]
    /\ UNCHANGED written

ChannelNext == \E e \in Ends : Accept(e) \/ Hand(e)

ChannelSpec == ChannelInit /\ [][ChannelNext]_<<written, handed>>

(* Everything accepted is handed over. *)
HandsEverything ==
    \A e \in Ends : <>[](Len(handed[e]) = written[Other(e)])
=============================================================================
