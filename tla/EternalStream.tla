--------------------------- MODULE EternalStream ---------------------------
(***************************************************************************)
(* One session between a client and a server over a succession of TCP      *)
(* transports: what a write, a read, a disconnect and a reconnect do to    *)
(* the two BackedWriter/BackedReader pairs                                 *)
(* (et-net connection.rs, connection_recovery.rs; et-core                  *)
(* backed_writer.rs, backed_reader.rs; et-server session_recovery.rs;      *)
(* et-bin reconnect.rs).                                                   *)
(*                                                                         *)
(* The client owns its Connection and reconnects in one thread.  The       *)
(* server recovers on the handler thread of the new transport, on a copy   *)
(* of the connection, while the bridge thread keeps using the installed    *)
(* one.  A packet is [data, ack]: data = 0 marks a keep-alive.  A frame    *)
(* carries the nonce it was encrypted with; a reader decodes the frame     *)
(* only if that is the nonce it expects.                                   *)
(***************************************************************************)
EXTENDS Integers, Sequences

CONSTANTS
    MaxData,        \* bound: application packets each side writes
    MaxTransports,  \* bound: TCP connections; the last one stays up
    Slack,          \* acknowledged packets BackedWriter::acknowledge retains
    OldTransportQuiet, \* assume: when the server takes its recovery snapshot
                       \* the bridge has nothing left to read
    InstallMayFail  \* a recovery may fail after its keep-alive was written

ASSUME BoundsAssumption ==
    /\ MaxData \in Nat /\ MaxTransports \in Nat \ {0} /\ Slack \in Nat
    /\ OldTransportQuiet \in BOOLEAN /\ InstallMayFail \in BOOLEAN

Endpoint == {"client", "server"}
Peer(e) == IF e = "client" THEN "server" ELSE "client"
Transports == 1 .. MaxTransports
NoAck == -1
Higher(a, b) == IF a >= b THEN a ELSE b

VARIABLES
    net,       \* [t -> state, and the messages each side has sent, unread]
    conn,      \* the installed Connection of each side
    accepted,  \* application packets each side has written
    got,       \* application packets each side has been handed, in order
    clientPc,  \* where the client is in its reconnect
    clientT,   \* the transport of that reconnect
    peerSeq,   \* the sequence the server asked the client to resume from
    serverPc,  \* where the server's recovery thread is
    cand       \* its candidate Connection

vars == <<net, conn, accepted, got, clientPc, clientT, peerSeq, serverPc, cand>>
clientRecovery == <<clientPc, clientT, peerSeq>>
serverRecovery == <<serverPc, cand>>

Data(i) == [data |-> i, ack |-> NoAck]
KeepAlive(a) == [data |-> 0, ack |-> a]

-----------------------------------------------------------------------------
(* BackedWriter and BackedReader, as functions of a connection record.     *)

FrameAt(c, n) == [type |-> "frame", n |-> n, body |-> c.log[n]]

(* commit_write, whether the packet is then sent or only buffered. *)
Committed(c, body) == [c EXCEPT !.log = Append(@, body)]

(* Faulty: one packet the peer has not acknowledged is released too. *)
AcknowledgedOneMore(c, a) ==
    IF c.writable /\ a \in 0 .. Len(c.log)
    THEN [c EXCEPT !.acked = a, !.dropped = Higher(@, a - Slack + 1)]
    ELSE c

(* acknowledge: ignored while disconnected and out of range. *)
Acknowledged(c, a) ==
    IF c.writable /\ a \in 0 .. Len(c.log)
    THEN [c EXCEPT !.acked = a, !.dropped = Higher(@, a - Slack)]
    ELSE c

(* recover: neither AheadOfServer nor TooFarBehind, and what it returns. *)
Servable(c, seq) == c.dropped <= seq /\ seq <= Len(c.log)
Catchup(c, seq) == [i \in 1 .. (Len(c.log) - seq) |-> FrameAt(c, seq + i)]

(* decode_packet under the nonces that follow the reader's sequence. *)
Decodes(c, frames) == \A i \in 1 .. Len(frames) : frames[i].n = c.rseq + i

(* Faulty: the catch-up is queued ahead of packets revived earlier. *)
RevivedInFront(c, frames) ==
    [c EXCEPT !.rseq = @ + Len(frames),
              !.replay = [i \in 1 .. Len(frames) |-> frames[i].body] \o @,
              !.readable = TRUE, !.writable = TRUE]

(* Faulty: the catch-up does not advance the reader's sequence. *)
RevivedUncounted(c, frames) ==
    [c EXCEPT !.replay = @ \o [i \in 1 .. Len(frames) |-> frames[i].body],
              !.readable = TRUE, !.writable = TRUE]

(* revive of both halves. *)
Revived(c, frames) ==
    [c EXCEPT !.rseq = @ + Len(frames),
              !.replay = @ \o [i \in 1 .. Len(frames) |-> frames[i].body],
              !.readable = TRUE, !.writable = TRUE]

(* Connection::disconnect, and prepare_recovery_candidate. *)
Disconnected(c) == [c EXCEPT !.readable = FALSE, !.writable = FALSE]
Candidate(c, t) == [Disconnected(c) EXCEPT !.t = t]

(* AckSchedule::next for the first keep-alive of a transport. *)
FirstAck(e, c) ==
    IF e = "client" \/ c.acked # NoAck THEN c.rseq ELSE NoAck

-----------------------------------------------------------------------------
(* The network.  A closed transport takes nothing more; what it still      *)
(* holds may be read, or lost when the reader sees the end first.          *)

Sent(nt, t, from, msg) ==
    IF nt[t].state = "open"
    THEN [nt EXCEPT ![t].sent[from] = Append(@, msg)]
    ELSE nt
Closed(nt, t) == [nt EXCEPT ![t].state = "closed"]
Incoming(e, t) == net[t].sent[Peer(e)]
Consumed(nt, e, t) == [nt EXCEPT ![t].sent[Peer(e)] = Tail(@)]
Arrived(e, t, type) == Incoming(e, t) # << >> /\ Head(Incoming(e, t)).type = type
Free(s) == [state |-> s, sent |-> [e \in Endpoint |-> << >>]]
Flaky(t) == net[t].state = "closed" \/ t < MaxTransports

Init ==
    /\ net = [t \in Transports |-> Free(IF t = 1 THEN "open" ELSE "free")]
    /\ conn = [e \in Endpoint |->
                 [t |-> 1, log |-> << >>, dropped |-> 0, acked |-> NoAck,
                  rseq |-> 0, replay |-> << >>, readable |-> TRUE, writable |-> TRUE]]
    /\ accepted = [e \in Endpoint |-> 0]
    /\ got = [e \in Endpoint |-> << >>]
    /\ clientPc = "session" /\ clientT = 1 /\ peerSeq = 0
    /\ serverPc = "idle" /\ cand = conn["server"]

-----------------------------------------------------------------------------
(* The session: writes, reads and disconnects on the installed connection. *)

(* write_packet.  probed: refresh_connectivity saw the end of the stream   *)
(* and invalidated the writer, so the packet is only buffered.  An unseen  *)
(* close swallows the frame; the backup keeps it either way.               *)
Write(e) ==
    /\ accepted[e] < MaxData
    /\ LET c == Committed(conn[e], Data(accepted[e] + 1))
           t == c.t
       IN \E probed \in BOOLEAN :
             /\ probed => net[t].state = "closed" /\ c.writable
             /\ conn' = [conn EXCEPT ![e] = [c EXCEPT !.writable = @ /\ ~probed]]
             /\ net' = IF c.writable
                       THEN Sent(net, t, e, FrameAt(c, Len(c.log)))
                       ELSE net
    /\ accepted' = [accepted EXCEPT ![e] = @ + 1]
    /\ UNCHANGED <<got, clientRecovery, serverRecovery>>

ClientWrite == clientPc = "session" /\ Write("client")

(* The output pump is paused, and other senders queue in recover_hold,     *)
(* while a recovery is in flight.                                          *)
ServerWrite == serverPc = "idle" /\ Write("server")

(* What the session loop does with a packet it has read. *)
Handle(e, c, body) ==
    /\ conn' = [conn EXCEPT ![e] = Acknowledged(c, body.ack)]
    /\ got' = [got EXCEPT ![e] = IF body.data = 0 THEN @ ELSE Append(@, body.data)]

(* pop: replayed packets first, then live ones; a frame that does not      *)
(* decode disconnects.                                                     *)
Read(e) ==
    LET c == conn[e] IN
    /\ c.readable
    /\ \/ /\ c.replay # << >>
          /\ Handle(e, [c EXCEPT !.replay = Tail(@)], Head(c.replay))
          /\ UNCHANGED net
       \/ /\ c.replay = << >>
          /\ Arrived(e, c.t, "frame")
          /\ LET frame == Head(Incoming(e, c.t))
             IN IF Decodes(c, <<frame>>)
                THEN Handle(e, [c EXCEPT !.rseq = @ + 1], frame.body)
                ELSE /\ conn' = [conn EXCEPT ![e] = Disconnected(c)]
                     /\ UNCHANGED got
          /\ net' = Consumed(net, e, c.t)
    /\ UNCHANGED <<accepted, clientRecovery, serverRecovery>>

ClientRead == clientPc = "session" /\ Read("client")
ServerRead == Read("server")

(* The end of the stream, or an error on it, is noticed: disconnect. *)
Notice(e) ==
    /\ conn[e].readable \/ conn[e].writable
    /\ net[conn[e].t].state = "closed"
    /\ conn' = [conn EXCEPT ![e] = Disconnected(@)]
    /\ UNCHANGED <<net, accepted, got, clientRecovery, serverRecovery>>

ClientNotice == clientPc = "session" /\ Notice("client")
ServerNotice == Notice("server")

(* The client gives a silent transport up; what it sent may still arrive. *)
ClientGiveUp ==
    /\ clientPc = "session"
    /\ conn["client"].readable /\ conn["client"].t < MaxTransports
    /\ conn' = [conn EXCEPT !["client"] = Disconnected(@)]
    /\ UNCHANGED <<net, accepted, got, clientRecovery, serverRecovery>>

Break(t) ==
    /\ net[t].state = "open" /\ t < MaxTransports
    /\ net' = Closed(net, t)
    /\ UNCHANGED <<conn, accepted, got, clientRecovery, serverRecovery>>

-----------------------------------------------------------------------------
(* The client's reconnect: reconnect, recover_connection and               *)
(* recover_with_exchange, catch-up read before it is written.              *)

Connecting == {"dial", "header", "catchup", "prove", "proof"}

ClientDial ==
    /\ clientPc = "session"
    /\ ~conn["client"].readable /\ ~conn["client"].writable
    /\ \E t \in Transports :
          /\ net[t].state = "free"
          /\ \A u \in Transports : net[u].state = "free" => t <= u
          /\ net' = [net EXCEPT ![t] = Free("dialled")]
          /\ clientT' = t
    /\ clientPc' = "dial"
    /\ UNCHANGED <<conn, accepted, got, peerSeq, serverRecovery>>

(* ReturningClient has arrived: the sequence header goes out. *)
ClientHeader ==
    /\ clientPc = "dial" /\ net[clientT].state = "open"
    /\ net' = Sent(net, clientT, "client",
                   [type |-> "header", seq |-> conn["client"].rseq])
    /\ clientPc' = "header"
    /\ UNCHANGED <<conn, accepted, got, clientT, peerSeq, serverRecovery>>

(* The server's header: build the catch-up, or fail before any is sent. *)
ClientGotHeader ==
    /\ clientPc = "header" /\ Arrived("client", clientT, "header")
    /\ LET seq == Head(Incoming("client", clientT)).seq
           rest == Consumed(net, "client", clientT)
       IN IF Servable(conn["client"], seq)
          THEN peerSeq' = seq /\ clientPc' = "catchup" /\ net' = rest
          ELSE clientPc' = "session" /\ net' = Closed(rest, clientT) /\ UNCHANGED peerSeq
    /\ UNCHANGED <<conn, accepted, got, clientT, serverRecovery>>

(* The server's catch-up: send ours, revive, shut the old transport down   *)
(* and install.                                                            *)
ClientInstall ==
    /\ clientPc = "catchup" /\ Arrived("client", clientT, "catchup")
    /\ LET c == Candidate(conn["client"], clientT)
           frames == Head(Incoming("client", clientT)).frames
           mine == [type |-> "catchup", frames |-> Catchup(c, peerSeq)]
           sent == Sent(Consumed(net, "client", clientT), clientT, "client", mine)
       IN IF Decodes(c, frames)
          THEN /\ conn' = [conn EXCEPT !["client"] = Revived(c, frames)]
               /\ net' = Closed(sent, conn["client"].t)
               /\ clientPc' = "prove"
          ELSE net' = Closed(sent, clientT) /\ clientPc' = "session" /\ UNCHANGED conn
    /\ UNCHANGED <<accepted, got, clientT, peerSeq, serverRecovery>>

(* The proof keep-alive; write_packet_live fails when the probe finds the  *)
(* transport gone, and the packet is then only buffered.                   *)
ClientProve ==
    /\ clientPc = "prove"
    /\ LET old == conn["client"]
           c == Committed(old, KeepAlive(FirstAck("client", old)))
       IN \/ /\ conn' = [conn EXCEPT !["client"] = c]
             /\ net' = Sent(net, clientT, "client", FrameAt(c, Len(c.log)))
             /\ clientPc' = "proof"
          \/ /\ net[clientT].state = "closed"
             /\ conn' = [conn EXCEPT !["client"] = Disconnected(c)]
             /\ clientPc' = "session"
             /\ UNCHANGED net
    /\ UNCHANGED <<accepted, got, clientT, peerSeq, serverRecovery>>

(* authenticate_peer: one live packet, requeued behind the catch-up. *)
ClientAuthenticate ==
    /\ clientPc = "proof" /\ Arrived("client", clientT, "frame")
    /\ LET c == conn["client"]
           frame == Head(Incoming("client", clientT))
       IN conn' = [conn EXCEPT !["client"] =
                     IF Decodes(c, <<frame>>)
                     THEN [c EXCEPT !.rseq = @ + 1, !.replay = Append(@, frame.body)]
                     ELSE Disconnected(c)]
    /\ net' = Consumed(net, "client", clientT)
    /\ clientPc' = "session"
    /\ UNCHANGED <<accepted, got, clientT, peerSeq, serverRecovery>>

(* A deadline or an I/O error.  Before the install it costs the candidate; *)
(* afterwards the new connection is kept, disconnected.                    *)
ClientFail ==
    /\ clientPc \in Connecting \ {"prove"} /\ Flaky(clientT)
    /\ net' = Closed(net, clientT)
    /\ conn' = IF clientPc = "proof"
               THEN [conn EXCEPT !["client"] = Disconnected(@)]
               ELSE conn
    /\ clientPc' = "session"
    /\ UNCHANGED <<accepted, got, clientT, peerSeq, serverRecovery>>

-----------------------------------------------------------------------------
(* The server's recovery thread: try_begin_recover and recover_body_with.  *)

Readable(c) == c.readable /\ (c.replay # << >> \/ Arrived("server", c.t, "frame"))

(* The permit, ReturningClient, the snapshot of the installed connection   *)
(* (whose transport stays in use) and the sequence header.                 *)
ServerBegin(t) ==
    /\ serverPc = "idle" /\ net[t].state = "dialled"
    /\ OldTransportQuiet => ~Readable(conn["server"])
    /\ cand' = Candidate(conn["server"], t)
    /\ net' = Sent([net EXCEPT ![t].state = "open"], t, "server",
                   [type |-> "header", seq |-> conn["server"].rseq])
    /\ serverPc' = "header"
    /\ UNCHANGED <<conn, accepted, got, clientRecovery>>

(* RecoverBusy: the client is refused and dials again later. *)
ServerBusy(t) ==
    /\ serverPc # "idle" /\ net[t].state = "dialled"
    /\ net' = [net EXCEPT ![t] = Free("free")]
    /\ clientPc' = "session"
    /\ UNCHANGED <<conn, accepted, got, clientT, peerSeq, serverRecovery>>

ServerGotHeader ==
    /\ serverPc = "header" /\ Arrived("server", cand.t, "header")
    /\ LET seq == Head(Incoming("server", cand.t)).seq
           rest == Consumed(net, "server", cand.t)
       IN IF Servable(cand, seq)
          THEN /\ net' = Sent(rest, cand.t, "server",
                              [type |-> "catchup", frames |-> Catchup(cand, seq)])
               /\ serverPc' = "catchup"
          ELSE net' = Closed(rest, cand.t) /\ serverPc' = "idle"
    /\ UNCHANGED <<conn, accepted, got, cand, clientRecovery>>

(* The client's catch-up revives the candidate.  A legacy client           *)
(* (required) that replayed nothing has yet to prove it holds the key.     *)
ServerGotCatchup ==
    /\ serverPc = "catchup" /\ Arrived("server", cand.t, "catchup")
    /\ LET frames == Head(Incoming("server", cand.t)).frames
           rest == Consumed(net, "server", cand.t)
       IN \E required \in BOOLEAN :
            IF Decodes(cand, frames)
            THEN /\ cand' = Revived(cand, frames)
                 /\ serverPc' = IF required /\ frames = << >> THEN "auth" ELSE "ack"
                 /\ net' = rest
            ELSE serverPc' = "idle" /\ net' = Closed(rest, cand.t) /\ UNCHANGED cand
    /\ UNCHANGED <<conn, accepted, got, clientRecovery>>

ServerAuthenticate ==
    /\ serverPc = "auth" /\ Arrived("server", cand.t, "frame")
    /\ LET frame == Head(Incoming("server", cand.t))
           rest == Consumed(net, "server", cand.t)
       IN IF Decodes(cand, <<frame>>)
          THEN /\ cand' = [cand EXCEPT !.rseq = @ + 1, !.replay = Append(@, frame.body)]
               /\ serverPc' = "ack" /\ net' = rest
          ELSE serverPc' = "idle" /\ net' = Closed(rest, cand.t) /\ UNCHANGED cand
    /\ UNCHANGED <<conn, accepted, got, clientRecovery>>

(* The first keep-alive of the new transport. *)
ServerAck ==
    /\ serverPc = "ack"
    /\ LET c == Committed(cand, KeepAlive(FirstAck("server", cand)))
       IN /\ cand' = c
          /\ net' = Sent(net, cand.t, "server", FrameAt(c, Len(c.log)))
    /\ serverPc' = "install"
    /\ UNCHANGED <<conn, accepted, got, clientRecovery>>

(* The old transport is shut down and the candidate takes its place. *)
ServerInstall ==
    /\ serverPc = "install"
    /\ net' = Closed(net, conn["server"].t)
    /\ conn' = [conn EXCEPT !["server"] = cand]
    /\ serverPc' = "idle"
    /\ UNCHANGED <<accepted, got, clientRecovery, cand>>

(* Faulty: the recovery waits for its peer without a deadline. *)
ServerWaits == FALSE /\ UNCHANGED vars

(* A deadline, an I/O error, or a lock that is not obtained in time: the   *)
(* candidate is dropped and the installed connection is untouched.         *)
ServerFail ==
    /\ \/ serverPc \in {"header", "catchup", "auth", "ack"} /\ Flaky(cand.t)
       \/ serverPc = "install" /\ InstallMayFail /\ cand.t < MaxTransports
    /\ net' = Closed(net, cand.t)
    /\ serverPc' = "idle"
    /\ UNCHANGED <<conn, accepted, got, cand, clientRecovery>>

-----------------------------------------------------------------------------
ClientStep ==
    \/ ClientRead \/ ClientNotice \/ ClientDial \/ ClientHeader \/ ClientGotHeader
    \/ ClientInstall \/ ClientProve \/ ClientAuthenticate \/ ClientFail

BridgeStep == ServerRead \/ ServerNotice

RecoveryStep ==
    \/ \E t \in Transports : ServerBegin(t)
    \/ ServerGotHeader \/ ServerGotCatchup \/ ServerAuthenticate
    \/ ServerAck \/ ServerInstall \/ ServerFail

Next ==
    \/ ClientWrite \/ ServerWrite \/ ClientGiveUp
    \/ \E t \in Transports : Break(t)
    \/ \E t \in Transports : ServerBusy(t)
    \/ ClientStep \/ BridgeStep \/ RecoveryStep

Spec == Init /\ [][Next]_vars

(* Threads that can take a step take one: the bridge polls its socket, the *)
(* handlers (the one that holds the recover permit, and the ones that are  *)
(* refused it) and the client block on theirs with deadlines.              *)
Fairness ==
    /\ WF_vars(ClientStep) /\ WF_vars(BridgeStep) /\ WF_vars(RecoveryStep)
    /\ WF_vars(\E t \in Transports : ServerBusy(t))
FairSpec == Spec /\ Fairness

-----------------------------------------------------------------------------
IsPacket(p) == p.data \in 0 .. MaxData /\ p.ack \in Int

IsConnection(c) ==
    /\ c.t \in Transports
    /\ \A i \in 1 .. Len(c.log) : IsPacket(c.log[i])
    /\ \A i \in 1 .. Len(c.replay) : IsPacket(c.replay[i])
    /\ c.dropped \in 0 .. Len(c.log) /\ c.acked \in {NoAck} \cup 0 .. Len(c.log)
    /\ c.rseq \in Nat /\ c.readable \in BOOLEAN /\ c.writable \in BOOLEAN

(* Connections, transports and both recoveries are in a state the code can *)
(* represent; no writer has dropped or seen acknowledged more than it wrote. *)
TypeOK ==
    /\ \A e \in Endpoint : IsConnection(conn[e]) /\ accepted[e] \in 0 .. MaxData
    /\ IsConnection(cand)
    /\ clientPc \in {"session"} \cup Connecting /\ clientT \in Transports
    /\ serverPc \in {"idle", "header", "catchup", "auth", "ack", "install"}
    /\ \A t \in Transports : net[t].state \in {"free", "dialled", "open", "closed"}

(* Each side is handed the packets the other side wrote, each once, in the *)
(* order they were written, across every disconnect and reconnect.         *)
InOrderExactlyOnce ==
    \A e \in Endpoint :
        /\ Len(got[e]) <= accepted[Peer(e)]
        /\ \A i \in 1 .. Len(got[e]) : got[e][i] = i

(* The connection a side stands by: the server has committed itself to its *)
(* candidate once it has written the keep-alive on the new transport.      *)
Current(e) == IF e = "server" /\ serverPc = "install" THEN cand ELSE conn[e]

(* Writer and reader of a direction never drift apart: the reader is not   *)
(* ahead of the writer, and no acknowledgement made the writer drop a      *)
(* packet the reader has yet to read.                                      *)
SequencesAgree ==
    \A e \in Endpoint :
        Servable(Current(e), Current(Peer(e)).rseq)

(* Neither side ever refuses the other's sequence header (AheadOfServer,   *)
(* TooFarBehind): a reconnect can always resume the session, whatever      *)
(* happened to earlier ones ("A failed recover must leave the existing     *)
(* session intact", session_recovery.rs).                                  *)
RecoveryServable ==
    /\ clientPc = "header" /\ Arrived("client", clientT, "header") =>
          Servable(conn["client"], Head(Incoming("client", clientT)).seq)
    /\ serverPc = "header" /\ Arrived("server", cand.t, "header") =>
          Servable(cand, Head(Incoming("server", cand.t)).seq)

(* What a connected reader finds on its transport continues its sequence,  *)
(* frame by frame, and is what the other side's replay history holds under *)
(* those numbers: no frame fails to decode, none shadows another.          *)
WireContinuesReader ==
    \A e \in Endpoint :
        LET c == conn[e]
            queue == Incoming(e, c.t)
            history == Current(Peer(e)).log
        IN c.readable =>
             \A i \in 1 .. Len(queue) :
                 /\ queue[i].type = "frame" /\ queue[i].n = c.rseq + i
                 /\ queue[i].n <= Len(history) /\ queue[i].body = history[queue[i].n]

(* The session implements the reliable channel ...                         *)
Channel == INSTANCE ReliableChannel
              WITH Ends <- Endpoint, Other <- Peer, written <- accepted, handed <- got
ImplementsChannel == Channel!ChannelSpec

(* ... and once the transports stay up, hands over all that was accepted.  *)
EverythingDelivered == Channel!HandsEverything
=============================================================================
