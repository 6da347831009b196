----------------------------- MODULE Forwarding -----------------------------
(***************************************************************************)
(* Port forwarding on Unix (et-net: forward_worker_state.rs,               *)
(* forward_poll.rs, and the part of the session loops that drives them).   *)
(*                                                                         *)
(* Two engines.  "src" owns the listener: it accepts a connection, parks   *)
(* it, asks the other end for its destination.  "dst" connects, names the  *)
(* socket and answers.  From then on both ends relay: what the local       *)
(* application writes is read in chunks, within the window the peer        *)
(* granted, and what arrives is queued for the local application.  Credit  *)
(* goes back when the application has taken the data, not before.          *)
(*                                                                         *)
(* An engine runs on its session's thread, so each call the session makes  *)
(* into it (collect, service, receive, pop_outbound) is one step; what     *)
(* interleaves is the two ends, the helper threads' commands and the       *)
(* applications.  wire[s] is what the session of s has popped and the      *)
(* engine at the other end has not handled: the transport (in order,       *)
(* without loss, see ReliableChannel) and the receiving session's          *)
(* pending_forward.                                                        *)
(*                                                                         *)
(* A chunk is its number in the stream its application writes.  Windows    *)
(* are counted in packets; the byte windows follow the same code.          *)
(***************************************************************************)
EXTENDS Integers, Sequences, FiniteSets, SequencesExt

CONSTANTS MaxAccepts,   \* connections the listener ever accepts
          Kinds,        \* what it accepts: "plain", "socks" (with a first
                        \*   chunk already read), "stdio" (half-closes on EOF)
          MaxChunks,    \* chunks the applications of each side write in all
          MaxSockets,   \* MAX_ACTIVE_SOCKETS
          MaxParked,    \* MAX_UNASSIGNED_FDS
          AcceptsPerCycle,  \* ACCEPTS_PER_CYCLE
          OutQueue,     \* OUT_QUEUE_PACKETS
          Window,       \* WINDOW_PACKETS
          Batch,        \* credit_batch of that window
          OutLimit,     \* ENGINE_OUTBOUND_LIMIT
          Capacity,     \* what wire[s] holds: socket buffers, pending_forward
          Windowed,     \* FALSE: the peer predates windows
          Faults        \* local sockets and connects may fail

ASSUME ForwardingBounds ==
    /\ {MaxAccepts, MaxSockets, MaxParked} \subseteq Nat
    /\ {OutQueue, Window, Batch, OutLimit, Capacity, AcceptsPerCycle} \subseteq Nat \ {0}
    /\ Batch <= Window /\ Window < OutQueue
    /\ Kinds \subseteq {"plain", "socks", "stdio"}
    /\ Windowed \in BOOLEAN /\ Faults \in BOOLEAN

VARIABLES engine,   \* each side's Worker
          wire,     \* from each side: packets popped and not yet handled
          nextFd    \* next_client_fd

vars == <<engine, wire, nextFd>>

Sides == {"src", "dst"}
Peer(s) == IF s = "src" THEN "dst" ELSE "src"
Ids == 1 .. MaxAccepts
Fds == 1 .. MaxAccepts

Max0(n) == IF n < 0 THEN 0 ELSE n
-----------------------------------------------------------------------------
(***************************************************************************)
(* Packets: PortForwardDestinationRequest and Response (socket 0: the      *)
(* response carries an error), and PortForwardData with exactly one of     *)
(* buffer, window, closed, half_close and error.                           *)
(***************************************************************************)
Packet(type, id, arg) == [type |-> type, id |-> id, arg |-> arg]
Request(fd)      == Packet("request", fd, 0)
Response(fd, id) == Packet("response", fd, id)
Data(id, n)      == Packet("data", id, n)
Credit(id, n)    == Packet("credit", id, n)
Closed(id)       == Packet("closed", id, 0)
HalfClose(id)    == Packet("half", id, 0)
Error(id)        == Packet("error", id, 0)

\* SocketIo::new; `half' is half_close_on_eof.
NewSocket(half) ==
    [out |-> <<>>, readOpen |-> TRUE, closing |-> FALSE, shutting |-> FALSE,
     writeClosed |-> FALSE, half |-> half, inFlight |-> 0, credit |-> 0]

(***************************************************************************)
(* A Worker.  closing is close_when_drained, shutting is                   *)
(* shutdown_write_when_drained; prio and out are the two outbound lanes.   *)
(* sent, got, fate and closer record history: the chunks read from the     *)
(* local application and those handed to it, how a socket ended, and which *)
(* end closed it first.                                                    *)
(***************************************************************************)
NewEngine ==
    [pending |-> <<>>, connecting |-> {}, socks |-> <<>>, nextId |-> 1,
     held |-> <<>>, prio |-> <<>>, out |-> <<>>,
     sent |-> [id \in Ids |-> 0], got |-> [id \in Ids |-> <<>>],
     fate |-> [id \in Ids |-> "none"], closer |-> [id \in Ids |-> "none"]]

Init == /\ engine = [s \in Sides |-> NewEngine]
        /\ wire = [s \in Sides |-> <<>>]
        /\ nextFd = 1

Has(e, id) == id \in DOMAIN e.socks
TotalSockets(e) ==
    Cardinality(DOMAIN e.pending) + Cardinality(e.connecting) + Cardinality(DOMAIN e.socks)
BacklogFull(e) == Len(e.out) >= OutLimit
WriteClosed(k) == k.writeClosed \/ k.closing \/ k.shutting

Emit(e, p) == [e EXCEPT !.out = Append(@, p)]
EmitPriority(e, p) == [e EXCEPT !.prio = Append(@, p)]

Activate(e, id, half) ==
    [e EXCEPT !.socks = (id :> NewSocket(half)) @@ @, !.fate[id] = "open"]
RemoveSocket(e, id, fate) ==
    [e EXCEPT !.socks = Restrict(@, DOMAIN @ \ {id}), !.fate[id] = fate]
Unpark(e, fds) == [e EXCEPT !.pending = Restrict(@, DOMAIN @ \ fds)]

\* Faulty: the peer is not told.
FaultyFail(e, id) == RemoveSocket(e, id, "failed")

\* A write or read error on the local socket: report it, drop the socket.
Fail(e, id) == RemoveSocket(Emit(e, Error(id)), id, "failed")
-----------------------------------------------------------------------------
(***************************************************************************)
(* From the peer to the local application.                                 *)
(***************************************************************************)
QueueWrite(e, id, n) == [e EXCEPT !.socks[id].out = Append(@, n)]

\* admit_data and admit_data_span.  Chunks have no size here: that a socket is
\* removed for one over MAX_DATA_PACKET, which no et.rs peer sends, is left out.
AdmitData(e, id, n) ==
    IF ~ Has(e, id) THEN e
    ELSE IF WriteClosed(e.socks[id]) THEN e
    ELSE IF Len(e.socks[id].out) < OutQueue THEN QueueWrite(e, id, n)
    ELSE [e EXCEPT !.held = Append(@, [id |-> id, n |-> n])]

\* flush_held stops at the first chunk that still does not fit; chunks of a
\* socket that is gone or takes no more writes are dropped.
FlushHeld(e) ==
    LET Step(acc, h) ==
            IF acc.held # <<>> THEN [acc EXCEPT !.held = Append(@, h)]
            ELSE IF ~ Has(acc, h.id) THEN acc
            ELSE IF WriteClosed(acc.socks[h.id]) THEN acc
            ELSE IF Len(acc.socks[h.id].out) < OutQueue THEN QueueWrite(acc, h.id, h.n)
            ELSE [acc EXCEPT !.held = Append(@, h)]
    IN  FoldLeft(Step, [e EXCEPT !.held = <<>>], e.held)

\* Faulty: a buffer written in full is left at the head of the queue.
FaultyWritten(e, id, k) ==
    [e EXCEPT !.socks[id].out = SubSeq(@, IF k = 0 THEN 1 ELSE k, Len(@)),
              !.got[id] = @ \o SubSeq(e.socks[id].out, 1, k)]

\* flush_out: the application takes the first k queued chunks.
Written(e, id, k) ==
    [e EXCEPT !.socks[id].out = SubSeq(@, k + 1, Len(@)),
              !.socks[id].credit = IF Windowed THEN @ + k ELSE @,
              !.got[id] = @ \o SubSeq(e.socks[id].out, 1, k)]

\* What a drained queue allows: dropping the socket, or shutting its writes.
Settle(e, id) ==
    LET k == e.socks[id] IN
    IF k.out # <<>> THEN e
    ELSE IF k.closing THEN RemoveSocket(e, id, "drained")
    ELSE IF k.shutting /\ ~ k.writeClosed
         THEN [e EXCEPT !.socks[id].shutting = FALSE, !.socks[id].writeClosed = TRUE]
    ELSE e

\* Every way one flush can go: up to a full queue taken, or an error part-way.
Writes(e, id) == {Written(e, id, k) : k \in 0 .. Len(e.socks[id].out)}
WriteFailures(e, id) ==
    IF Faults THEN {Fail(Written(e, id, k), id) : k \in 0 .. Len(e.socks[id].out) - 1} ELSE {}

PeerHalfClose(e, id) ==
    IF Has(e, id) THEN Settle([e EXCEPT !.socks[id].shutting = TRUE], id) ELSE e

\* Faulty: the queue goes with the socket.
FaultyPeerClosed(e, id) ==
    IF ~ Has(e, id) THEN e
    ELSE RemoveSocket([Emit(e, Closed(id)) EXCEPT
                           !.closer[id] = IF @ = "none" THEN "peer" ELSE @], id, "drained")

\* Faulty: the socket is still read while it drains.
FaultyPeerClosedReads(e, id) ==
    IF ~ Has(e, id) THEN e
    ELSE Settle([Emit(e, Closed(id)) EXCEPT
                    !.socks[id].closing = TRUE,
                    !.closer[id] = IF @ = "none" THEN "peer" ELSE @], id)

\* peer_closed: echo the close, stop reading, flush what is queued.
PeerClosed(e, id) ==
    IF ~ Has(e, id) THEN e
    ELSE Settle([Emit(e, Closed(id)) EXCEPT
                    !.socks[id].closing = TRUE, !.socks[id].readOpen = FALSE,
                    !.closer[id] = IF @ = "none" THEN "peer" ELSE @], id)

\* decode_window: no more than one window at a time.
DecodeWindow(n) == Min({n, Window})

ApplyWindow(e, id, n) ==
    IF Has(e, id) THEN [e EXCEPT !.socks[id].inFlight = Max0(@ - DecodeWindow(n))] ELSE e
-----------------------------------------------------------------------------
(***************************************************************************)
(* From the local application to the peer.                                 *)
(***************************************************************************)
\* Faulty: one packet past the window.
FaultyReadInterest(k) ==
    k.readOpen /\ ~ k.closing /\ (Windowed => k.inFlight <= Window)

ReadInterest(k) ==
    k.readOpen /\ ~ k.closing /\ (Windowed => k.inFlight < Window)

\* One chunk read, counted against the window and emitted.
ReadChunk(e, id) ==
    LET n == e.sent[id] + 1
    IN  Emit([e EXCEPT !.sent[id] = n,
                       !.socks[id].inFlight = IF Windowed THEN @ + 1 ELSE @], Data(id, n))

\* read_closed: the application has stopped writing.
ReadClosed(e, id) ==
    LET k == e.socks[id] IN
    IF k.closing THEN e
    ELSE IF k.half
    THEN Emit([e EXCEPT !.socks[id].readOpen = FALSE, !.socks[id].half = FALSE], HalfClose(id))
    ELSE Settle([Emit(e, Closed(id)) EXCEPT
                    !.socks[id].closing = TRUE, !.socks[id].readOpen = FALSE,
                    !.closer[id] = IF @ = "none" THEN "self" ELSE @], id)

SumOfSent(e) == FoldFunction(+, 0, e.sent)

\* What the read half of service_socket can meet on side s.
ReadOutcomes(s, e, id) ==
    {e} \cup
    IF ~ Has(e, id) THEN {}
    ELSE (IF Faults THEN {Fail(e, id)} ELSE {})
         \cup IF ~ ReadInterest(e.socks[id]) \/ BacklogFull(e) THEN {}
              ELSE {ReadClosed(e, id)}
                   \cup IF SumOfSent(e) < MaxChunks[s] THEN {ReadChunk(e, id)} ELSE {}

\* Faulty: a batch is not enough.
FaultyCreditDue(k) == k.credit > Batch

\* credit_due.  The last case needs DRAINED_CREDIT_BYTES, so it depends on the
\* size of the chunks.
CreditDue(k) == k.credit >= Batch
CreditMayBeDue(k) == k.credit > 0 /\ k.out = <<>>

\* Faulty: the credit is not taken.
FaultySendCredit(e, id) == EmitPriority(e, Credit(id, e.socks[id].credit))

\* take_credit, then send_credit on the priority lane.
SendCredit(e, id) ==
    EmitPriority([e EXCEPT !.socks[id].credit = 0], Credit(id, e.socks[id].credit))

SendCredits(e, ids) == FoldSet(LAMBDA id, acc : SendCredit(acc, id), e, ids)

\* flush_due_credits.
FlushDueCredits(e) ==
    LET due == {id \in DOMAIN e.socks : CreditDue(e.socks[id])}
        may == {id \in DOMAIN e.socks : CreditMayBeDue(e.socks[id])}
    IN  {SendCredits(e, due \cup more) : more \in SUBSET (may \ due)}

\* flush_queued_writes for one socket: write, return the credit that is due
\* once the queue is empty, settle.
FlushSocket(e, id) ==
    LET Credited(f) ==
            IF f.socks[id].out # <<>> \/ f.socks[id].credit = 0 THEN {f}
            ELSE {SendCredit(f, id)} \cup IF CreditDue(f.socks[id]) THEN {} ELSE {f}
    IN  IF ~ Has(e, id) THEN {e}
        ELSE IF e.socks[id].out = <<>> THEN {e}
        ELSE UNION {{Settle(g, id) : g \in Credited(f)} : f \in Writes(e, id)}
             \cup WriteFailures(e, id)

\* flush_queued_writes: it goes on until the applications take no more, so it
\* ends with flush_held.
FlushQueuedWrites(e) ==
    LET all == FoldSet(LAMBDA id, acc : UNION {FlushSocket(f, id) : f \in acc},
                       {FlushHeld(e)}, DOMAIN e.socks)
    IN  {FlushHeld(f) : f \in all}
-----------------------------------------------------------------------------
(***************************************************************************)
(* handle_packet: what one packet from the peer does.                      *)
(***************************************************************************)
\* connected: the outcome of a connect.
Connected(e, fd, id, ok) ==
    IF ok THEN Emit(Activate(e, id, FALSE), Response(fd, id)) ELSE Emit(e, Response(fd, 0))

\* request_destination: refused (a bad destination, too many sockets),
\* connected inline, or left to a connector thread.
RequestDestination(e, fd) ==
    LET refused == Connected(e, fd, 0, FALSE)
        named == [e EXCEPT !.nextId = @ + 1]
    IN  IF TotalSockets(e) >= MaxSockets THEN {refused}
        ELSE {Connected(named, fd, e.nextId, TRUE),
              [named EXCEPT !.connecting = @ \cup {[fd |-> fd, id |-> e.nextId]}]}
             \cup IF Faults THEN {refused, Connected(named, fd, e.nextId, FALSE)} ELSE {}

\* Faulty: a late response is ignored.
FaultyRejectStale(e, id) == e

\* reject_stale_destination: close the socket the peer opened for an accept
\* that is no longer parked.
RejectStale(e, id) == IF id = 0 THEN e ELSE Emit(e, Closed(id))

\* destination_response.  The chunk a SOCKS handshake had already read goes
\* first, and is not counted against the window.
DestinationResponse(e, fd, id) ==
    IF fd \notin DOMAIN e.pending THEN RejectStale(e, id)
    ELSE IF id = 0 THEN Unpark(e, {fd})
    ELSE LET kind == e.pending[fd]
             early == IF kind = "socks"
                      THEN Emit([e EXCEPT !.sent[id] = 1], Data(id, 1)) ELSE e
         IN  Activate(Unpark(early, {fd}), id, kind = "stdio")

ErrorReceived(e, id) == IF Has(e, id) THEN RemoveSocket(e, id, "failed") ELSE e

HandlePacket(e, p) ==
    CASE p.type = "request"  -> RequestDestination(e, p.id)
      [] p.type = "response" -> {DestinationResponse(e, p.id, p.arg)}
      [] p.type = "data"     -> {AdmitData(e, p.id, p.arg)}
      [] p.type = "credit"   -> {ApplyWindow(e, p.id, p.arg)}
      [] p.type = "half"     -> {PeerHalfClose(e, p.id)}
      [] p.type = "closed"   -> {PeerClosed(e, p.id)}
      [] p.type = "error"    -> {ErrorReceived(e, p.id)}

\* The source a response has just activated is read before the call returns.
FreshSource(e, p) ==
    {id \in DOMAIN e.socks : p.type = "response" /\ id = p.arg}
-----------------------------------------------------------------------------
Becomes(s, e) == engine' = [engine EXCEPT ![s] = e]

(***************************************************************************)
(* accepted: connections from the listener (several at a time, if the      *)
(* backlog had room before the first), or a command of the SOCKS or stdio  *)
(* helper.  Over the limits it is closed at once.                          *)
(***************************************************************************)
Accepted(e, fd, kind) ==
    IF TotalSockets(e) >= MaxSockets \/ Cardinality(DOMAIN e.pending) >= MaxParked THEN e
    ELSE Emit([e EXCEPT !.pending = (fd :> kind) @@ @], Request(fd))

Accept(kind) ==
    /\ kind = "plain" => ~ BacklogFull(engine["src"])
    /\ \E n \in 1 .. IF kind = "plain" THEN AcceptsPerCycle ELSE 1 :
         /\ nextFd' = nextFd + n /\ nextFd' <= MaxAccepts + 1
         /\ LET fds == [i \in 1 .. n |-> nextFd + i - 1]
                e == FoldLeft(LAMBDA acc, fd : Accepted(acc, fd, kind), engine["src"], fds)
            IN  \E f \in IF kind = "plain" THEN FlushDueCredits(e) ELSE FlushQueuedWrites(e) :
                    Becomes("src", f)
    /\ UNCHANGED wire

\* A connector thread has finished; its command is drained by the next call.
ConnectorDone(c, ok) ==
    /\ c \in engine["dst"].connecting
    /\ ok \/ Faults
    /\ \E f \in FlushQueuedWrites(Connected([engine["dst"] EXCEPT !.connecting = @ \ {c}],
                                            c.fd, c.id, ok)) : Becomes("dst", f)
    /\ UNCHANGED <<wire, nextFd>>

\* Engine::collect: parked accepts past their deadline, held data, credit.
Collect(s) ==
    /\ \E expired \in SUBSET DOMAIN engine[s].pending :
           \E f \in FlushDueCredits(FlushHeld(Unpark(engine[s], expired))) : Becomes(s, f)
    /\ UNCHANGED <<wire, nextFd>>

\* Engine::service for one ready socket: flush, settle, read, credit.
Service(s, id) ==
    /\ Has(engine[s], id)
    /\ \E e \in {Settle(f, id) : f \in Writes(engine[s], id)} \cup WriteFailures(engine[s], id) :
           \E f \in ReadOutcomes(s, e, id) : \E g \in FlushDueCredits(f) : Becomes(s, g)
    /\ UNCHANGED <<wire, nextFd>>

\* Engine::receive for the next packet from the peer, unless the backlog is full.
Receive(s) ==
    /\ wire[Peer(s)] # <<>>
    /\ ~ BacklogFull(engine[s])
    /\ LET p == Head(wire[Peer(s)])
       IN  \E e \in HandlePacket(engine[s], p) : \E f \in FlushQueuedWrites(e) :
               \E g \in IF FreshSource(f, p) = {} THEN {f} ELSE ReadOutcomes(s, f, p.arg) :
                   Becomes(s, g)
    /\ wire' = [wire EXCEPT ![Peer(s)] = Tail(@)]
    /\ UNCHANGED nextFd

\* Engine::pop_outbound, priority lane first, and the session's write.
PopOutbound(s) ==
    /\ engine[s].prio # <<>> \/ engine[s].out # <<>>
    /\ Len(wire[s]) < Capacity
    /\ LET lane == IF engine[s].prio # <<>> THEN "prio" ELSE "out"
       IN  /\ wire' = [wire EXCEPT ![s] = Append(@, Head(engine[s][lane]))]
           /\ Becomes(s, [engine[s] EXCEPT ![lane] = Tail(@)])
    /\ UNCHANGED nextFd

Next == \/ \E kind \in Kinds : Accept(kind)
        \/ \E c \in engine["dst"].connecting, ok \in BOOLEAN : ConnectorDone(c, ok)
        \/ \E s \in Sides : \/ Collect(s)
                            \/ Receive(s)
                            \/ PopOutbound(s)
                            \/ \E id \in Ids : Service(s, id)

\* Collect with something to do: credit to return, or held data.
CollectDue(s) == /\ \/ engine[s].held # <<>>
                    \/ \E id \in DOMAIN engine[s].socks : CreditDue(engine[s].socks[id])
                 /\ Collect(s)

\* A socket whose application takes what is queued for it.
Drain(s, id) == /\ Has(engine[s], id)
                /\ engine[s].socks[id].out # <<>>
                /\ Service(s, id)
                /\ engine'[s].got[id] # engine[s].got[id]

(***************************************************************************)
(* The session loops run for ever, connects end, and applications read.    *)
(* Nothing says that they write, or close.                                 *)
(***************************************************************************)
Fairness == /\ \A s \in Sides : /\ WF_vars(CollectDue(s))
                                /\ WF_vars(Receive(s))
                                /\ WF_vars(PopOutbound(s))
                                /\ \A id \in Ids : WF_vars(Drain(s, id))
            /\ WF_vars(\E c \in engine["dst"].connecting, ok \in BOOLEAN : ConnectorDone(c, ok))

Spec == Init /\ [][Next]_vars
FairSpec == Spec /\ Fairness
-----------------------------------------------------------------------------
Sockets == [out : Seq(Nat), readOpen : BOOLEAN, closing : BOOLEAN, shutting : BOOLEAN,
            writeClosed : BOOLEAN, half : BOOLEAN, inFlight : 0 .. Window, credit : Nat]

\* The shape of the state.  A socket that takes no more reads is the only kind
\* that closes, and the window is never exceeded (read_interest).
TypeOK ==
    /\ nextFd \in 1 .. MaxAccepts + 1
    /\ \A s \in Sides : LET e == engine[s] IN
          /\ DOMAIN e.pending \subseteq Fds /\ DOMAIN e.socks \subseteq Ids
          /\ e.nextId \in 1 .. MaxAccepts + 1
          /\ TotalSockets(e) <= MaxSockets
          /\ \A id \in DOMAIN e.socks : /\ e.socks[id] \in Sockets
                                        /\ e.socks[id].closing => ~ e.socks[id].readOpen
          /\ \A id \in Ids : Has(e, id) <=> e.fate[id] = "open"

\* What an application receives is what the one at the other end wrote: in
\* order, without gap or repetition, whatever the queues and closes in between
\* (flush_out, flush_held).
InOrder ==
    \A s \in Sides, id \in Ids :
        LET got == engine[s].got[id]
        IN  /\ got = [i \in 1 .. Len(got) |-> i]
            /\ Len(got) <= engine[Peer(s)].sent[id]

\* A close that came from the peer loses nothing: the socket is dropped only
\* when the local application has everything the peer's wrote before it
\* closed ("Writes already queued still flush first", receive_data).
CloseDeliversAll ==
    \A s \in Sides, id \in Ids :
        engine[s].fate[id] = "drained" /\ engine[s].closer[id] = "peer"
            => Len(engine[s].got[id]) = engine[Peer(s)].sent[id]

\* The packet window stays below the socket's queue, so a windowed peer never
\* makes the engine hold data back; the SOCKS chunk, which is not counted
\* against the window, fits in the slot left.
NothingHeld == Windowed => \A s \in Sides : engine[s].held = <<>>

OfSocket(q, type, id) == SelectSeq(q, LAMBDA p : p.type = type /\ p.id = id)
CreditIn(q, id) == FoldLeft(LAMBDA acc, p : acc + p.arg, 0, OfSocket(q, "credit", id))

\* Everything side s has sent on a socket and has no credit for yet: under
\* way, queued at the peer, delivered there, or credit on its way back.
Outstanding(s, id) ==
    LET p == Peer(s) IN
    Len(OfSocket(engine[s].out \o wire[s], "data", id)) + Len(engine[p].socks[id].out)
    + engine[p].socks[id].credit + CreditIn(engine[p].prio \o wire[p], id)

\* Credit is conserved: a sender's in_flight is what is outstanding.  It is
\* never more, or the sender would stall for ever; it is less by at most
\* the one uncounted SOCKS chunk.
CreditConserved ==
    Windowed => \A s \in Sides, id \in Ids :
        LET e == engine[s]
            p == engine[Peer(s)]
        IN  Has(e, id) /\ Has(p, id) /\ ~ WriteClosed(p.socks[id])
            => e.socks[id].inFlight \in Outstanding(s, id) - 1 .. Outstanding(s, id)

Ended(s, id) == engine[s].fate[id] \in {"drained", "failed"}

\* A destination the peer opened is adopted or closed: the response to an
\* accept that has expired does not leave it open (reject_stale_destination).
NoOrphanDestination ==
    \A id \in Ids : engine["dst"].fate[id] = "open"
                        ~> (engine["src"].fate[id] # "none" \/ Ended("dst", id))

\* When a socket has ended at one end it ends at the other.
EndsTogether ==
    \A s \in Sides, id \in Ids : Ended(s, id) ~> engine[Peer(s)].fate[id] # "open"

\* A sender that has filled its window reads again, or its socket ends:
\* credit returned in batches never waits on a remainder (credit_batch).
ParkedSenderResumes ==
    \A s \in Sides, id \in Ids :
        (Has(engine[s], id) /\ engine[s].socks[id].inFlight = Window)
            ~> (~ Has(engine[s], id) \/ engine[s].socks[id].inFlight < Window)

\* The two ends never wait on each other: it does not happen that each has its
\* outbound lane full, so that it handles no packet, and the transport to
\* the other full, so that it sends none.  The comment on the client's poll
\* set says that congestion "must never suppress its reads".
NeverBothStuck == ~ \A s \in Sides : BacklogFull(engine[s]) /\ Len(wire[s]) = Capacity
=============================================================================
