--------------------------- MODULE ServerSession ---------------------------
(***************************************************************************)
(* One ActiveSession of the server (et-server: session.rs,                 *)
(* session_recovery.rs, session_flow.rs, session_flow_write.rs,            *)
(* session_io.rs) and every thread that touches it:                        *)
(*                                                                         *)
(*   bridge    the terminal bridge thread: it stages terminal output,      *)
(*             writes it with the OutputPump, sees the client transport    *)
(*             fail, and at the end drains what is left (finish_terminal); *)
(*   h \in Handlers   connection handlers that bring a returning client's  *)
(*             transport: RecoverPermit and recover_body;                  *)
(*   sender    a caller of RuntimeHandle::send_packet, which writes control*)
(*             packets past the output queue;                              *)
(*   stopper   a caller of ActiveSession::shutdown.                        *)
(*                                                                         *)
(* A step is one critical section.  The `connection', `hold', `state' and  *)
(* `recover_admission' mutexes are held only inside a step; write_serial   *)
(* is held across steps, so it is the variable serial.                     *)
(*                                                                         *)
(* Packets 1..NFlow are terminal output; NFlow+1..NFlow+NSent are the      *)
(* sender's.  conn.log is the replay log of the installed Connection: a    *)
(* packet in it reaches the client, at once or by the next catch-up.       *)
(* Keep-alives and the trimming of the log are left to EternalStream and   *)
(* BackedWriter.                                                           *)
(***************************************************************************)
EXTENDS Integers, Sequences, FiniteSets, SequencesExt

CONSTANTS Handlers,       \* the handler threads that may recover
          NFlow,          \* terminal packets the bridge will stage
          NSent,          \* packets the sender will send
          MaxRecoveries,  \* recoveries that may begin
          MaxLosses,      \* transports that may fail
          BackToBack      \* a recover may begin after the one before it has
                          \*   cleared `recovering' and before it resumes the queue

ASSUME SessionBounds == /\ NFlow \in Nat /\ NSent \in Nat
                        /\ MaxRecoveries \in Nat /\ MaxLosses \in Nat
                        /\ BackToBack \in BOOLEAN

VARIABLES conn,        \* the installed Connection
          serial,      \* the thread that holds write_serial, or "free"
          flow,        \* FlowControl's WriterState
          staged,      \* terminal packets the bridge has staged
          bridge,      \* the bridge thread: where it is, its packet, the
                       \*   generation it believes is installed
          recovering, tornDown,
          hold,        \* recover_hold
          rec,         \* each handler: where it is, its candidate, its batch
          begun,       \* recoveries begun
          failed,      \* generations whose transport has failed
          sender,      \* the sender: where it is, the packet it is sending
          stopper,     \* where shutdown is
          closed       \* generations whose socket the server has shut down

vars == <<conn, serial, flow, staged, bridge, recovering, tornDown, hold, rec, begun, failed, sender, stopper, closed>>

Sent == NFlow + 1 .. NFlow + NSent
None == 0
FlowPart(log) == SelectSeq(log, LAMBDA p : p <= NFlow)
NoRecovery == [at |-> "idle", log |-> <<>>, batch |-> <<>>]

\* The bridge thread between packets.
Idle(b, at) == [b EXCEPT !.at = at, !.packet = None, !.up = TRUE]

Init ==
    /\ conn = [gen |-> 0, log |-> <<>>, up |-> TRUE, partial |-> None]
    /\ serial = "free"
    /\ flow = [stop |-> "running", paused |-> FALSE, inFlight |-> FALSE,
               up |-> TRUE, queue |-> <<>>, handed |-> None, unrecoverable |-> FALSE]
    /\ staged = 0
    /\ bridge = [at |-> "loop", packet |-> None, gen |-> 0, lost |-> FALSE, up |-> TRUE]
    /\ recovering = FALSE /\ tornDown = FALSE
    /\ hold = <<>>
    /\ rec = [h \in Handlers |-> NoRecovery]
    /\ begun = 0 /\ failed = {}
    /\ sender = [at |-> "idle", packet |-> NFlow]
    /\ stopper = "idle"
    /\ closed = {}

----------------------------------------------------------------------------
(***************************************************************************)
(* The output queue (FlowControl).                                         *)
(***************************************************************************)
Empty == flow.queue = <<>> /\ flow.handed = None

\* writer_must_wait
WriterMustWait ==
    CASE flow.stop = "hard" -> FALSE
      [] flow.stop = "graceful" ->
            \/ flow.paused
            \/ ~flow.up /\ ~Empty
            \/ Empty /\ flow.inFlight
      [] flow.stop = "running" -> flow.paused \/ ~flow.up \/ Empty

\* A drain that stops without saying that output was left.
FailDrainQuietly(f, up) ==
    IF ~up /\ f.stop = "graceful" THEN [f EXCEPT !.stop = "hard"] ELSE f

\* A graceful stop whose transport is gone cannot deliver what is queued.
FailDrain(f, up) ==
    IF ~up /\ f.stop = "graceful"
    THEN [f EXCEPT !.stop = "hard", !.unrecoverable = TRUE] ELSE f

\* complete_with_signal, with up as the write left the transport.  A result
\* that returns the packet (BeforeReplay) arises only on Windows.
Completed(f, fatal, up) ==
    LET done == [f EXCEPT !.inFlight = FALSE, !.up = up]
    IN  IF fatal THEN [done EXCEPT !.stop = "hard"]
        ELSE FailDrain(done, up)

\* Without the wait for the packet in flight.
PauseAtOnce == TRUE

\* pause returns once no packet is in flight.
PauseReturns == ~flow.inFlight

\* resume without its look at a stop that arrived during the pause.
ResumedBlindly(f, up) == [f EXCEPT !.up = up, !.paused = FALSE]

\* resume
Resumed(f, up) == FailDrain([f EXCEPT !.up = up, !.paused = FALSE], up)

\* hand_back_live that leaves the packet in flight.
HandedBackInFlight(f, packet) == [f EXCEPT !.handed = packet]

\* hand_back_live
HandedBack(f, packet) == [f EXCEPT !.handed = packet, !.inFlight = FALSE]

\* restore_front at the wrong end.
RestoredLast(queue, packet) == Append(queue, packet)

\* restore_front, as return_unstarted uses it.
Restored(queue, packet) == <<packet>> \o queue

\* stop_gracefully
Stopped(f) ==
    IF f.stop # "running" THEN f
    ELSE FailDrain([f EXCEPT !.stop = "graceful"], f.up \/ f.paused)

----------------------------------------------------------------------------
(***************************************************************************)
(* The Connection, as its callers see it.                                  *)
(***************************************************************************)
\* The transport may fail under a write or a read, on MaxLosses generations.
Fails(fails) ==
    /\ fails => conn.up /\ Cardinality(failed \cup {conn.gen}) <= MaxLosses
    /\ failed' = IF fails THEN failed \cup {conn.gen} ELSE failed

\* Connection::disconnect: the partial frame is dropped with the transport.
Down(c) == [c EXCEPT !.up = FALSE, !.partial = None]

\* A packet enters the replay log; if the live write fails the log keeps it.
Logged(c, packet, fails) ==
    LET owned == [c EXCEPT !.log = Append(@, packet)]
    IN  IF fails THEN Down(owned) ELSE owned

sessionFlags == <<recovering, tornDown>>
otherThreads == <<hold, rec, begun, sender, stopper>>

----------------------------------------------------------------------------
(***************************************************************************)
(* The bridge thread while the terminal lives: OutputPump::run on the      *)
(* packets the bridge stages, and the loss of the client's transport.      *)
(***************************************************************************)
\* Between a failed read and note_client_drop the thread does nothing else.
BridgeAt(places) == bridge.at \in places /\ ~bridge.lost

\* A terminal packet is staged, whether or not a client is connected.
BridgeStage ==
    /\ BridgeAt({"loop"}) /\ staged < NFlow /\ flow.stop = "running"
    /\ staged' = staged + 1
    /\ flow' = [flow EXCEPT !.queue = Append(@, staged + 1)]
    /\ UNCHANGED <<conn, serial, bridge, sessionFlags, failed, closed, otherThreads>>

\* try_next_item
BridgeTake ==
    /\ BridgeAt({"loop"}) /\ flow.stop = "running" /\ ~WriterMustWait
    /\ bridge' = [bridge EXCEPT !.at = "taken", !.packet = Head(flow.queue)]
    /\ flow' = [flow EXCEPT !.inFlight = TRUE, !.queue = Tail(@)]
    /\ UNCHANGED <<conn, serial, staged, sessionFlags, failed, closed, otherThreads>>

\* write_nonblocking finds no room in the transport: return_unstarted.
BridgeNoRoom ==
    /\ bridge.at = "taken" /\ serial = "free" /\ flow.stop # "hard" /\ conn.up
    /\ bridge' = Idle(bridge, "loop")
    /\ flow' = [flow EXCEPT !.inFlight = FALSE, !.queue = Restored(@, bridge.packet)]
    /\ UNCHANGED <<conn, serial, staged, sessionFlags, failed, closed, otherThreads>>

\* The thread completes its packet (complete_with_signal) and goes on.  Until
\* it does, in_flight holds off whatever could tell the difference.
Completes(fatal, up, at) ==
    /\ flow' = Completed(flow, fatal, up)
    /\ bridge' = Idle(bridge, at)

\* write_nonblocking starts the frame: it is sent, partly sent, or lost with
\* its transport; with no transport it is only logged.
BridgeStart ==
    /\ bridge.at = "taken" /\ serial = "free" /\ flow.stop # "hard"
    /\ \/ \E fails \in BOOLEAN :
            /\ Fails(fails)
            /\ conn' = Logged(conn, bridge.packet, fails)
            /\ Completes(FALSE, conn'.up, "loop")
       \/ /\ conn.up
          /\ conn' = [Logged(conn, bridge.packet, FALSE) EXCEPT !.partial = bridge.packet]
          /\ bridge' = [bridge EXCEPT !.at = "live"]
          /\ UNCHANGED <<flow, failed>>
    /\ UNCHANGED <<serial, staged, sessionFlags, closed, otherThreads>>

\* write_nonblocking advances the frame to its end, or loses its transport.
\* A frame another thread finished or dropped counts as delivered: the log
\* has it.
BridgeAdvance ==
    /\ BridgeAt({"live"}) /\ serial = "free" /\ flow.stop # "hard"
    /\ \E fails \in BOOLEAN :
         /\ fails => conn.partial # None
         /\ Fails(fails)
         /\ conn' = IF fails THEN Down(conn) ELSE [conn EXCEPT !.partial = None]
    /\ Completes(FALSE, conn'.up, "loop")
    /\ UNCHANGED <<serial, staged, sessionFlags, closed, otherThreads>>

\* write_nonblocking after a hard stop.
BridgeRefused ==
    /\ BridgeAt({"taken", "live"}) /\ serial = "free" /\ flow.stop = "hard"
    /\ Completes(TRUE, FALSE, "loop")
    /\ UNCHANGED <<conn, serial, staged, sessionFlags, failed, closed, otherThreads>>

\* A read of the client's transport fails, or the loop sees the one it still
\* polls hang up after a recover replaced it.
BridgeReadFails ==
    /\ BridgeAt({"loop", "live"})
    /\ Fails(TRUE) \/ (bridge.gen \in closed /\ UNCHANGED failed)
    /\ bridge' = [bridge EXCEPT !.lost = TRUE]
    /\ UNCHANGED <<conn, serial, flow, staged, sessionFlags, closed, otherThreads>>

\* mark_client_disconnected without the generation the bridge read from.
MarkAnyGeneration(expected) == TRUE

\* mark_client_disconnected acts only on the generation the bridge read from.
MarkMatches(expected) == conn.gen = expected

\* note_client_drop
BridgeMarks ==
    /\ bridge.lost
    /\ bridge' = [bridge EXCEPT !.lost = FALSE, !.gen = conn.gen]
    /\ IF MarkMatches(bridge.gen)
       THEN conn' = Down(conn) /\ flow' = [flow EXCEPT !.up = FALSE]
       ELSE UNCHANGED <<conn, flow>>
    /\ UNCHANGED <<serial, staged, sessionFlags, failed, closed, otherThreads>>

\* The loop wakes and reads connection_state.
BridgeLooks ==
    /\ BridgeAt({"loop", "live"}) /\ bridge.gen # conn.gen
    /\ bridge' = [bridge EXCEPT !.gen = conn.gen]
    /\ UNCHANGED <<conn, serial, flow, staged, sessionFlags, failed, closed, otherThreads>>

\* run_mode returns: the terminal hung up, or shutdown() was called.  The
\* OutputPump hands a frame that is partly on the wire to the drain.
BridgeEnd ==
    /\ BridgeAt({"loop", "live"})
    /\ bridge' = Idle([bridge EXCEPT !.gen = 0], "finish")
    /\ flow' = IF bridge.at = "live" THEN HandedBack(flow, bridge.packet) ELSE flow
    /\ UNCHANGED <<conn, serial, staged, sessionFlags, failed, closed, otherThreads>>

\* retire_if_unreachable that does not look for a recover under way.
RetirableIfDown == ~conn.up

\* retire_if_unreachable, with recover_admission held.  The router may have
\* detached the session, its terminal gone, at any time before.
Retirable == ~recovering /\ ~conn.up

BridgeRetire ==
    /\ BridgeAt({"loop"}) /\ Retirable
    /\ tornDown' = TRUE
    /\ bridge' = Idle([bridge EXCEPT !.gen = 0], "finish")
    /\ UNCHANGED <<conn, serial, flow, staged, recovering, failed, closed, otherThreads>>

----------------------------------------------------------------------------
(***************************************************************************)
(* The bridge thread after its loop: finish_terminal delivers what is      *)
(* queued (write_until_stopped) and then closes the transport.             *)
(***************************************************************************)
FinishStop ==
    /\ bridge.at = "finish"
    /\ bridge' = [bridge EXCEPT !.at = "drain"]
    /\ flow' = Stopped(flow)
    /\ UNCHANGED <<conn, serial, staged, sessionFlags, failed, closed, otherThreads>>

\* next_item, when nothing is left or the stop is hard.
DrainEmpty ==
    /\ bridge.at = "drain" /\ ~WriterMustWait
    /\ flow.stop = "hard" \/ Empty
    /\ bridge' = [bridge EXCEPT !.at = "closing"]
    /\ UNCHANGED <<conn, serial, flow, staged, sessionFlags, failed, closed, otherThreads>>

\* next_item: the frame handed back comes first.
DrainTake ==
    /\ bridge.at = "drain" /\ ~WriterMustWait /\ flow.stop # "hard" /\ ~Empty
    /\ IF flow.handed # None
       THEN /\ bridge' = [bridge EXCEPT !.at = "drainFrame", !.packet = flow.handed]
            /\ flow' = [flow EXCEPT !.inFlight = TRUE, !.handed = None]
       ELSE /\ bridge' = [bridge EXCEPT !.at = "drainPacket", !.packet = Head(flow.queue)]
            /\ flow' = [flow EXCEPT !.inFlight = TRUE, !.queue = Tail(@)]
    /\ UNCHANGED <<conn, serial, staged, sessionFlags, failed, closed, otherThreads>>

\* write_until_stopped looks once more for a hard stop before it writes; it
\* returns with the packet still marked in flight.
DrainAbandon ==
    /\ bridge.at \in {"drainFrame", "drainPacket"} /\ flow.stop = "hard"
    /\ bridge' = Idle(bridge, "closing")
    /\ UNCHANGED <<conn, serial, flow, staged, sessionFlags, failed, closed, otherThreads>>

\* The hard stop came after that look: write_packet and
\* finish_pending_packet refuse.
DrainRefused ==
    /\ bridge.at \in {"drainFrame", "drainPacket"} /\ serial = "free" /\ flow.stop = "hard"
    /\ Completes(TRUE, FALSE, "closing")
    /\ UNCHANGED <<conn, serial, staged, sessionFlags, failed, closed, otherThreads>>

\* write_packet takes a sequence number, and lets go of the connection to
\* encrypt.
DrainReserve ==
    /\ bridge.at = "drainPacket" /\ serial = "free" /\ flow.stop # "hard"
    /\ serial' = "bridge"
    /\ bridge' = [bridge EXCEPT !.at = "commit"]
    /\ UNCHANGED <<conn, flow, staged, sessionFlags, failed, closed, otherThreads>>

DrainCommit ==
    /\ bridge.at = "commit"
    /\ conn' = Logged(conn, bridge.packet, FALSE)
    /\ bridge' = [bridge EXCEPT !.at = "send", !.up = conn.up]
    /\ UNCHANGED <<serial, flow, staged, sessionFlags, failed, closed, otherThreads>>

\* Where the drain goes on after a packet.
DrainCompletes(up) ==
    Completes(FALSE, up, IF Completed(flow, FALSE, up).stop = "hard"
                         THEN "closing" ELSE "drain")

\* finish_pending_packet takes the partial frame out.  A frame that another
\* thread finished or dropped needs no write: the log has it.
DrainFrame ==
    /\ bridge.at = "drainFrame" /\ serial = "free" /\ flow.stop # "hard"
    /\ conn' = [conn EXCEPT !.partial = None]
    /\ IF conn.partial = None
       THEN DrainCompletes(conn.up) /\ UNCHANGED serial
       ELSE /\ bridge' = [bridge EXCEPT !.at = "send", !.up = conn.up]
            /\ serial' = "bridge"
            /\ UNCHANGED flow
    /\ UNCHANGED <<staged, sessionFlags, failed, closed, otherThreads>>

\* The blocking send, with no lock but write_serial.
DrainSend ==
    /\ bridge.at = "send"
    /\ serial' = "free"
    /\ \E fails \in BOOLEAN :
         /\ fails => bridge.up
         /\ Fails(fails)
         /\ conn' = IF fails THEN Down(conn) ELSE conn
         /\ DrainCompletes(bridge.up /\ ~fails)
    /\ UNCHANGED <<staged, sessionFlags, closed, otherThreads>>

\* finish_terminal half-closes the transport, or closes it and shuts the
\* connection down when output that was staged could not be delivered.
FinishControl ==
    /\ bridge.at = "closing"
    /\ bridge' = [bridge EXCEPT !.at = IF flow.unrecoverable THEN "shutting" ELSE "ended"]
    /\ closed' = IF flow.unrecoverable THEN closed \cup {conn.gen} ELSE closed
    /\ UNCHANGED <<conn, serial, flow, staged, sessionFlags, failed, otherThreads>>

FinishConnection ==
    /\ bridge.at = "shutting"
    /\ bridge' = [bridge EXCEPT !.at = "ended"]
    /\ closed' = closed \cup {conn.gen}
    /\ conn' = Down(conn)
    /\ UNCHANGED <<serial, flow, staged, sessionFlags, failed, otherThreads>>

----------------------------------------------------------------------------
(***************************************************************************)
(* A handler that brings a returning client: try_begin_recover,            *)
(* recover_body and the drop of the permit.                                *)
(***************************************************************************)
theRest == <<staged, bridge, sender, stopper>>

\* try_begin_recover that lets a second recover in.
AdmitAny == ~tornDown

\* try_begin_recover, with recover_admission held: one recover at a time, and
\* none of a session that is torn down.
Admits == ~tornDown /\ ~recovering

RecoverBegin(h) ==
    /\ rec[h].at = "idle" /\ begun < MaxRecoveries
    /\ Admits
    /\ BackToBack \/ \A g \in Handlers : rec[g].at \notin {"flushLast", "resume"}
    /\ recovering' = TRUE /\ begun' = begun + 1
    /\ rec' = [rec EXCEPT ![h].at = "pause"]
    /\ UNCHANGED <<conn, serial, flow, tornDown, hold, failed, closed, theRest>>

\* FlowControl::pause, before it waits.
RecoverPause(h) ==
    /\ rec[h].at = "pause"
    /\ flow' = [flow EXCEPT !.paused = TRUE]
    /\ rec' = [rec EXCEPT ![h].at = "paused"]
    /\ UNCHANGED <<conn, serial, recovering, tornDown, hold, begun, failed, closed, theRest>>

\* pause returns and recover_body takes its snapshot, unless the session has
\* been torn down.
RecoverSnapshot(h) ==
    /\ rec[h].at = "paused" /\ PauseReturns
    /\ rec' = [rec EXCEPT ![h].at = IF tornDown THEN "flush" ELSE "handshake",
                          ![h].log = IF tornDown THEN <<>> ELSE conn.log]
    /\ UNCHANGED <<conn, serial, flow, recovering, tornDown, hold, begun, failed,
                   closed, theRest>>

\* The handshake on the new transport, with no lock held.
RecoverHandshake(h) ==
    /\ rec[h].at = "handshake"
    /\ \/ rec' = [rec EXCEPT ![h].at = "install"]
       \/ rec' = [rec EXCEPT ![h].at = "flush", ![h].log = <<>>]
    /\ UNCHANGED <<conn, serial, flow, recovering, tornDown, hold, begun, failed,
                   closed, theRest>>

\* The install phase without its second look at torn_down.
InstallRegardless == TRUE

\* The install phase looks at torn_down again, with every lock held.
MayInstall == ~tornDown

RecoverInstall(h) ==
    /\ rec[h].at = "install" /\ serial = "free"
    /\ IF MayInstall
       THEN /\ conn' = [gen |-> conn.gen + 1, log |-> rec[h].log, up |-> TRUE,
                        partial |-> None]
            /\ closed' = closed \cup {conn.gen}
            /\ rec' = [rec EXCEPT ![h].at = "drain", ![h].log = <<>>]
       ELSE /\ rec' = [rec EXCEPT ![h].at = "flush", ![h].log = <<>>]
            /\ UNCHANGED <<conn, closed>>
    /\ UNCHANGED <<serial, flow, recovering, tornDown, hold, begun, failed, theRest>>

\* lock_timeout gives up on write_serial.
RecoverInstallBusy(h) ==
    /\ rec[h].at = "install" /\ serial # "free"
    /\ rec' = [rec EXCEPT ![h].at = "flush", ![h].log = <<>>]
    /\ UNCHANGED <<conn, serial, flow, recovering, tornDown, hold, begun, failed,
                   closed, theRest>>

(***************************************************************************)
(* flush_recover_hold: recover_body calls it after the install, and the    *)
(* drop of the permit before and after it clears recovering.               *)
(***************************************************************************)
AfterFlush(at) == CASE at = "drain" -> "flush"
                    [] at = "flush" -> "clear"
                    [] at = "flushLast" -> "resume"

Flushing(h) == rec[h].at \in {"drain", "flush", "flushLast"}

\* The whole hold is taken out, or there is none and the flush returns.
FlushTake(h) ==
    /\ Flushing(h) /\ rec[h].batch = <<>>
    /\ rec' = IF hold = <<>> THEN [rec EXCEPT ![h].at = AfterFlush(@)]
              ELSE [rec EXCEPT ![h].batch = hold]
    /\ hold' = <<>>
    /\ UNCHANGED <<conn, serial, flow, recovering, tornDown, begun, failed, closed, theRest>>

\* A flush that puts nothing back.
DropRest(batch, k) == <<>>

\* A flush that also keeps the packet whose live write failed.
KeepFailed(batch, k) == SubSeq(batch, k, Len(batch))

\* What a flush puts back when the live write of its k-th packet fails: the
\* replay log owns that one.
Unwritten(batch, k) == SubSeq(batch, k + 1, Len(batch))

\* The batch is written; when the transport fails under its k-th packet the
\* rest goes back in front of what was queued meanwhile.
FlushWrite(h) ==
    /\ rec[h].batch # <<>> /\ serial = "free" /\ conn.partial = None
    /\ \E fails \in BOOLEAN, k \in 1..Len(rec[h].batch) :
         /\ ~fails => k = Len(rec[h].batch)
         /\ Fails(fails)
         /\ conn' = LET c == [conn EXCEPT !.log = @ \o SubSeq(rec[h].batch, 1, k)]
                    IN  IF fails THEN Down(c) ELSE c
         /\ hold' = IF fails THEN Unwritten(rec[h].batch, k) \o hold ELSE hold
         /\ rec' = [rec EXCEPT ![h].batch = <<>>,
                               ![h].at = IF fails THEN AfterFlush(@) ELSE @]
    /\ UNCHANGED <<serial, flow, recovering, tornDown, begun, closed, theRest>>

\* A frame still partly on the wire refuses the first packet.
FlushRefused(h) ==
    /\ rec[h].batch # <<>> /\ serial = "free" /\ conn.partial # None
    /\ hold' = rec[h].batch \o hold
    /\ rec' = [rec EXCEPT ![h].batch = <<>>, ![h].at = AfterFlush(@)]
    /\ UNCHANGED <<conn, serial, flow, recovering, tornDown, begun, failed, closed, theRest>>

\* lock_timeout gives up on write_serial; the batch goes with it.
FlushBusy(h) ==
    /\ rec[h].batch # <<>> /\ serial # "free"
    /\ rec' = [rec EXCEPT ![h].batch = <<>>, ![h].at = AfterFlush(@)]
    /\ UNCHANGED <<conn, serial, flow, recovering, tornDown, hold, begun, failed,
                   closed, theRest>>

RecoverClear(h) ==
    /\ rec[h].at = "clear"
    /\ recovering' = FALSE
    /\ rec' = [rec EXCEPT ![h].at = "flushLast"]
    /\ UNCHANGED <<conn, serial, flow, tornDown, hold, begun, failed, closed, theRest>>

RecoverResume(h) ==
    /\ rec[h].at = "resume"
    /\ flow' = Resumed(flow, conn.up)
    /\ rec' = [rec EXCEPT ![h] = NoRecovery]
    /\ UNCHANGED <<conn, serial, recovering, tornDown, hold, begun, failed, closed, theRest>>

----------------------------------------------------------------------------
(***************************************************************************)
(* send_packet of a control packet (send_packet_owned_with).               *)
(***************************************************************************)
allButSender == <<flow, staged, bridge, sessionFlags, rec, begun, stopper, closed>>

SendStart ==
    /\ sender.at = "idle" /\ sender.packet < NFlow + NSent
    /\ sender' = [at |-> IF recovering THEN "queue" ELSE "lock", packet |-> sender.packet + 1]
    /\ UNCHANGED <<conn, serial, hold, failed, allButSender>>

\* A return that leaves write_serial locked.
StaysLocked(lock) == lock

\* Returning drops the write_serial guard, if the sender has it.
Released(lock) == IF lock = "sender" THEN "free" ELSE lock

\* queue_if_recovering, with the hold locked; "requeue" is the second call,
\* made with write_serial held.
SendQueue ==
    /\ sender.at \in {"queue", "requeue"}
    /\ IF recovering
       THEN /\ hold' = Append(hold, sender.packet)
            /\ serial' = Released(serial)
            /\ sender' = [sender EXCEPT !.at = "idle"]
       ELSE /\ sender' = [sender EXCEPT !.at = IF @ = "queue" THEN "lock" ELSE "write"]
            /\ UNCHANGED <<serial, hold>>
    /\ UNCHANGED <<conn, failed, allButSender>>

SendLock ==
    /\ sender.at = "lock" /\ serial = "free"
    /\ serial' = "sender"
    /\ sender' = [sender EXCEPT !.at = "check"]
    /\ UNCHANGED <<conn, hold, failed, allButSender>>

\* With the connection locked: a frame that is partly on the wire is taken
\* out to be finished first, else the packet is written.
SendUnlessPartial ==
    IF conn.partial # None
    THEN /\ conn' = [conn EXCEPT !.partial = None]
         /\ sender' = [sender EXCEPT !.at = "finish"]
         /\ UNCHANGED <<serial, failed>>
    ELSE \E fails \in BOOLEAN :
         /\ Fails(fails)
         /\ conn' = Logged(conn, sender.packet, fails)
         /\ serial' = "free"
         /\ sender' = [sender EXCEPT !.at = "idle"]

SendCheck ==
    /\ sender.at = "check"
    /\ IF recovering
       THEN /\ sender' = [sender EXCEPT !.at = "requeue"]
            /\ UNCHANGED <<conn, serial, failed>>
       ELSE SendUnlessPartial
    /\ UNCHANGED <<hold, allButSender>>

SendWrite ==
    /\ sender.at = "write"
    /\ SendUnlessPartial
    /\ UNCHANGED <<hold, allButSender>>

\* The partial frame is finished with no lock but write_serial; if that fails
\* the packet is not written and the caller gets the error.
SendFinish ==
    /\ sender.at = "finish"
    /\ \E fails \in BOOLEAN :
         /\ Fails(fails)
         /\ conn' = IF fails THEN Down(conn) ELSE conn
         /\ serial' = IF fails THEN "free" ELSE serial
         /\ sender' = [sender EXCEPT !.at = IF fails THEN "idle" ELSE "write"]
    /\ UNCHANGED <<hold, allButSender>>

----------------------------------------------------------------------------
(***************************************************************************)
(* ActiveSession::shutdown.                                                *)
(***************************************************************************)
StopAdmission ==
    /\ stopper = "idle" /\ stopper' = "flow"
    /\ tornDown' = TRUE
    /\ UNCHANGED <<conn, serial, flow, staged, bridge, recovering, hold, rec, begun, failed, sender, closed>>

StopFlow ==
    /\ stopper = "flow" /\ stopper' = "control"
    /\ flow' = [flow EXCEPT !.stop = "hard"]
    /\ UNCHANGED <<conn, serial, staged, bridge, recovering, tornDown,
                   hold, rec, begun, failed, sender, closed>>

StopControl ==
    /\ stopper = "control" /\ stopper' = "connection"
    /\ closed' = closed \cup {conn.gen}
    /\ UNCHANGED <<conn, serial, flow, staged, bridge, sessionFlags,
                   hold, rec, begun, failed, sender>>

StopConnection ==
    /\ stopper = "connection" /\ stopper' = "done"
    /\ conn' = Down(conn)
    /\ closed' = closed \cup {conn.gen}
    /\ UNCHANGED <<serial, flow, staged, bridge, sessionFlags,
                   hold, rec, begun, failed, sender>>

----------------------------------------------------------------------------
\* What the bridge thread goes on to do by itself.
BridgeStep ==
    \/ BridgeTake \/ BridgeStart \/ BridgeAdvance \/ BridgeRefused
    \/ BridgeMarks \/ BridgeLooks
    \/ FinishStop \/ DrainEmpty \/ DrainTake \/ DrainAbandon \/ DrainRefused
    \/ DrainReserve \/ DrainCommit \/ DrainFrame \/ DrainSend \/ FinishControl \/ FinishConnection

\* What happens to it.
BridgeEvent ==
    BridgeStage \/ BridgeNoRoom \/ BridgeReadFails \/ BridgeEnd \/ BridgeRetire

RecoverStep(h) ==
    \/ RecoverPause(h) \/ RecoverSnapshot(h) \/ RecoverHandshake(h)
    \/ RecoverInstall(h) \/ RecoverInstallBusy(h)
    \/ FlushTake(h) \/ FlushWrite(h) \/ FlushRefused(h) \/ FlushBusy(h)
    \/ RecoverClear(h) \/ RecoverResume(h)

SendStep == SendQueue \/ SendLock \/ SendCheck \/ SendWrite \/ SendFinish

StopStep == StopFlow \/ StopControl \/ StopConnection

Next ==
    \/ BridgeStep \/ BridgeEvent
    \/ \E h \in Handlers : RecoverBegin(h) \/ RecoverStep(h)
    \/ SendStart \/ SendStep
    \/ StopAdmission \/ StopStep

Spec == Init /\ [][Next]_vars

\* Each thread goes on once it has begun: its waits on the network are bounded
\* by the live-write and recovery deadlines, its waits on locks by theirs.
Fairness ==
    /\ WF_vars(BridgeStep)
    /\ \A h \in Handlers : WF_vars(RecoverStep(h))
    /\ WF_vars(SendStep)
    /\ WF_vars(StopStep)

FairSpec == Spec /\ Fairness

----------------------------------------------------------------------------
(***************************************************************************)
(* Properties                                                              *)
(***************************************************************************)
Packets == 1 .. NFlow + NSent
Generations == 0 .. MaxRecoveries

\* The terminal packet the bridge has taken and not yet logged.
InHand == IF bridge.at \in {"taken", "drainPacket", "commit"}
          THEN <<bridge.packet>> ELSE <<>>

\* The values the session's state may take.  write_serial is held by the thread
\* that is between taking and releasing it, on every path out.
TypeOK ==
    /\ conn \in [gen : Generations, log : Seq(Packets), up : BOOLEAN,
                 partial : {None} \cup 1..NFlow]
    /\ serial \in {"free", "bridge", "sender"}
    /\ serial = "bridge" <=> bridge.at \in {"commit", "send"}
    /\ serial = "sender" <=> sender.at \in {"check", "requeue", "write", "finish"}
    /\ flow.stop \in {"running", "graceful", "hard"}
    /\ flow.queue \in Seq(1..NFlow) /\ flow.handed \in {None} \cup 1..NFlow
    /\ hold \in Seq(Sent)
    /\ failed \subseteq Generations /\ closed \subseteq Generations
    /\ \A h \in Handlers : rec[h].log \in Seq(Packets) /\ rec[h].batch \in Seq(Sent)

\* At most one handler is between try_begin_recover and the clearing of
\* `recovering', and the flag says so: nothing else could keep two candidates
\* from being built on the same history.
SingleFlight ==
    LET inside == {h \in Handlers : rec[h].at \notin {"idle", "flushLast", "resume"}}
    IN  recovering = (inside # {}) /\ Cardinality(inside) <= 1

\* Terminal output reaches the replay log of the installed connection in the
\* order it was staged, with no packet lost or repeated, across every
\* recovery, disconnect and drain; of these only a hard stop gives up what is
\* left.  (An interrupt also discards queued output, session_flow.rs:373-399:
\* that path is left out of this module.)
OutputKept ==
    LET log == FlowPart(conn.log) IN
    /\ log = [i \in 1..Len(log) |-> i]
    /\ flow.stop # "hard" =>
          log \o InHand \o flow.queue = [i \in 1..staged |-> i]

\* While a handler works on its candidate off-lock, no terminal packet enters
\* the log the candidate was copied from, and no sequence number is reserved
\* on it: the pause waits for the packet in flight.  Of the control packets,
\* which do not wait for the pause, at most the one whose sender had already
\* looked at `recovering' is overlooked: those that follow go to the hold.
SnapshotStaysCurrent ==
    \A h \in Handlers : rec[h].at \in {"handshake", "install"} =>
        /\ IsPrefix(rec[h].log, conn.log)
        /\ FlowPart(rec[h].log) = FlowPart(conn.log)
        /\ Len(conn.log) <= Len(rec[h].log) + 1
        /\ bridge.at # "commit"

\* finish_terminal reports that the output was delivered only if every packet
\* that was staged is in the log (what an interrupt discards apart, as above).
EndMeansDelivered ==
    bridge.at = "ended" /\ ~flow.unrecoverable /\ ~tornDown =>
        Len(FlowPart(conn.log)) = staged

\* The installed transport is given up only if it failed or the server itself
\* shut it down: a stale error from the transport before it, or a frame left
\* over from it, never disconnects a client that has just come back.
OnlyFailedTransportsDropped == ~conn.up => conn.gen \in failed \cup closed

\* After shutdown() returns no transport of the session is left open, however
\* a recover that was under way interleaves with it.
ShutdownIsFinal == stopper = "done" => ~conn.up /\ conn.gen \in closed

\* A session retires only when no client is connected and none is recovering,
\* and from then on none can: what the bridge still holds reaches no one.
RetiredIsUnreachable == tornDown /\ stopper = "idle" => ~recovering /\ ~conn.up

\* A control packet is in one place at most: the log, the hold, or the batch
\* of a flush.  A flush that fails half way writes none of them again.
SentOnce ==
    \A p \in Sent :
        Len(SelectSeq(conn.log \o hold, LAMBDA q : q = p))
          + Cardinality({h \in Handlers : \E i \in DOMAIN rec[h].batch : rec[h].batch[i] = p})
        <= 1

InHold(p) == \E i \in DOMAIN hold : hold[i] = p
InBatch(p) == \E h \in Handlers : \E i \in DOMAIN rec[h].batch : rec[h].batch[i] = p
InLog(p) == \E i \in DOMAIN conn.log : conn.log[i] = p

\* A control packet the hold has accepted is not dropped on its way to the log:
\* a flush that is refused, or fails half way, puts back what it has not
\* written.  Only a flush that cannot get write_serial gives up its batch.
HeldPacketsKept ==
    [][\A p \in Sent :
          /\ InHold(p) => (InHold(p) \/ InBatch(p) \/ InLog(p))'
          /\ InBatch(p) /\ serial = "free" => (InHold(p) \/ InBatch(p) \/ InLog(p))']_vars

\* The recover permit is given back: unless the session is torn down, pause
\* returns and the handler gets through.
RecoverEnds == recovering ~> (~recovering \/ tornDown)

\* A terminal that ended is finished with: the drain neither waits for a
\* client that will not come back nor for a recover that never resumes it.
DrainEnds == bridge.at = "drain" ~> bridge.at = "ended"

============================================================================
