-------------------------- MODULE SessionAdmission --------------------------
(***************************************************************************)
(* How the server admits a client to the session of one id (et-server:     *)
(* registry.rs, router_loop.rs, session_table.rs, session_slot.rs,         *)
(* runtime_handler.rs, runtime_lifecycle.rs, runtime_state.rs, runtime.rs).*)
(*                                                                         *)
(*   terminals   etterminal processes.  Each registration is a generation  *)
(*               1, 2, ...; a terminal that lost its router socket         *)
(*               registers the same id again, as a new generation.         *)
(*   router      registers terminals and notices those that hang up.       *)
(*   lifecycle   tears down what a dead terminal leaves, and expires       *)
(*               resumed terminals that no client came back for.           *)
(*   h \in Handlers   one accepted TCP connection and its handler thread.  *)
(*   runtime     Runtime::shutdown.                                        *)
(*                                                                         *)
(* Ids do not interact, so one id is modelled.  A step is one critical     *)
(* section of the registry, table or raw-socket mutex.  The sweep holds    *)
(* the table mutex over two steps: TableFree says it is not held.          *)
(* The router and lifecycle have threads of their own on Windows and share *)
(* the control thread on Unix: the model interleaves them freely.          *)
(***************************************************************************)
EXTENDS Naturals, Sequences, FiniteSets

CONSTANTS Handlers,   \* the connections the server accepts
          MaxGen      \* registrations terminals make

ASSUME AdmissionBounds == MaxGen \in Nat \ {0}

Gens == 1..MaxGen
NoGen == 0
NoHandler == "none"

VARIABLES registry,   \* the registered generation, or NoGen
          made,       \* registrations made so far
          resumed,    \* generations that carry a live pty (pty_active)
          hungUp,     \* generations whose terminal closed its socket
          router,     \* generation whose REGISTRATION_STATUS is being written, or NoGen
          watched,    \* generations the router watches for hang-up
          events,     \* TerminalDisconnected events queued for lifecycle
          life,       \* where lifecycle is and the generation it works on
          slot,       \* the session table's slot for the id
          at, gen,    \* each handler: where it is, the registration it read
          sock,       \* each handler's entry in RawSockets
          stop,       \* where Runtime::shutdown is
          listening,  \* the control thread still accepts
          taken,      \* what begin_shutdown took from the table
          shut,       \* handlers whose ActiveSession was shut down
          cancelled,  \* generations whose inactive sockets were shut down
          expired     \* generations the sweep closed

terminals == <<made, resumed, hungUp>>
routing == <<router, watched>>
runtime == <<stop, listening, taken>>
history == <<cancelled, expired>>
vars == <<registry, terminals, routing, events, life, slot, at, gen, sock, runtime, shut, history>>

NoSlot == [state |-> "none", gen |-> NoGen, owner |-> NoHandler]
Registered(g) == [state |-> "registered", gen |-> g, owner |-> NoHandler]
Starting(g, h) == [state |-> "starting", gen |-> g, owner |-> h]
Active(g, h) == [state |-> "active", gen |-> g, owner |-> h]

\* An entry of RawSockets: its generation, the flags, and whether the socket
\* is still open.
Tracked == [tracked |-> TRUE, reg |-> NoGen, auth |-> FALSE, owner |-> FALSE, open |-> TRUE]
Untracked == [Tracked EXCEPT !.tracked = FALSE, !.open = FALSE]

Init ==
    /\ registry = NoGen /\ made = 0 /\ resumed = {} /\ hungUp = {}
    /\ router = NoGen /\ watched = {} /\ events = <<>>
    /\ life = [at |-> "idle", gen |-> NoGen]
    /\ slot = NoSlot
    /\ at = [h \in Handlers |-> "idle"]
    /\ gen = [h \in Handlers |-> NoGen]
    /\ sock = [h \in Handlers |-> Untracked]
    /\ stop = "run" /\ listening = TRUE /\ taken = NoSlot
    /\ shut = {} /\ cancelled = {} /\ expired = {}

\* A table whose mutex the sweep does not keep.
TableAlwaysFree == TRUE
TableFree == life.at # "expire"

\* The two shutdown flags: RuntimeCore's, then the table's.
Stopping == stop # "run"
TableStopped == stop \notin {"run", "flag"}

----------------------------------------------------------------------------
(***************************************************************************)
(* RawSockets and SessionConnection.                                       *)
(***************************************************************************)
\* shutdown_inactive_registration: every socket of the generation that does
\* not own a session.
InactiveClosed(g) ==
    [h \in Handlers |->
        IF sock[h].tracked /\ sock[h].reg = g /\ ~sock[h].owner
        THEN [sock[h] EXCEPT !.open = FALSE] ELSE sock[h]]

AllClosed == [h \in Handlers |-> [sock[h] EXCEPT !.open = FALSE]]

\* RawSocketGuard::assign: the newest connection of a generation closes the
\* ones that have not proved the passkey.
Assigned(h, g) ==
    [k \in Handlers |->
        CASE k = h -> [sock[h] EXCEPT !.reg = g]
          [] k # h /\ sock[k].tracked /\ sock[k].reg = g /\ ~sock[k].auth ->
                [sock[k] EXCEPT !.open = FALSE]
          [] OTHER -> sock[k]]

\* SessionConnection::shutdown, for what a slot held.
ClosedBy(s) == IF s.state = "starting" THEN [sock EXCEPT ![s.owner].open = FALSE] ELSE sock
ShutBy(s) == IF s.state = "active" THEN shut \cup {s.owner} ELSE shut

----------------------------------------------------------------------------
(***************************************************************************)
(* Terminals and the router.                                               *)
(***************************************************************************)
HangUp(g) ==
    /\ g \in 1..made /\ g \notin hungUp
    /\ hungUp' = hungUp \cup {g}
    /\ UNCHANGED <<registry, made, resumed, routing, events, life, slot, at, gen, sock, runtime, shut, history>>

\* A registry that lets a live duplicate in.
AlwaysRegistrable == TRUE

\* Registry::register rejects a live duplicate; a registration whose peer has
\* closed is replaced.
Registrable == registry = NoGen \/ registry \in hungUp

Register ==
    /\ router = NoGen /\ made < MaxGen /\ stop \notin {"cleared", "joined", "join", "end"}
    /\ Registrable
    /\ made' = made + 1 /\ registry' = made' /\ router' = made'
    /\ resumed' \in {resumed, resumed \cup {made'}}
    /\ UNCHANGED <<hungUp, watched, events, life, slot, at, gen, sock, runtime, shut, history>>

\* complete_registration: the status was written (or none is owed).
WatchRegistered ==
    /\ router # NoGen
    /\ watched' = watched \cup {router} /\ router' = NoGen
    /\ UNCHANGED <<registry, terminals, events, life, slot, at, gen, sock, runtime, shut, history>>

Without(g) == IF registry = g THEN NoGen ELSE registry

\* rollback_registration: the terminal was gone before its status was
\* written.  No event follows.
RollbackRegistration ==
    /\ router \in hungUp
    /\ registry' = Without(router) /\ router' = NoGen
    /\ UNCHANGED <<terminals, watched, events, life, slot, at, gen, sock, runtime, shut, history>>

\* disconnect_watched
DisconnectWatched(g) ==
    /\ router = NoGen /\ g \in watched \cap hungUp
    /\ watched' = watched \ {g}
    /\ registry' = Without(g)
    /\ events' = IF registry = g THEN Append(events, g) ELSE events
    /\ UNCHANGED <<terminals, router, life, slot, at, gen, sock, runtime, shut, history>>

----------------------------------------------------------------------------
(***************************************************************************)
(* The lifecycle worker.                                                   *)
(***************************************************************************)
\* A removal that forgets to compare generations.
AnySlot(g) == slot.state # "none"

\* RegistrationIdentity::matches, on the slot.
SlotOf(g) == slot.state # "none" /\ slot.gen = g

\* Lifecycle::service receives TerminalDisconnected.
LifeTake ==
    /\ life.at = "idle" /\ events # <<>>
    /\ life' = [at |-> "scan", gen |-> Head(events)]
    /\ events' = Tail(events)
    /\ UNCHANGED <<registry, terminals, routing, slot, at, gen, sock, runtime, shut, history>>

\* terminal_disconnected: first the raw sockets ...
LifeScan ==
    /\ life.at = "scan"
    /\ sock' = InactiveClosed(life.gen)
    /\ cancelled' = cancelled \cup {life.gen}
    /\ life' = [life EXCEPT !.at = "remove"]
    /\ UNCHANGED <<registry, terminals, routing, events, slot, at, gen, runtime, shut, expired>>

\* ... then the slot: a starting connection is closed, an active session is
\* detached and left to drain.
LifeRemove ==
    /\ life.at = "remove"
    /\ slot' = IF SlotOf(life.gen) THEN NoSlot ELSE slot
    /\ sock' = IF SlotOf(life.gen) THEN ClosedBy(slot) ELSE sock
    /\ life' = [at |-> "idle", gen |-> NoGen]
    /\ UNCHANGED <<registry, terminals, routing, events, at, gen, runtime, shut, history>>

\* expire_unclaimed_resumes: the decision, with the table mutex taken.  The
\* timeout has run out.
ExpireDecide(g) ==
    /\ life.at = "idle" /\ ~TableStopped
    /\ g = registry /\ g \in resumed
    /\ ~(SlotOf(g) /\ slot.state \in {"starting", "active"})
    /\ \A h \in Handlers : ~(sock[h].tracked /\ sock[h].auth /\ sock[h].reg = g)
    /\ life' = [at |-> "expire", gen |-> g]
    /\ UNCHANGED <<registry, terminals, routing, events, slot, at, gen, sock, runtime, shut, history>>

\* The removal, before the mutex is released.
ExpireRemove ==
    /\ life.at = "expire"
    /\ registry' = Without(life.gen)
    /\ IF registry = life.gen
       THEN /\ slot' = IF SlotOf(life.gen) THEN NoSlot ELSE slot
            /\ expired' = expired \cup {life.gen}
            /\ life' = [life EXCEPT !.at = "cancel"]
       ELSE /\ life' = [at |-> "idle", gen |-> NoGen]
            /\ UNCHANGED <<slot, expired>>
    /\ UNCHANGED <<terminals, routing, events, at, gen, sock, runtime, shut, cancelled>>

\* The sockets still waiting on the generation; TERMINAL_CLOSE, or closing
\* the stream, makes the terminal hang up.
ExpireCancel ==
    /\ life.at = "cancel"
    /\ sock' = InactiveClosed(life.gen)
    /\ cancelled' = cancelled \cup {life.gen}
    /\ hungUp' = hungUp \cup {life.gen}
    /\ life' = [at |-> "idle", gen |-> NoGen]
    /\ UNCHANGED <<registry, made, resumed, routing, events, slot, at, gen, runtime, shut, expired>>

----------------------------------------------------------------------------
(***************************************************************************)
(* A connection handler.                                                   *)
(***************************************************************************)
Goes(h, to) == at' = [at EXCEPT ![h] = to]

\* A handler that returns and leaves its entry in RawSockets.
EndsTracked(h) ==
    /\ Goes(h, "done")
    /\ gen' = [gen EXCEPT ![h] = NoGen]
    /\ shut' = shut \ {h}
    /\ UNCHANGED sock

\* The handler returns: its RawSocketGuard is dropped.
Ends(h) ==
    /\ Goes(h, "done")
    /\ sock' = [sock EXCEPT ![h] = Untracked]
    /\ gen' = [gen EXCEPT ![h] = NoGen]
    /\ shut' = shut \ {h}

shared == <<registry, terminals, routing, events, life, runtime, history>>

\* accept_ready
Accept(h) ==
    /\ at[h] = "idle" /\ listening
    /\ sock' = [sock EXCEPT ![h] = Tracked]
    /\ Goes(h, "get")
    /\ UNCHANGED <<shared, slot, gen, shut>>

\* handle: the registration, after the client's challenge was answered.
Lookup(h) ==
    /\ at[h] = "get"
    /\ IF registry = NoGen THEN Ends(h)
       ELSE /\ sock[h].open
            /\ gen' = [gen EXCEPT ![h] = registry]
            /\ Goes(h, "assign")
            /\ UNCHANGED <<sock, shut>>
    /\ UNCHANGED <<shared, slot>>

Assign(h) ==
    /\ at[h] = "assign"
    /\ sock' = Assigned(h, gen[h])
    /\ Goes(h, "check")
    /\ UNCHANGED <<shared, slot, gen, shut>>

\* A handler that does not look at the registry again.
CheckSkipped(h) ==
    /\ at[h] = "check"
    /\ Goes(h, "classify") /\ UNCHANGED sock
    /\ UNCHANGED <<shared, slot, gen, shut>>

\* The registration may have gone before the socket was assigned to it.
Check(h) ==
    /\ at[h] = "check"
    /\ IF registry = gen[h] THEN Goes(h, "classify") /\ UNCHANGED <<sock, gen, shut>> ELSE Ends(h)
    /\ UNCHANGED <<shared, slot>>

\* Returning, resumed or new client.
Classify(h) ==
    /\ at[h] = "classify" /\ TableFree
    /\ Goes(h, IF slot.state = "active" THEN "claimReturning"
               ELSE IF gen[h] \in resumed THEN "resume" ELSE "payload")
    /\ UNCHANGED <<shared, slot, gen, sock, shut>>

Proved(h) == sock' = [sock EXCEPT ![h].auth = TRUE]

\* handle_new: INITIAL_PAYLOAD decrypts.
Payload(h) ==
    /\ at[h] = "payload" /\ sock[h].open
    /\ Proved(h) /\ Goes(h, "claimNew")
    /\ UNCHANGED <<shared, slot, gen, shut>>

\* resume_pty_session: the decision is sent and the socket marked, ...
Resume(h) ==
    /\ at[h] = "resume" /\ sock[h].open
    /\ Proved(h) /\ Goes(h, "reset")
    /\ UNCHANGED <<shared, slot, gen, shut>>

\* ... then the client answers the reset.
ResetDone(h) ==
    /\ at[h] = "reset" /\ sock[h].open
    /\ Goes(h, "claimResumed")
    /\ UNCHANGED <<shared, slot, gen, sock, shut>>

(***************************************************************************)
(* SessionTable::claim                                                     *)
(***************************************************************************)
\* A claim that trusts the registration the handler read.
RefusedIfBusy(h) == \/ TableStopped
                    \/ slot.state = "starting" /\ slot.gen = gen[h]

Refused(h) ==
    \/ TableStopped
    \/ registry # gen[h]
    \/ slot.state = "starting" /\ slot.gen = gen[h]

IsReturning(h) == slot.state = "active" /\ slot.gen = gen[h]
Replaces(h) == slot.state \in {"starting", "active"} /\ slot.gen # gen[h]

Claiming(h, mode) == at[h] = mode /\ TableFree

ClaimRefused(h) ==
    /\ \E mode \in {"claimNew", "claimResumed", "claimReturning"} : Claiming(h, mode)
    /\ \/ Refused(h)
       \/ at[h] # "claimReturning" /\ IsReturning(h)
    /\ Ends(h)
    /\ UNCHANGED <<shared, slot>>

\* handle_new and resume_pty_session.  A claim that replaced another
\* generation's connection is undone; only handle_new shuts that one down.
ClaimStart(h) ==
    /\ \E mode \in {"claimNew", "claimResumed"} : Claiming(h, mode)
    /\ ~Refused(h) /\ ~IsReturning(h)
    /\ slot' = Starting(gen[h], h)
    /\ Goes(h, IF Replaces(h) THEN "unwind" ELSE "own")
    /\ IF Replaces(h) /\ at[h] = "claimNew"
       THEN sock' = ClosedBy(slot) /\ shut' = ShutBy(slot)
       ELSE UNCHANGED <<sock, shut>>
    /\ UNCHANGED <<shared, gen>>

\* handle: the active session changed since Classify; roll back, and let the
\* client try again.
ClaimChanged(h) ==
    /\ Claiming(h, "claimReturning")
    /\ ~Refused(h) /\ ~IsReturning(h)
    /\ slot' = Starting(gen[h], h)
    /\ Goes(h, "unwind")
    /\ UNCHANGED <<shared, gen, sock, shut>>

\* handle: the session's recover permit is taken, or it is busy or the session
\* torn down.
ClaimReturning(h) ==
    /\ Claiming(h, "claimReturning")
    /\ ~Refused(h) /\ IsReturning(h)
    /\ \/ /\ slot.owner \notin shut /\ at[slot.owner] # "done"
          /\ Goes(h, "protect") /\ UNCHANGED <<sock, gen, shut>>
       \/ Ends(h)
    /\ UNCHANGED <<shared, slot>>

----------------------------------------------------------------------------
(***************************************************************************)
(* The session a claim starts, and the one a returning client recovers.    *)
(***************************************************************************)
OwnSession(h) ==
    /\ at[h] \in {"own", "protect"}
    /\ sock' = [sock EXCEPT ![h].owner = TRUE]
    /\ Goes(h, IF at[h] = "own" THEN "init" ELSE "recover")
    /\ UNCHANGED <<shared, slot, gen, shut>>

\* handle_new: the terminal's stream is cloned, TERMINAL_INIT written, its
\* startup awaited and the client answered: all of it needs the registration.
InitTerminal(h) ==
    /\ at[h] = "init" /\ gen[h] \notin resumed
    /\ registry = gen[h] /\ sock[h].open
    /\ Goes(h, "activate")
    /\ UNCHANGED <<shared, slot, gen, sock, shut>>

\* resume_pty_session: the stream is cloned; terminal and client are past
\* their handshakes.
ResumeTerminal(h) ==
    /\ at[h] = "init" /\ gen[h] \in resumed
    /\ registry = gen[h]
    /\ Goes(h, "activate")
    /\ UNCHANGED <<shared, slot, gen, sock, shut>>

\* A start that is dropped and leaves its slot behind.
Kept(h) == slot

\* SessionStart::drop
RolledBack(h) ==
    IF slot.state = "starting" /\ slot.gen = gen[h] THEN Registered(gen[h]) ELSE slot

Holding == {"own", "init", "activate", "unwind"}

\* Any step of the start fails, or the claim must be undone.
StartFails(h) ==
    /\ at[h] \in Holding /\ TableFree
    /\ slot' = RolledBack(h)
    /\ Ends(h)
    /\ UNCHANGED shared

\* SessionStart::activate; when it is refused, StartFails drops the start.
Activate(h) ==
    /\ at[h] = "activate" /\ TableFree
    /\ ~TableStopped /\ slot.state = "starting" /\ slot.gen = gen[h]
    /\ slot' = Active(gen[h], h)
    /\ Goes(h, "forwarder")
    /\ UNCHANGED <<shared, gen, sock, shut>>

\* The forwarder runs (handle_new started it before) and so does the bridge.
BridgeRuns(h) ==
    /\ at[h] = "forwarder"
    /\ Goes(h, "bridge")
    /\ UNCHANGED <<shared, slot, gen, sock, shut>>

\* Forwarder::start fails, for a resumed terminal or a jumphost: the session
\* is shut down, and stays in its slot until its terminal goes.
ForwarderFails(h) ==
    /\ at[h] = "forwarder"
    /\ Ends(h)
    /\ UNCHANGED <<shared, slot>>

\* permit.complete: the session has a new transport, and the handler returns.
Recover(h) ==
    /\ at[h] = "recover" /\ sock[h].open
    /\ Ends(h)
    /\ UNCHANGED <<shared, slot>>

\* The bridge returns: its terminal closed, the session was shut down, or it
\* failed.  finish_terminal is in ServerSession.
BridgeEnds(h) ==
    /\ at[h] = "bridge"
    /\ Goes(h, "retire")
    /\ UNCHANGED <<shared, slot, gen, sock, shut>>

\* retire_ended_terminal: the registration, the raw sockets, then the slot.
RetireRegistration(h) ==
    /\ at[h] = "retire"
    /\ registry' = Without(gen[h])
    /\ Goes(h, "retireSockets")
    /\ UNCHANGED <<terminals, routing, events, life, runtime, history, slot, gen, sock, shut>>

RetireSockets(h) ==
    /\ at[h] = "retireSockets"
    /\ sock' = InactiveClosed(gen[h])
    /\ cancelled' = cancelled \cup {gen[h]}
    /\ Goes(h, "retireSlot")
    /\ UNCHANGED <<registry, terminals, routing, events, life, runtime, expired, slot, gen, shut>>

RetireSlot(h) ==
    /\ at[h] = "retireSlot" /\ TableFree
    /\ slot' = IF SlotOf(gen[h]) THEN NoSlot ELSE slot
    /\ Goes(h, "track")
    /\ UNCHANGED <<shared, gen, sock, shut>>

\* await_client_close: the session's transport is tracked, ...
TrackEnded(h) ==
    /\ at[h] = "track"
    /\ sock' = [sock EXCEPT ![h] = Tracked]
    /\ Goes(h, "look")
    /\ UNCHANGED <<shared, slot, gen, shut>>

\* ... and awaited unless the runtime is shutting down.
AwaitClient(h) ==
    /\ at[h] = "look"
    /\ IF Stopping THEN Ends(h) ELSE Goes(h, "await") /\ UNCHANGED <<sock, gen, shut>>
    /\ UNCHANGED <<shared, slot>>

\* Where a handler waits for its client.
ClientWaits == {"get", "payload", "resume", "reset", "recover", "await"}

\* The client closes, answers wrongly or is too late, or the server closed
\* the socket.
GivesUp(h) ==
    /\ at[h] \in ClientWaits
    /\ Ends(h)
    /\ UNCHANGED <<shared, slot>>

----------------------------------------------------------------------------
(***************************************************************************)
(* Runtime::shutdown                                                       *)
(***************************************************************************)
threads == <<terminals, at, gen, history>>

StopFlag ==
    /\ stop = "run"
    /\ stop' = "flag"
    /\ UNCHANGED <<registry, threads, routing, events, life, slot, sock, listening, taken, shut>>

\* The control thread sees the flag and drops its listeners.
StopAccepting ==
    /\ Stopping /\ listening
    /\ listening' = FALSE
    /\ UNCHANGED <<registry, threads, routing, events, life, slot, sock, stop, taken, shut>>

\* begin_shutdown
StopTable ==
    /\ stop = "flag" /\ TableFree
    /\ taken' = slot /\ slot' = NoSlot
    /\ stop' = "table"
    /\ UNCHANGED <<registry, threads, routing, events, life, sock, listening, shut>>

\* The raw sockets are shut down, then what the table held.
StopConnections ==
    /\ stop = "table"
    /\ sock' = AllClosed
    /\ shut' = ShutBy(taken) /\ taken' = NoSlot
    /\ stop' = "closed"
    /\ UNCHANGED <<registry, threads, routing, events, life, slot, listening>>

\* The router is stopped and the registry cleared.
StopRouter ==
    /\ stop = "closed" /\ router = NoGen
    /\ watched' = {} /\ registry' = NoGen
    /\ stop' = "cleared"
    /\ UNCHANGED <<threads, router, events, life, slot, sock, listening, taken, shut>>

\* The control thread ends once it has applied every event before Shutdown.
StopControl ==
    /\ stop = "cleared" /\ ~listening /\ events = <<>> /\ life.at = "idle"
    /\ stop' = "joined"
    /\ UNCHANGED <<registry, threads, routing, events, life, slot, sock, listening, taken, shut>>

\* A shutdown that trusts the first pass over the sockets.
StopSocketsOnce ==
    /\ stop = "joined"
    /\ stop' = "join"
    /\ UNCHANGED <<registry, threads, routing, events, life, slot, sock, listening, taken, shut>>

StopSocketsAgain ==
    /\ stop = "joined"
    /\ sock' = AllClosed
    /\ stop' = "join"
    /\ UNCHANGED <<registry, threads, routing, events, life, slot, listening, taken, shut>>

\* join_handlers
StopHandlers ==
    /\ stop = "join"
    /\ \A h \in Handlers : at[h] \in {"idle", "done"}
    /\ stop' = "end"
    /\ UNCHANGED <<registry, threads, routing, events, life, slot, sock, listening, taken, shut>>

----------------------------------------------------------------------------
RouterNext == \/ Register \/ WatchRegistered \/ RollbackRegistration
              \/ \E g \in Gens : DisconnectWatched(g)

LifeNext == \/ LifeTake \/ LifeScan \/ LifeRemove
            \/ ExpireRemove \/ ExpireCancel
            \/ \E g \in Gens : ExpireDecide(g)

HandlerNext(h) ==
    \/ Accept(h) \/ Lookup(h) \/ Assign(h) \/ Check(h) \/ Classify(h)
    \/ Payload(h) \/ Resume(h) \/ ResetDone(h)
    \/ ClaimRefused(h) \/ ClaimStart(h) \/ ClaimChanged(h) \/ ClaimReturning(h)
    \/ OwnSession(h) \/ InitTerminal(h) \/ ResumeTerminal(h) \/ StartFails(h)
    \/ Activate(h) \/ BridgeRuns(h) \/ ForwarderFails(h) \/ Recover(h) \/ BridgeEnds(h)
    \/ RetireRegistration(h) \/ RetireSockets(h) \/ RetireSlot(h)
    \/ TrackEnded(h) \/ AwaitClient(h) \/ GivesUp(h)

StopNext == \/ StopFlag \/ StopAccepting \/ StopTable \/ StopConnections
            \/ StopRouter \/ StopControl \/ StopSocketsAgain \/ StopHandlers

Next == \/ RouterNext \/ LifeNext \/ StopNext
        \/ \E g \in Gens : HangUp(g)
        \/ \E h \in Handlers : HandlerNext(h)

Spec == Init /\ [][Next]_vars

----------------------------------------------------------------------------
(***************************************************************************)
(* Properties                                                              *)
(***************************************************************************)
Places == {"idle", "get", "assign", "check", "classify", "payload", "resume", "reset",
           "claimNew", "claimResumed", "claimReturning", "own", "protect", "init",
           "activate", "unwind", "forwarder", "recover", "bridge", "retire", "retireSockets",
           "retireSlot", "track", "look", "await", "done"}

\* Every variable has its type; only a starting or active slot names the
\* handler it belongs to (Slot), and RawSockets has an entry for exactly the
\* handlers that run: the guard is dropped on every way out (TrackedSocket).
TypeOK ==
    /\ registry \in 0..made /\ made \in 0..MaxGen
    /\ resumed \subseteq 1..made /\ hungUp \subseteq 1..made
    /\ router \in 0..made /\ watched \subseteq 1..made /\ events \in Seq(Gens)
    /\ life \in [at : {"idle", "scan", "remove", "expire", "cancel"}, gen : 0..made]
    /\ \A s \in {slot, taken} :
          \/ s \in {NoSlot} \cup {Registered(g) : g \in Gens}
          \/ \E g \in Gens, h \in Handlers : s \in {Starting(g, h), Active(g, h)}
    /\ at \in [Handlers -> Places] /\ gen \in [Handlers -> 0..made]
    /\ sock \in [Handlers -> [tracked : BOOLEAN, reg : 0..made, auth : BOOLEAN,
                              owner : BOOLEAN, open : BOOLEAN]]
    /\ \A h \in Handlers : sock[h].tracked <=> at[h] \notin {"idle", "done"}
    /\ stop \in {"run", "flag", "table", "closed", "cleared", "joined", "join", "end"}
    /\ listening \in BOOLEAN /\ shut \subseteq Handlers
    /\ cancelled \subseteq Gens /\ expired \subseteq Gens

\* A slot in Starting belongs to a handler that still holds its SessionStart,
\* so StartingBusy ends when that handler activates or drops it.  (claim,
\* activate and drop compare generations, not owners: session_slot.rs.)
StartingIsOwned ==
    slot.state = "starting" =>
        /\ gen[slot.owner] = slot.gen
        /\ at[slot.owner] \in Holding

Serving == Holding \cup {"forwarder", "bridge", "retire", "retireSockets", "retireSlot"}

\* No two handlers start or run a session on one terminal generation, though
\* slots are removed and replaced while their handlers still run (claim
\* checks the registry; every removal of a slot follows the removal of its
\* registration).
OneSessionPerTerminal ==
    \A h, k \in Handlers :
        h # k /\ at[h] \in Serving /\ at[k] \in Serving => gen[h] # gen[k]

\* Once the sockets of an ended terminal were shut down, no handler that
\* passed its check of the registry waits for a client of that terminal on an
\* open socket: assign-then-check against remove-then-scan
\* (runtime_handler.rs, terminal_disconnected, retire_ended_terminal).
WaitersCancelled ==
    \A h \in Handlers :
        at[h] \in {"classify", "payload", "resume", "reset"} /\ gen[h] \in cancelled
            => ~sock[h].open

\* The sweep never closes a terminal under a client that holds or gets its
\* session (expire_unclaimed_resumes keeps the table mutex).
ExpirySparesClients ==
    \A h \in Handlers : at[h] \in Serving => gen[h] \notin expired

\* A starting or active session whose terminal is still registered keeps its
\* slot: nothing that concerns an older generation takes it away
\* (remove_registration_with, claim, SessionStart::drop).
LiveSlotKept ==
    [][slot.state \in {"starting", "active"} /\ slot.gen = registry /\ ~TableStopped'
          => slot'.gen = slot.gen]_vars

\* A session that runs can be reached: it is in its slot, or with the shutdown
\* that took it from there, or was shut down, or its terminal has hung up and
\* it ends by itself.  A claim that replaces a session of another generation
\* and is rolled back without shutting that one down (handle,
\* resume_pty_session) therefore leaves none running for a live terminal.
SessionsReachable ==
    \A h \in Handlers : at[h] \in {"forwarder", "bridge"} =>
        \/ Active(gen[h], h) \in {slot, taken}
        \/ h \in shut
        \/ gen[h] \in hungUp

\* When Runtime::shutdown joins its handlers, none of them waits for a
\* client on an open socket or bridges a live terminal with a session nobody
\* shut down, whatever was accepted, claimed, replaced or recovered meanwhile.
ShutdownReachesEveryone ==
    stop = "join" => \A h \in Handlers :
        /\ at[h] \in ClientWaits => ~sock[h].open
        /\ at[h] \in {"forwarder", "bridge"} => h \in shut \/ gen[h] \in hungUp
=============================================================================
