# A TLA+ development of et.rs

et.rs is an Eternal Terminal: a remote shell whose session outlives its TCP
connections. This directory specifies the parts of it that make that true, has
TLC check them on small instances, and proves with TLAPS what holds for
every size. Line numbers refer to files under `src/crates/`.

## 1. The system and its parts

| Part | State | Operations | What makes it hard |
|---|---|---|---|
| Replay buffer, `et-core/backed_writer.rs` | backup deque, sequence, acknowledged, disconnect counters | reserve, commit, acknowledge, recover, revive, invalidate, reset | six caps that interact; two trims with different rights |
| Receiver, `et-core/backed_reader.rs` | sequence, replayed packets, partial frame | pop, pop_live, revive, unread, reset | replayed and live packets in one order |
| Connection, `et-net/connection*.rs` | writer, reader, transport | write, read, disconnect, recovery exchange, reset | a transport breaks anywhere in the exchange |
| Acknowledgements, `et-core/keepalive.rs` | last acknowledged | ack on keep-alives | an old one must not release a packet still needed |
| Server session, `et-server/session*.rs` | connection, `recovering`, `torn_down`, `recover_hold`, `write_serial` | recover, send_packet, finish_terminal, shutdown, retire | five threads, seven locks |
| Output queue, `et-server/session_flow*.rs` | queue, in_flight, paused, stop mode | stage, take, complete, pause, resume, stop | pause against a write that has begun |
| Admission, `et-server/{registry,router_loop,session_table,session_slot,runtime*}.rs` | registrations, slots, raw sockets | register, claim, activate, roll back, hang up, expire, shut down | check in one lock, act in another |
| Terminal bridge, `et-server/terminal_bridge.rs` | staged output, client generation | read, write, end | it uses a transport a handler is replacing |
| Output window, `et-core/{output_window,flow_control}.rs`, `et-bin/delivery_gate.rs` | window, marks, lanes | write, acknowledge, release | a window that never opens again |
| Port forwarding, `et-net/forward*.rs` | listeners, sockets, queues | open, data, close on both ends | half-close, full queues on both sides |
| Client loop, `et-bin/client*.rs`, `reconnect.rs`, `keepalive_clock.rs` | pending write, input, output | read, write, reconnect, end | input typed while reconnecting |
| Local session, `et-bin/local_*.rs`, `session_store.rs` | attached clients, stored sessions | attach, detach, take over | two clients at once, stale files |
| Terminal process, `et-bin/terminal*.rs` | pty, router socket | register, re-register, relay | the router goes away under a live pty |
| HTM, `et-htm` | tree of tabs, splits, panes | create, split, close | closing the last child of a split |
| Bootstrap, configuration, crypto, agents, daemons | — | parsing, process start, ciphers | sequential; left to unit tests |

A client writes through its `Connection`; the server's handler thread accepts
the transport, finds the session through registry and session table, and either
starts a session (`handle_new`) or hands the transport to the running one
(`recover`). The bridge thread moves bytes between the session and the
terminal process, through the output queue. Every packet either side writes is
logged in a replay buffer before it is sent; after a reconnect each
side asks the other to resume from the sequence it has read.

`PROJECT.json` lists all components with their sources, and the hazards with
the line where each bites.

## 2. Modules

### BackedWriter
One direction's replay buffer. A packet is its sequence number and length;
the deque is always `dropped+1..sequence`, so its content is one number,
and `offset` (cumulated wire bytes) gives its size. One action per method:
`ReserveWrite`, `CommitWrite`, `Acknowledge`, `Revive`, `Invalidate`, `Reset`.
The trimming loops are stated by what they reach (`PopsUntil`): every packet
popped met the condition and the first one kept does not.

### ReliableChannel, EternalStream
`ReliableChannel` is the promise: an append-only channel each way, handed over
once and in order. `EternalStream` is the client and the server over
transports `1..MaxTransports`; each may break at any time except the last. The
client notices, dials, exchanges sequence headers and catch-up, authenticates
and installs; the server does its half on a candidate copy of the
connection while the bridge goes on with the installed one, writes the first
keep-alive on the candidate, and installs it. A handler that meets a
recovery under way is turned away (`ServerBusy`), and the client retries. A
frame carries its nonce and decodes only at the reader's next sequence. Writing
and reading go through `Committed`, `Acknowledged`, `Catchup`, `Revived`,
which stand for the methods of the two buffers without the caps.

### ServerSession
One `ActiveSession` and its threads: the bridge with the output
pump, handlers that recover, a caller of `send_packet`, a caller of `shutdown`.
One step is one critical section. `write_serial` is a variable because it is
held across steps; the other mutexes are not. `RecoverPermit::drop` is the four
steps it is in the code: flush, clear `recovering`, flush, resume.

### SessionAdmission
One session id from registration to shutdown: generations of terminal
registrations, the router, the lifecycle worker with its queue of disconnect
events and its sweep of resumed terminals, two connection handlers on each of
their paths (new client, resumed terminal, returning client), and
`Runtime::shutdown`. One step is one critical section of the registry, session
table or raw-socket mutex.

### Forwarding
Both ends of port forwarding, `src` that accepts connections and `dst` that
opens them, each the engine a Unix session loop drives (`Engine` in
`forward_poll.rs`). An engine is one record: sockets with their queue, window
and credit, parked accepts, connects under way, held data and the two outbound
lanes. The code's methods are operators on that record; where the outcome
depends on the application or the kernel (how much a write takes, whether a
read has data) they give the set of outcomes. The actions are the calls the
loop makes: `Collect`, `Service`, `Receive`, `PopOutbound`, plus `Accept` and the
connector's answer. `wire` is one direction of the session with what the reading
loop has not handled yet, `Capacity` packets; that it is reliable and in order is
what EternalStream shows. Every chunk has the same size, so the limits in
bytes and in packets are one count; the drained-burst rule of `credit_due`, which
depends on sizes, is a free choice (`CreditMayBeDue`).

Operators marked *Faulty* (or described as a bug in a comment) are never used
by a specification. Each is a plausible mistake in the definition below it; put
in its place, it makes TLC report the property it is paired with in
`PROJECT.json`.

## 3. Runs

| Run | Instance | Result |
|---|---|---|
| `writer` | caps of 2 to 12 in the order of the real ones, packets of 1 and 3 bytes, 6 packets an epoch | pass, 12 246 states |
| `stream` | 2 data packets each way, 3 transports, fair | pass, 571 270 states |
| `session` | 2 handlers, 2 terminal and 2 control packets, 2 recoveries, 1 transport loss | pass, 2 306 706 states |
| `session_live` | 1 handler, 1+1 packets, 2 recoveries, fair | pass, 262 430 states |
| `admission` | 2 connections, 2 registrations | pass, 2 212 445 states |
| `forward` | 1 connection of each kind, queue 3, window 2, lane 3, failures, fair | pass, 44 281 states |
| `forward_two` | 2 connections, queue 2, window 1, lane 3, no failures | pass, 1 232 895 states |
| `stream_late_read`, `stream_failed_install`, `session_back_to_back`, `forward_held`, `forward_saturated` | as small as the trace needs | violated, see section 5 |

What the passing runs show:

* `writer`: a catch-up stays within the recovery cap (`RecoveryTotalBounded`),
  so does what is buffered while disconnected (`DisconnectBufferBounded`); the
  backlog is exactly what the peer has not acknowledged (`BacklogAccounted`);
  a packet the peer lacks is dropped only under a hard cap.
* `stream`: exactly-once, in-order delivery over every break
  (`InOrderExactlyOnce`); the writer never drops what the reader needs and
  the reader is never ahead (`SequencesAgree`); no sequence header is ever
  refused (`RecoveryServable`); live frames continue what was replayed
  (`WireContinuesReader`); the session refines `ReliableChannel`
  (`ImplementsChannel`) and delivers everything once a transport stays up
  (`EverythingDelivered`).
* `session`: one recovery at a time; terminal output is neither lost, repeated
  nor reordered; the snapshot a candidate was built from stays current but for
  one control packet already under way (`SnapshotStaysCurrent`); a stale
  transport error never drops a new transport; shutdown and retirement are
  final; a control packet is in one place (`SentOnce`), and one the hold has
  accepted is not dropped by a flush that fails half way (`HeldPacketsKept`).
  Output an interrupt discards (`observe_input`, `discard_drained_terminal`) is
  outside the model: `OutputKept` and `EndMeansDelivered` speak of the rest.
* `session_live`: recoveries give their permit back, and the final drain ends.
* `admission`: a slot in `Starting` always has a handler that will release it;
  one session per terminal; no connection is left waiting for a dead terminal;
  the sweep spares clients; events of an old registration leave the new slot
  alone; a session that is replaced or detached without being shut down is one
  whose terminal has hung up (`SessionsReachable`); shutdown reaches every handler.
* `forward`: what an application sent before it closed reaches the other
  unless something failed (`CloseDeliversAll`); credit is neither made nor lost
  (`CreditConserved`); a destination whose accept has expired is closed
  (`NoOrphanDestination`); when one end has gone the other goes
  (`EndsTogether`); a sender stopped by its window goes on
  (`ParkedSenderResumes`). The last two hold of one connection, whose window
  fits its lane and the wire. They are not promised beyond that: with more
  sockets both ends can saturate and stop, which is what `forward_saturated`
  shows, and then neither an end nor a credit gets through until the transport
  is replaced.
* `forward_two`: each application gets its peer's chunks in order (`InOrder`);
  between windowed peers no data is ever held back for want of a slot, SOCKS's
  first chunk, which the window does not count, included (`NothingHeld`). A peer
  that predates windows makes the engine hold data, which can then be overtaken:
  `forward_held`. No socket fails in this run; `forward` has the failures.

**Bounds.** Caps in `writer` are small enough that each is reached while
the others bind, and `MaxSequence` lets the backup turn over twice. Three
transports give two recoveries, the second of which can meet every intermediate
state of the first; two packets each way distinguish order from loss. Two
handlers are needed for one recovery to meet another. Two registrations are
needed for a stale generation to meet its successor. `Slack` is 0: every
acknowledged packet may go, the hardest case for recovery. In `forward` and
`forward_two` the window is one below the queue, as in the code (127 of 128), and
there are more chunks than a window, so senders stop and resume; the lane is small
enough to fill.

**Deadlock** is checked for `writer`. The others really stop: when the
last transport has delivered everything, when the session is over, when the
runtime has shut down, when every forwarded connection has ended.

**Fairness** is weak fairness of threads that have begun something: the
client's reconnect loop, the bridge's poll loop, the handler that holds the
permit, and handlers that are turned away. All their waits have deadlines
(`RECOVERY_LOCK_TIMEOUT`, the live-write and recovery deadlines, socket timeouts).
In `Forwarding` the session loops run (`Receive`, `PopOutbound`, and `Collect`
when a timer or held data is due), a connect ends (it has a timeout), and an
application takes the data queued for it; without the last a sender rightly
stays stopped. Otherwise nothing is assumed of the network, of new connections, of the terminal or of
callers; `EverythingDelivered` rests on the last transport not breaking.

**Assumed by the passing runs.** `OldTransportQuiet = TRUE` and `InstallMayFail =
FALSE` in `stream`, `BackToBack = FALSE` in `session` and `session_live`: the
three runs that turn one of them round are the findings of section 5.

## 4. Proofs

`BackedWriterProofs` proves, for every choice of caps, packet lengths and
`MaxSequence`, the five properties of the `writer` run and the inductive invariant
they rest on:

    IndInv == TypeOK, OffsetsGrow, ConnectedWithinCap, ReservationFits,
              and the three state properties

The properties are not inductive alone. `RecoveryTotalBounded` after a commit
needs to know that the packet was admitted against the current backup,
which is `ReservationFits`: between reserve and commit nothing enlarges the
backup. Going from connected to disconnected needs the hard cap to hold while
connected (`ConnectedWithinCap`). Sizes are differences of `offset`, so the trims
need it to grow (`OffsetsGrow`, lemmas `UptoNat`, `UptoAppend`, `TrimShrinks`).
There is one lemma per action, and `Invariance` combines them.
`YieldOnlyToHardCap` is the action property: `TrimYields` says each of the two
trims drops only what it may, `CommitYields` that their sequence does.

Assumptions on constants: lengths are positive, caps are naturals, and
`FitsAssumption`: one packet fits the disconnect buffer, and fits beside a
full hard cap within the recovery cap. The code's constants satisfy it for
packets up to 12 MiB less a MAC (76 MiB less 64 MiB). `reserve_write` does not
enforce it while connected; it holds because every packet the program
writes, terminal or forwarding, is at most 64 KiB.

Only model-checked: EternalStream, its refinement of ReliableChannel,
ServerSession, SessionAdmission, Forwarding. Liveness is out of TLAPS's reach and stays with
TLC.

## 5. Findings

* **A packet read after the snapshot is delivered twice**
  (`stream_late_read`). `recover_body` copies the reader and leaves the old
  transport in use until the install. A packet the bridge reads
  meanwhile is not counted in the sequence the server announces.
* **A failed install leaves the client ahead** (`stream_failed_install`). The
  keep-alive is written on the candidate before its install; if the
  install times out, the next recovery is refused as `AheadOfServer`.
* **One recovery's resume unpauses the next** (`session_back_to_back`).
  `RecoverPermit::drop` clears `recovering` before it resumes the queue.
* **Held data is overtaken** (`forward_held`). With a peer that predates
  windows, data that finds a socket's queue full is held; `Engine::receive`
  admits the next packet without retrying it first, so once the queue has
  drained the later chunk goes ahead. The comment on `admit_data` promises the
  opposite.
* **Two saturated ends wait on each other** (`forward_saturated`). Each stops
  handling packets while its outbound lane is full and stops reading once
  its backlog is; with bulk data both ways neither goes on until the write
  deadline replaces the transport. The comment in
  `client_terminal_loop.rs:448-453` rules this out. It takes several sockets,
  whose windows together exceed lanes, backlog and socket buffers.

Observations without a run. `BackedWriter::revive` trims by bytes only, so many
quick reconnects with small packets can leave more entries than
`validate_catchup_encoding` accepts. Data held for a socket without a window is
dropped when a close or half-close for it arrives. The comment in
`runtime_lifecycle.rs:173-175` says the sockets of returning clients are
cancelled too; the code (and `runtime_recovery_test.rs`) protects them. And
`flush_recover_hold` drops its batch when `write_serial` is not free in time.
A control packet whose sender let go of the connection, to finish a partial
frame or to look at the hold, can be written after a recovery's snapshot; the
install then replaces the log that has it, though `send_packet` returned `Ok`.
A resumed or jumphost session whose `Forwarder::start` fails after `activate` is
shut down but left in its slot, which refuses returning clients until the
terminal goes.

## 6. Not modelled, and the plan

Of the parts modelled: the reset handshake (`establish_reset`), socket-byte
framing inside `BackedReader`, durations, the Windows-only bridge queue and its
returned packets, the fatal full replay buffer in `ServerSession`, several
ids, the pre-authentication limit and the retry-later grace; in `Forwarding` the
worker thread before the session takes it over, teardown, changes to the
listeners, agent binds, `-W` stdio, the removal of a socket for a chunk over
`MAX_DATA_PACKET` (no et.rs peer sends one) and the Windows threads.

Next, in order:

1. **OutputFlow**: `OutputWindow`, `FlowControl` lanes, `DeliveryGate` and the
   acknowledgement schedule. Abstract spec: output held is eventually released;
   the run is fair. Proof: bytes outstanding never exceed the window by
   more than a packet.
2. **ForwardHandover**: the worker thread with its spill, wake bytes and
   `take_over`. Properties: no packet lost or reordered by the handover, no
   wake-up missed, the worker never blocked on a channel only the session drains.
3. **ClientLoop** and **LocalSession**: input kept over a reconnect, one
   owner of the console, takeover. **TerminalProcess**: re-registration,
   composed with SessionAdmission.
4. **HtmLayout**: the pane tree as pure operators over bounded inputs.
5. **Proofs**: `SingleFlight`, `SentOnce` and `ShutdownIsFinal` of
   ServerSession; `StartingIsOwned` and `OneSessionPerTerminal` of
   SessionAdmission; `SequencesAgree` of EternalStream, and from it the
   refinement of ReliableChannel.

Left to unit tests: parsing, process start-up, ciphers, platform calls.
