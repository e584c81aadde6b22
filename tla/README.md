# A TLA+ verification of the Exodus Ops Platform

The Exodus Ops Platform (EOP) is a TCP server in C++ that keeps a registry of
nodes, and a client library in C. This directory holds TLA+ models of both,
the TLC runs that check them on small instances, and TLAPS proofs of the
properties that matter most. Paths below are relative to
`src/sd-2026-404-motivation-lost-development/`.

## The system

| Part | Source | What it does |
|---|---|---|
| main, signals | `src/app/main.cpp` | builds the parts, waits for SIGINT/SIGTERM, shuts down; reports fatal signals |
| SocketAcceptor | `src/socketAcceptor.cpp` | accept thread, capacity limit, rejection |
| WorkQueue | `src/workQueue.cpp` | mutex and condition variable queue of accepted sockets |
| ThreadPool | `src/threadPool.cpp` | worker threads, welcome frame, shutdown and watchdog |
| ConnectionWorker | `src/connectionWorker.cpp` | one connection: receive, dispatch, teardown |
| Register-, Query-, HeartbeatHandler | `src/*Handler.cpp` | one message each, on the registry |
| NodeRegistry | `src/nodeRegistry.cpp` | map of node entries under a reader-writer lock |
| HeartbeatMonitor | `src/heartbeatMonitor.cpp` | periodic scan for silent nodes (class only: `main()` never creates one) |
| MessageSerializer | `src/messageSerializer.cpp` | frames, readFrame, sendAll |
| OtelScope, BatchExporter | `src/otelScope.cpp` | spans per thread, background export |
| SessionManager, ServerConfig, Logger, PrometheusMetrics | `src/` | ids, environment, log lines, counters |
| Client library | `client/src/eop_client.c`, `eop_envelope.c` | a handle shared by threads |
| Client programs | `client/examples/*.c`, `tests/integration/eop_reconnect_probe.c` | use the library against the server |
| Banner, containers, dashboards | `src/exodusBanner.cpp`, `k8s`, `monitoring` | no logic of the server |

How they interact: the accept thread counts a connection (`activeConnections`)
and enqueues its descriptor. A worker dequeues it, sends the welcome and runs
`handleConnection` until the connection ends. The handlers read and write the
registry, the only data two workers share apart from the log, the ids and the
metrics. At the end the worker marks its active node OFFLINE, closes the
descriptor and gives the slot back. At a signal, `main` stops the acceptor, then
the pool's destructor stops the queue, arms the watchdog and joins the workers.

## The modules

| Module | Models | State and actions |
|---|---|---|
| `NodeRegistry` | the registry | operators on the map `m_entries`; each method runs under `m_mutex`, so each is atomic |
| `ConnectionWorker` | `handleConnection` and the handlers in every worker | `pc`, `activeNodeId`, `reply`, `errno`, `reason` per worker, the shared `m_entries`; one action per dispatch branch, per receive outcome, for a welcome that cannot be sent and for the teardown |
| `WorkQueue` | the queue's operations | `m_queue`, `m_stopped`, the `waiting` threads, the open descriptors; a critical section is one action, a notification after the unlock another |
| `WorkQueueThreads` | the queue under several producers and consumers and a stopping thread | program counters of the threads |
| `HandoffQueue` | what the queue promises (abstract) | each socket goes to one consumer in order, or is discarded after shut |
| `ServerLifecycle` | main, acceptor, pool, `TeardownGuard`, `activeConnections`, watchdog; extends `WorkQueue` | program counters of main, the accept thread and the workers; descriptor numbers that the kernel reuses |
| `HeartbeatMonitor` | the monitor, with sessions and a clock around it; extends `NodeRegistry` | `mpc`, `stale`, `timer`, `m_stop`, `now` |
| `EopClient` | the client library with the server's end of the connection | `mutex`, `next_msg_id`, `last_error`, the byte streams as sequences of frame parts |
| `FrameCodec` | `buildFrame`, `readFrame`, `readExact`, `sendAll` and the client's encoder, decoder and receive loops | one direction of a connection as bytes: `out`, `wire`, the reader's part `rd`; a send or receive of any size is one action |
| `ClientPrograms` | `connect_basic`, `eop_demo` and the reconnection probe composed with the server; extends `NodeRegistry` | `pc` of each program, its connections as two queues of whole frames, the server's backlog, work queue and registry; crash and restart |
| `WorkerServices` | Logger, standard output, SessionManager, PrometheusMetrics, ServerConfig and the crash handler under main and the workers | `saying` (a thread's log call), `m_mutex`, `buf`, `file`, both counters, `counters`, `histograms`, `config` |
| `OtelScope` | scopes and the exporter | scope stack per thread, `m_pending`, `batch`, the flusher and the destructor |
| `*Proofs`, `SequenceLemmas` | theorems and the lemmas they share | see below |
| `MC*` | model values, a symmetry set, small ranges | used with the `.cfg` files |

Operators called *Faulty variant* are definitions with a plausible bug in them.
They are used by no action: put in the place of the definition that follows
them, they make the property they are listed with in `PROJECT.json` fail.

What is abstracted: a payload is a node id and a flag that says whether it
passes validation; metadata is one opaque value; a random id is distinct from
all others; a log line is its event and its session. `EopClient` sees a frame as
its three parts and `ClientPrograms` as one message; `FrameCodec` justifies that,
because it shows that the bytes of a frame come out as the frame that went in.

The modules cut the system along what its parts share. `ServerLifecycle` and
`ConnectionWorker` share no state but the connection itself (descriptor and slot
in one, registry in the other): a step of one is a stuttering step of the other.
`WorkerServices` has the state that neither of them reads. `ClientPrograms` puts
both ends together again at the level of whole calls and frames. A session's
registry call and the answer it sends are one step there, since an answer under
way is seen by its own client only; `ConnectionWorker` has them apart.

## What the runs check

Runs that pass (state counts are distinct states):

| Run | Instance | Shows |
|---|---|---|
| `connection_worker` | 2 workers, 2 nodes, 2.5 M states | an ONLINE node is tracked by a session; an acknowledged node is visible; entries are not removed or replaced; a session is reported abrupt only for a reset of its own, or of an earlier session of its thread when a bad frame length ends it |
| `work_queue` | 2 producers, 2 consumers, 3 sockets, 7 k states | no lost wakeup; `stop` closes what is pending and releases consumers; refinement of `HandoffQueue` with its liveness |
| `server_lifecycle` | 2 workers, 4 descriptors, limit 3, 57 k states | descriptor ownership, exact counter, capacity; a signal ends the process; the idle timeout gives workers back to queued connections |
| `heartbeat_monitor` | 1 node, interval 2, latency 1, 11 ticks, 325 k states | silence is detected within 3 intervals + 3 latencies (the bound is tight); only silent nodes, or nodes in contact since the scan, are marked; `stop()` returns |
| `client` | 2 threads, 3 calls, ids mod 3, 810 k states | calls in step get their own answer; the stream is accounted for; a failed call's thread is told its own reason, unless another thread's call ended in between; the mutex is given back |
| `client_programs` | 2 clients, 2 nodes, pool 2, 1 crash, 291 k states | programs that drain the welcome stay in step; EXIT_SUCCESS of `connect_basic` means a registered node; every program exits; every session is torn down and its node OFFLINE |
| `frame_codec` | 2 messages, base 4, 2-byte words, limit 2, 116 k states | both codecs agree in both directions under any split of the bytes; the limit is exact, wrapped lengths included; `eop_envelope_deserialize` inverts `serialize` and refuses cut buffers |
| `worker_services` | pool of 1 or 2, 2 sessions, 2 frames, 554 k states | the pool size is in range for every environment; lines are whole; a session's lines are in order and its id is its own; log and metrics agree after a clean exit; a crash is reported and ends the process |
| `tracing` | 2 threads, 4 spans, batch 2, 496 k states | spans conserved, one trace per session, flushed at exit; every span is posted, the destructor returns |

Runs that show a disagreement between the code and what the repository says of
it; TLC's counterexample is the scenario:

| Run | Text | Code |
|---|---|---|
| `register_duplicate` | `activeNodeId` is "updated on successful REGISTER" (connectionWorker.cpp:47) | updated by every REGISTER; a refused session takes the node OFFLINE |
| `monitor_fresh_node` | "one missed heartbeat tolerated" (heartbeatMonitor.hpp:17) | a fresh node is marked by the next scan |
| `reconnect_probe` | exit 0: "Full reconnect-and-reregister cycle succeeded." (eop_reconnect_probe.c:21) | the welcome ACK is taken for REGISTER's; the server may have answered ERR_DUPLICATE, since the old session is still ONLINE |

More disagreements show in how a property had to be stated, or in the model,
and have no run of their own:

* A second REGISTER replaces `activeNodeId`, so the first node stays ONLINE after
  the disconnect (eopClientLifecycleTest.cpp:5-7 expects it OFFLINE). It is the
  exception `overwritten` in `OnlineNodeHasSession`, `displaced` in `TornDown`.
* A bad frame length sets no errno, so the errno an earlier session left in the
  thread decides the reported reason; connectionWorker.cpp:144 says that
  ECONNRESET means the peer was killed. It is the second disjunct of
  `AbruptFollowsReset`, which also says when it cannot happen: after any other
  failed call of the thread, and for any other end of the session.
* A client that goes on sending keeps its worker, so with more clients than
  threads a queued one can wait for ever, where ADR-002:12 says "without blocking
  other connected clients". `SilentClientsFreeWorkers` needs its premise.
* The first command on a connection is given the welcome frame, and after a
  timeout each command the answer of an earlier one; eop_client.h:67 says
  "Message ID echoed from the request". `AnsweredInStep` excludes the
  commands sent while a frame is outstanding (`lag`), `InStep` the connections
  with a timeout (`late`).
* `last_error` is replaced by another thread's call before the thread whose
  call failed reads it; eop_client.h:178 says "On failure, call eop_last_error()
  to retrieve the reason". It is the value `overwritten` in
  `ReasonLostOnlyToOthers`.
* The monitor marks nodes whose heartbeat came after its copy
  (heartbeatMonitor.hpp:15-17 speaks of `last_seen_at` only). It is the second
  disjunct of `OnlySilentNodesMarked`.
* Silence is detected after up to three intervals, not "within 2× heartbeat
  interval" (ADR-004:35): the bound in `SilenceIsDetected`.
* "shutdown_complete — all resources released" (main.cpp:164) is logged before
  the pool is stopped: the order of `main`'s steps in `ServerLifecycle` and
  `WorkerServices`. Frames handled after it are counted when `/metrics` is down.
* A failed POST drops its batch, where ADR-004:79 says that "spans are buffered
  locally": `httpPost` in `OtelScope` moves it to `lost`.
* "Every log line is a JSON object" (logger.hpp:11) does not hold of a crash: the
  crash text may land inside a line whose other half is still in the buffer.
  `LogWellFormed` speaks of what the Logger wrote. The watchdog's `_Exit` drops
  buffered lines, so `CleanExitComplete` is about the other exit.

One text is contradicted the other way: ADR-015 (line 86) says that
`eop_reconnect` "will deadlock" when another thread is blocked in
`eop_send_command`. `MutexReleased` shows that it waits for a timeout.

### Bounds

Two workers are enough for every race over one registry entry, since a step
touches one entry and no step looks at two other sessions; two node ids are
needed for a session that changes its node. The queue needs two threads of each
kind to let one steal the other's wakeup, and three sockets so that one is left.
In `server_lifecycle` there is one descriptor more than the limit (the one
being rejected), and one client more than threads, so that connections queue.
The clock runs for 11 ticks, more than the bound of 3·2 + 3·1 = 9 after a start
at any of the first instants; `MaxTime`, `MaxCalls`, `Spans` and `IdMod` are
bounds of the model only. `CounterMax` stands for 2^32-1, `IdMod` for 2^32; with
`IdMod` 3 the ids wrap within the calls allowed. The clock stops at `MaxTime`,
which is why the monitor's guard is checked as an invariant and not as a
liveness property.

In `client_programs` both clients register the same node, and one may reconnect
once: three connections compete for two slots, so that one is rejected; one
crash can fall anywhere. `MaxCommands` bounds the menu choices, and the
heartbeats a probe waits for. In `frame_codec` a word has two bytes of base 4,
so a word is below 16 and an envelope 6 bytes; the payloads are empty, of the
limit's length, one longer, and one whose frame length wraps to zero; the socket
buffer holds less than a frame. In `worker_services` a line has three pieces and
the buffer four, so that blocks end at every place of a line; the message
counter wraps at the second session; the environment takes every value up to one
beyond the range.

`OtelScope`, `ClientPrograms`, `FrameCodec` and `WorkerServices` may stop (spans
used, programs over, messages read, process ended), so their runs do not check
for deadlock; every other run does. Only `connection_worker` uses symmetry
(workers and nodes are interchangeable); the other runs check liveness, where it
is not sound.

### Fairness

* `ConnectionWorker`: none; its properties are safety properties.
* `WorkQueueThreads`: a call that has begun goes on. Nobody has to enqueue or
  to stop, and no spurious wakeup has to come.
* `ServerLifecycle`: each thread's own steps. `accept` is fair only once the
  socket is shut down. `EndConnection` is weakly fair because of the idle
  timeout, so a client that keeps sending escapes it. Sending the welcome is
  fair because it fits an empty socket buffer. `AnswerFrame` is not fair:
  `send` blocks while the client does not read.
* `HeartbeatMonitor`: the monitor and the caller of `stop()`; not the clock.
* `EopClient`: the steps behind a `poll` with a timeout; not `send`.
* `ClientPrograms`: some process or thread goes on while one can (every loop is
  bounded, so none has to be favoured); crashes are not fair. The user of a demo
  goes on or leaves.
* `FrameCodec`: the send and receive loops, while the kernel lets them; timeouts,
  `close` and resets are not fair.
* `WorkerServices`: the crash handler only.
* `OtelScope`: the flusher (its wait and its POST have timeouts) and a
  destructor that has begun; not the workers.

## What is proved

TLAPS checks these for all values of the constants. `SequenceLemmas` says how
a stream and its elements change under `Append` and `Tail` and that they stay
distinct; the other modules cite it. The same for the front of a sequence and
`\o` is in `OtelScopeProofs`, and how many elements are of a kind in
`EopClientProofs`, which alone use it. Three modules begin with `USE Zenon`: most
of their steps are first-order logic, and those that need arithmetic, records or
sequences cite `SMT`. What `registerNode`, `setOffline` and `updateLastSeen` do to a
well-typed map is a few lemmas at the place of use.

`TypeOK` of the first five modules below, `SingleRegistrant`,
`AcceptorJoinedBeforeQueueStops` and `OneInside` are proved only: no run repeats
them.

`ConnectionWorkerProofs`, from `RegistryAssumption` and `WorkerAssumption`
(the empty id is not a node id, and so on):

* `TypeCorrect`: `TypeOK` is inductive.
* `RegisteredIsVisible`: with `TypeOK` the invariant is inductive: a successful
  REGISTER needs a node that is absent or OFFLINE, so no other session holds it,
  and whoever sets a node OFFLINE revokes every claim to it.
* `OneRegistrant`: a consequence, since an entry has one `meta`.
* `OnlineIsTracked`: inductive with `TypeOK`; `overwritten` is the exception
  that the code's single `activeNodeId` makes necessary.
* `EntriesAreKept`: an action property, one case per action.
* `AbruptIsFounded`: inductive with `ResetKept`, which says that only a reset
  leaves ECONNRESET in errno and that no reason is decided before the loop ends;
  no other outcome of `readFrame` leads to the branch that reads errno.

`ServerLifecycleProofs`, from `LifecycleAssumption` (a finite pool, a limit of
at least 1 and below the largest uint32):

* `SpecInv`: the inductive invariant `Inv`, that is `TypeOK`, `Holding` (a
  thread has a descriptor exactly at the places of its code where it owns one)
  and `ShutdownOrder` (where `main` is determines what is still running).
  Neither ownership nor the counter is inductive without it.
* `QueueStopsLast`: from `ShutdownOrder`.
* `DescriptorsOwned`: `Inv /\ FdOwnership` is inductive.
* `CounterCorrect`: `CountInv` adds to the exact count that the accept thread
  between the test and the increment still finds room: only that thread
  increments, so a decrement in between cannot hurt.
* `CapacityIsRespected`: from `CountInv`, and a cardinality argument over the
  owners of the open descriptors.

`WorkQueueProofs`, from `ThreadsAssumption`:

* `SpecInv`: `Places` (a queued socket is open, enqueued, nobody's and queued
  once; an open enqueued socket is queued or being processed) with `TypeOK` and
  that only consumers inside `dequeue` wait.
* `StopLeavesNothing`: from `Places`.
* `NoWakeupIsLost`: inductive with `Inv`; a case per action on how the two sides
  of the inequality change.
* `ImplementsHandoff`: the initial states and the steps of the threads are those
  of `HandoffQueue`. The fairness part of `HandoffSpec` is checked by TLC.

`HeartbeatMonitorProofs`, from `MonitorAssumption`:

* `SpecInv`: `Times` (how far the clock can be from the timer and the last scan)
  and `Scanned` (what the last scan says of a node that is still ONLINE), which
  carry the arithmetic of the bound through a scan in progress.
* `SilentNodesAreFound`: the bound of three intervals and three latencies.
* `OnlySilentAreMarked`: from what `Scanned` says of the nodes chosen.

`OtelScopeProofs`, from `ScopeAssumption`:

* `SpecInv`: `Stacks` (a worker's stack is its session's connection span and
  perhaps an operation's, no span is on two stacks, a span's trace is its
  session's connection span), `ExitOrder` (workers are joined before the
  exporter is destroyed, the flusher before the last flush) and `Conserved`.
* `NoSpanTwice`, `TraceIsSession`, `NothingLeftAtExit`: consequences of the three.

`EopClientProofs`, from `ClientAssumption`:

* `SpecInv`: `TypeOK`, `Exclusive` (a thread is at a place between lock and
  unlock exactly when it is the owner of `mutex`, and no thread is in a call of a
  freed handle) and `Stream`. `StreamAccounted` counts what a client is behind
  only while it is connected and on a frame boundary. It is not inductive:
  `Stream` adds what stays true when a receive loop gives up in the middle of a
  frame (`desync`), and that a thread past the prefix has the rest of its frame
  in the stream.
* `ClientTypes`, `ClientExclusion`, `ClientStream`: consequences of the three.
* `ClientAnswers`: `InStep` says of the one thread inside that, if it sent when
  nothing was outstanding, all that is in the stream or may come to be answers
  its own command. `Exclusive` is what keeps the others from adding to it.
* `ClientReason`: `ReasonKept` carries the reason from the failed call to
  `eop_last_error`; a step of another thread either leaves it alone or is the end
  of a call, which marks it `overwritten`.

`ClientProgramsProofs`, from `RegistryAssumption` and `ProgramsAssumption`, for
any clients and connections. Every conjunct but the first two speaks of one
client, so a step of one program leaves the others' part alone, and a step of
the server moves one connection in one of a few ways (`Moves`), or in a crash
all of them:

* `SpecInv`: the inductive invariant `Inv`:
  * `Types`, and `Waiting`: backlog and queue hold each waiting connection once;
  * `Shape`: the two ends of a connection agree on its state (`Ends`), only the
    last connection of a client is in use, and a call under way is one that the
    program makes at that place;
  * `Budget`: the requests on their way and the commands a program has left never
    exceed what it may send, and neither do the frames that are or may come to be
    on their way to it. Of a demo every request may be answered but a HEARTBEAT
    at the head of the stream (its drain), of a probe only the first (its
    REGISTER);
  * `Synced`: until a timeout, what is on its way to a draining program is the
    welcome, and after the drain the answer to the call under way;
  * `Registered`: `connect_basic` has sent one REGISTER, and an ACK that it can
    take for the answer means the server decided OK.
* `ProgramTypes`: `TypeOK` bounds both streams; the bound is not inductive
  without `Budget`, which counts requests as answers to come.
* `ProgramsInStep`: from `Synced`. What a program shows depends on the frames
  that were already on the way when it called.
* `ProgramRegistered`: from `Registered`, which rests on `Synced`: an ACK for the
  REGISTER is not the welcome's.

## What is only model-checked

* Everything under fairness (out of TLAPS's reach here): `StopReleasesConsumers`
  and the liveness of `HandoffSpec`, `ShutdownTerminates`,
  `SilentClientsFreeWorkers`, `StopReturns`, `MutexReleased`, `AllExit`,
  `TornDown`, `AllDelivered`, `CrashReported`, `PendingIsPosted`,
  `ExporterStops`.
* `FrameCodec`: what the folds over bytes compute is a matter of induction over
  data, which the installed provers cannot do.
* `WorkerServices`: a full buffer writes a block of any length, and what the log
  then holds is a fold over that block, so `LogWellFormed` and
  `CleanExitComplete` need the same induction. Its `TypeOK` has not been proved
  either.

## What is not modelled

* The text of things: JSON payloads and log fields with their sanitizing, ISO
  8601 times, span attributes and the OTLP body, the HTTP exchange with the
  collector, the banner, what the examples print and how they parse input. No
  other part reads them.
* Payloads of 2^32 bytes and more, whose length does not fit the wire format.
  `eop_envelope_deserialize` adds the envelope size in 32 bits, so
  `DeserializeInverts` is stated for totals that fit; only tests call it. Frames
  of the server are short, and the model lets it write only lengths that fit.
* SIGPIPE in the server (the exporter's `send` has no `MSG_NOSIGNAL`). In
  `ClientPrograms` the client's `send` may raise it, and the program is over.
* NULL arguments, allocation failure, EINTR in the client's `send`, and a
  standard output that cannot be written (the crash handler ignores that error).
* `ERR_UNKNOWN_TYPE`: ADR-003:85 asks for it, the code answers an unknown type
  with `ERR_MALFORMED`; the model follows the code.
* Memory order of the atomics: `activeConnections` is one location and the
  models take its operations as sequentially consistent.
* Deployment, collector and dashboard configuration: no logic of the program,
  but for the restart of a crashed pod (`Restart` in `ClientPrograms`).
