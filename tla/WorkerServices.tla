--------------------------- MODULE WorkerServices ---------------------------
(***************************************************************************)
(* The services every thread of the server shares, under the threads that  *)
(* call them: the configuration (ServerConfig::fromEnv), session and       *)
(* message ids (SessionManager), the structured log (Logger, the buffered  *)
(* standard output under it and the crash handler that bypasses both) and  *)
(* the Prometheus counters and histograms (PrometheusMetrics).             *)
(*                                                                         *)
(* A log line is a record; on its way out it is three pieces, two for the  *)
(* JSON text and one for the newline, so that a full output buffer may cut *)
(* a line anywhere.  What the handlers do to the registry is in            *)
(* ConnectionWorker: here a frame is its operation and the event its       *)
(* handler logs.                                                           *)
(***************************************************************************)
EXTENDS Naturals, Sequences, SequencesExt, FiniteSets

CONSTANTS
    LongMax,       \* the largest unsigned long
    PoolRange,     \* EOP_THREAD_POOL_SIZE: record of min, max and default
    PortMax,       \* the largest uint16_t
    MetricsPort,   \* DEFAULT_METRICS_PORT
    MinLevel,      \* m_minLevel of the Logger; main() takes the default, INFO
    Outcomes,      \* the pairs <<operation, event>> to try, of HandlerEvents
    WordMod,       \* 2^32, the message counter's modulus
    BufferSize,    \* pieces the output buffer holds
    MaxSessions,   \* bound: connections per behaviour
    MaxFrames      \* bound: frames per behaviour

(* What a handler logs for each message type; no line for an unknown type.   *)
(* node_not_found is logNodeQueried with a result other than OK, a warning.  *)
HandlerEvents ==
    {<<"REGISTER", "node_registered">>, <<"REGISTER", "node_register_error">>,
     <<"QUERY_NODE", "node_queried">>, <<"QUERY_NODE", "node_not_found">>,
     <<"LIST_NODES", "nodes_listed">>,
     <<"HEARTBEAT", "heartbeat_received">>, <<"HEARTBEAT", "heartbeat_unknown_node">>,
     <<"ANALYZE_GRAPH", "none">>}

Levels == <<"INFO", "WARN", "ERROR", "NONE">>

ASSUME ServicesAssumption ==
    /\ PoolRange.min \in 1..PoolRange.max /\ PoolRange.default \in PoolRange.min..PoolRange.max
    /\ PoolRange.max < LongMax /\ PortMax < LongMax /\ MetricsPort \in 1..PortMax
    /\ MinLevel \in ToSet(Levels)
    /\ Outcomes \subseteq HandlerEvents
    /\ WordMod \in Nat \ {0} /\ BufferSize \in Nat \ {0}
    /\ MaxSessions \in Nat /\ MaxFrames \in Nat

Operations == {"REGISTER", "QUERY_NODE", "LIST_NODES", "HEARTBEAT", "UNKNOWN"}

Main == 0

Threads == 0..PoolRange.max

VARIABLES
    env,             \* the environment, until main() has read it
    config,          \* the ServerConfig
    mpc,             \* where main() is
    phase,           \* "running", "crashing", or how the process ended
    pc,              \* where each worker is
    session,         \* the session id of each worker, 0 between sessions
    traced,          \* the worker's connection has had a frame: its span exists
    op,              \* the type of the message in hand, UNKNOWN between two
    saying,          \* each thread's call of the Logger, Quiet if none
    m_mutex,         \* the thread in writeToStdout, or NoThread
    buf,             \* the output buffer of the C library
    file,            \* what has been written to the descriptor, as read back
    sessionCounter, messageCounter,
    counters, histograms,
    exposer,         \* the /metrics endpoint is up
    frames           \* frames read so far

logVars == <<saying, m_mutex, buf, file>>
metricVars == <<counters, histograms, exposer>>
idVars == <<sessionCounter, messageCounter>>
workerVars == <<pc, session, traced, op, frames>>
mainVars == <<env, config, mpc>>
vars == <<mainVars, phase, workerVars, logVars, idVars, metricVars>>

NoThread == PoolRange.max + 1

Quiet == [at |-> "quiet", line |-> [event |-> "none", sid |-> 0]]

Pool == 1..config.threadPoolSize

-----------------------------------------------------------------------------
(* ServerConfig.  A variable is unset, holds no number, or holds one: what   *)
(* std::stoul returns, which for a negative number is its value modulo the   *)
(* width of unsigned long.                                                   *)

RawValues == [kind : {"unset", "garbage"}, val : {0}] \cup [kind : {"number"}, val : 0..LongMax]

(* Faulty variant: zero passes the check. *)
parseEnvZero(raw, range) ==
    IF raw.kind # "number" \/ raw.val > range.max THEN range.default ELSE raw.val

parseEnv(raw, range) ==
    IF raw.kind # "number" \/ raw.val < range.min \/ raw.val > range.max
    THEN range.default
    ELSE raw.val

parseMetricsPort(raw) ==
    IF raw.kind # "number" \/ raw.val > PortMax THEN MetricsPort ELSE raw.val

fromEnv(e) ==
    [threadPoolSize |-> parseEnv(e.EOP_THREAD_POOL_SIZE, PoolRange),
     metricsPort    |-> parseMetricsPort(e.EOP_METRICS_PORT)]

-----------------------------------------------------------------------------
(* Logger.  The line is built and filtered before the mutex is taken.        *)

Level(event) ==
    IF event \in {"node_register_error", "node_not_found", "heartbeat_unknown_node"}
    THEN "WARN"
    ELSE IF event = "bind_failed" THEN "ERROR" ELSE "INFO"

Rank(level) == CHOOSE i \in 1..Len(Levels) : Levels[i] = level

(* logNodeRegisterError is the one event without the test of m_minLevel. *)
Emits(event) ==
    event # "none" /\ (event = "node_register_error" \/ Rank(MinLevel) <= Rank(Level(event)))

Say(t, event, sid) ==
    saying' = [saying EXCEPT ![t] =
        IF Emits(event) THEN [at |-> "json", line |-> [event |-> event, sid |-> sid]] ELSE Quiet]

Piece(kind, line) == [kind |-> kind, line |-> line]

Json(line) == <<Piece("head", line), Piece("tail", line)>>

Newline == <<Piece("newline", Quiet.line)>>

(* The constant text of crashSignalHandler, its newline included. *)
CrashLine == [event |-> "server_crash", sid |-> 0]

CrashText == Json(CrashLine) \o <<Piece("newline", CrashLine)>>

(* Whoever collects the log reads it piece by piece and keeps the events of   *)
(* each session in order (session 0: of main), the last piece of the Logger,  *)
(* whether one ever followed another of a different line, and how much of the *)
(* crash text has come.                                                       *)
Empty ==
    [events |-> [sid \in 0..MaxSessions |-> <<>>], last |-> Newline[1], torn |-> FALSE, crash |-> 0]

Follows(p, q) ==
    CASE p.kind = "head"    -> q = Piece("tail", p.line)
      [] p.kind = "tail"    -> q.kind = "newline"
      [] p.kind = "newline" -> q.kind = "head"

ReadPiece(f, p) ==
    IF p.line = CrashLine THEN [f EXCEPT !.crash = @ + 1]
    ELSE [events |-> IF p.kind = "head"
                     THEN [f.events EXCEPT ![p.line.sid] = Append(@, p.line.event)]
                     ELSE f.events,
          last   |-> p,
          torn   |-> f.torn \/ ~Follows(f.last, p),
          crash  |-> f.crash]

Written(pieces) == FoldLeft(ReadPiece, file, pieces)

(* Standard output is a pipe, fully buffered by the C library: pieces go out *)
(* in blocks of BufferSize, whatever they are.                               *)
Put(pieces) ==
    LET all == buf \o pieces
        n   == (Len(all) \div BufferSize) * BufferSize
    IN  /\ file' = Written(SubSeq(all, 1, n))
        /\ buf' = SubSeq(all, n + 1, Len(all))

(* Faulty variant: std::cout without the lock. *)
WriteJsonUnlocked(t) ==
    /\ saying[t].at = "json"
    /\ m_mutex' = t
    /\ Put(Json(saying[t].line))
    /\ saying' = [saying EXCEPT ![t].at = "newline"]
    /\ UNCHANGED <<mainVars, phase, workerVars, idVars, metricVars>>

(* Logger::writeToStdout: the lock and the first insertion ... *)
WriteJson(t) ==
    /\ saying[t].at = "json" /\ m_mutex = NoThread
    /\ m_mutex' = t
    /\ Put(Json(saying[t].line))
    /\ saying' = [saying EXCEPT ![t].at = "newline"]
    /\ UNCHANGED <<mainVars, phase, workerVars, idVars, metricVars>>

(* ... and the second, after which the lock is released. *)
WriteNewline(t) ==
    /\ saying[t].at = "newline"
    /\ m_mutex' = NoThread
    /\ Put(Newline)
    /\ saying' = [saying EXCEPT ![t] = Quiet]
    /\ UNCHANGED <<mainVars, phase, workerVars, idVars, metricVars>>

-----------------------------------------------------------------------------
(* A worker thread. *)

Ready(w, at) == w \in Pool /\ pc[w] = at /\ saying[w] = Quiet

Goto(w, at) == pc' = [pc EXCEPT ![w] = at]

(* SessionManager: both counters are atomic; the second wraps. *)
nextSessionId == sessionCounter' = sessionCounter + 1

nextMessageId == messageCounter' = (messageCounter + 1) % WordMod

(* ThreadPool::workerLoop takes a connection from the queue, which holds some *)
(* as long as the acceptor has run and the queue is not stopped.  The welcome *)
(* frame may fail, and then the ids are spent and the worker goes on.         *)
StartSession(w) ==
    /\ Ready(w, "idle") /\ mpc \in {"up", "stop", "complete"} /\ sessionCounter < MaxSessions
    /\ nextSessionId /\ nextMessageId
    /\ \/ Goto(w, "read") /\ session' = [session EXCEPT ![w] = sessionCounter + 1]
       \/ UNCHANGED <<pc, session>>
    /\ UNCHANGED <<mainVars, phase, traced, op, frames, logVars, metricVars>>

(* handleConnection: a frame arrives; the first one creates the connection's  *)
(* span and logs the connection.                                              *)
ReadFrame(w) ==
    /\ Ready(w, "read") /\ frames < MaxFrames
    /\ frames' = frames + 1
    /\ traced' = [traced EXCEPT ![w] = TRUE]
    /\ Goto(w, "handle")
    /\ IF traced[w] THEN UNCHANGED saying ELSE Say(w, "clientConnected", session[w])
    /\ UNCHANGED <<mainVars, phase, session, op, m_mutex, buf, file, idVars, metricVars>>

(* The handler answers and logs one event, or none for an unknown type. *)
Handle(w) ==
    /\ Ready(w, "handle")
    /\ \E o \in Outcomes :
          /\ op' = [op EXCEPT ![w] = o[1]]
          /\ Say(w, o[2], session[w])
    /\ Goto(w, "increment")
    /\ UNCHANGED <<mainVars, phase, session, traced, frames, m_mutex, buf, file, idVars, metricVars>>

(* Faulty variant: a case is missing from the switch. *)
messageTypeIndexNoHeartbeat(type) ==
    IF type \in {"REGISTER", "QUERY_NODE", "LIST_NODES"} THEN type ELSE "UNKNOWN"

messageTypeIndex(type) == IF type \in Operations THEN type ELSE "UNKNOWN"

(* PrometheusMetrics::recordMessage: two atomic updates, one after the other. *)
Increment(w) ==
    /\ Ready(w, "increment")
    /\ counters' = [counters EXCEPT ![messageTypeIndex(op[w])] = @ + 1]
    /\ Goto(w, "observe")
    /\ UNCHANGED <<mainVars, phase, session, traced, op, frames, logVars, idVars,
                   histograms, exposer>>

Observe(w) ==
    /\ Ready(w, "observe")
    /\ histograms' = [histograms EXCEPT ![messageTypeIndex(op[w])] = @ + 1]
    /\ op' = [op EXCEPT ![w] = "UNKNOWN"]
    /\ Goto(w, "read")
    /\ UNCHANGED <<mainVars, phase, session, traced, frames, logVars, idVars,
                   counters, exposer>>

(* The connection ends, by any FrameReadStatus; a connection without a frame  *)
(* (a TCP probe) leaves no line.                                              *)
Disconnect(w) ==
    /\ Ready(w, "read")
    /\ IF traced[w] THEN Say(w, "clientDisconnected", session[w]) ELSE UNCHANGED saying
    /\ traced' = [traced EXCEPT ![w] = FALSE]
    /\ session' = [session EXCEPT ![w] = 0]
    /\ Goto(w, "idle")
    /\ UNCHANGED <<mainVars, phase, op, frames, m_mutex, buf, file, idVars, metricVars>>

(* dequeue() returns nothing once the queue is stopped. *)
Leave(w) ==
    /\ Ready(w, "idle") /\ mpc = "drain"
    /\ Goto(w, "left")
    /\ UNCHANGED <<mainVars, phase, session, traced, op, frames, logVars, idVars, metricVars>>

Worker(w) ==
    \/ StartSession(w) \/ ReadFrame(w) \/ Handle(w) \/ Increment(w) \/ Observe(w)
    \/ Disconnect(w) \/ Leave(w)

-----------------------------------------------------------------------------
(* main().                                                                   *)

MainAt(from, to) == mpc = from /\ pc[Main] = "main" /\ saying[Main] = Quiet /\ mpc' = to

(* fromEnv, the pool of workers and the first line; the pool's size is what   *)
(* the configuration says.  The environment is not read again.                *)
Boot ==
    /\ MainAt("boot", "metrics")
    /\ config' = fromEnv(env)
    /\ env' = [v \in DOMAIN env |-> [kind |-> "unset", val |-> 0]]
    /\ Say(Main, "booting", 0)
    /\ UNCHANGED <<phase, workerVars, m_mutex, buf, file, idVars, metricVars>>

(* PrometheusMetrics::start: no endpoint for port 0 or when it cannot bind. *)
StartMetrics ==
    /\ MainAt("metrics", "listen")
    /\ exposer' \in (IF config.metricsPort = 0 THEN {FALSE} ELSE BOOLEAN)
    /\ config' = [config EXCEPT !.metricsPort = 0]    \* not read again
    /\ UNCHANGED <<env, phase, workerVars, logVars, idVars, counters, histograms>>

(* acceptor.start(): main() goes on, or shuts the metrics down and returns 1. *)
Listen ==
    /\ \/ MainAt("listen", "up") /\ Say(Main, "server_ready", 0) /\ UNCHANGED exposer
       \/ MainAt("listen", "drain") /\ Say(Main, "bind_failed", 0) /\ exposer' = FALSE
    /\ UNCHANGED <<env, config, phase, workerVars, m_mutex, buf, file, idVars,
                   counters, histograms>>

(* SIGINT or SIGTERM ends the loop of main(). *)
Signalled ==
    /\ MainAt("up", "stop")
    /\ Say(Main, "shutdown_initiated", 0)
    /\ UNCHANGED <<env, config, phase, workerVars, m_mutex, buf, file, idVars, metricVars>>

(* acceptor.stop(), the metrics' shutdown and the last line of main(). *)
StopServices ==
    /\ MainAt("stop", "complete")
    /\ exposer' = FALSE
    /\ Say(Main, "shutdown_complete", 0)
    /\ UNCHANGED <<env, config, phase, workerVars, m_mutex, buf, file, idVars,
                   counters, histograms>>

(* The destructor of ThreadPool stops the queue ... *)
StopPool ==
    /\ MainAt("complete", "drain")
    /\ UNCHANGED <<env, config, phase, workerVars, logVars, idVars, metricVars>>

(* ... and joins the workers; then exit() flushes standard output. *)
Exit ==
    /\ MainAt("drain", "done")
    /\ \A w \in Pool : pc[w] = "left"
    /\ phase' = "exited"
    /\ file' = Written(buf) /\ buf' = <<>>
    /\ UNCHANGED <<env, config, workerVars, saying, m_mutex, idVars, metricVars>>

(* The watchdog's _Exit(0), which flushes nothing. *)
ForceExit ==
    /\ mpc = "drain"
    /\ phase' = "forced"
    /\ buf' = <<>>
    /\ UNCHANGED <<mainVars, workerVars, saying, m_mutex, file, idVars, metricVars>>

-----------------------------------------------------------------------------
(* A fatal signal in some thread, wherever it is, in writeToStdout included;  *)
(* the thread runs crashSignalHandler and the others go on meanwhile.         *)
Fault(t) ==
    /\ phase = "running" /\ phase' = "crashing"
    /\ t = Main \/ (t \in Pool /\ mpc # "boot" /\ pc[t] # "left")
    /\ Goto(t, "handler")
    /\ saying' = [saying EXCEPT ![t] = Quiet]
    /\ UNCHANGED <<mainVars, session, traced, op, frames, m_mutex, buf, file, idVars, metricVars>>

(* Faulty variant: the handler reports through the Logger. *)
CrashWriteLogged(t) ==
    /\ pc[t] = "handler" /\ m_mutex = NoThread
    /\ Goto(t, "raise")
    /\ file' = Written(CrashText)
    /\ UNCHANGED <<mainVars, phase, session, traced, op, frames, saying, m_mutex, buf,
                   idVars, metricVars>>

(* write(2) to the descriptor: past the lock and past the buffer. *)
CrashWrite(t) ==
    /\ pc[t] = "handler"
    /\ Goto(t, "raise")
    /\ file' = Written(CrashText)
    /\ UNCHANGED <<mainVars, phase, session, traced, op, frames, saying, m_mutex, buf,
                   idVars, metricVars>>

(* The default disposition kills the process; the buffer is lost. *)
Raise(t) ==
    /\ pc[t] = "raise"
    /\ phase' = "crashed"
    /\ buf' = <<>>
    /\ UNCHANGED <<mainVars, workerVars, saying, m_mutex, file, idVars, metricVars>>

Crash(t) == Fault(t) \/ CrashWrite(t) \/ Raise(t)

Init ==
    /\ env \in [{"EOP_THREAD_POOL_SIZE", "EOP_METRICS_PORT"} -> RawValues]
    /\ config = [threadPoolSize |-> PoolRange.default, metricsPort |-> MetricsPort]
    /\ mpc = "boot" /\ phase = "running"
    /\ pc = [t \in Threads |-> IF t = Main THEN "main" ELSE "idle"]
    /\ session = [t \in Threads |-> 0]
    /\ traced = [t \in Threads |-> FALSE]
    /\ op = [t \in Threads |-> "UNKNOWN"]
    /\ saying = [t \in Threads |-> Quiet]
    /\ m_mutex = NoThread /\ buf = <<>> /\ file = Empty
    /\ sessionCounter = 0 /\ messageCounter = 0 /\ frames = 0
    /\ counters = [o \in Operations |-> 0] /\ histograms = counters
    /\ exposer = FALSE

MainStep == Boot \/ StartMetrics \/ Listen \/ Signalled \/ StopServices \/ StopPool \/ Exit \/ ForceExit

Next ==
    /\ phase \in {"running", "crashing"}
    /\ \/ MainStep
       \/ \E t \in Threads : Worker(t) \/ WriteJson(t) \/ WriteNewline(t) \/ Crash(t)

Spec == Init /\ [][Next]_vars

(* The handler runs on a thread the scheduler keeps running. *)
FairSpec == Spec /\ WF_vars(\E t \in Threads : CrashWrite(t) \/ Raise(t))

-----------------------------------------------------------------------------
(* Properties. *)

(* Types.  Whatever the environment holds, main() starts a pool of a size     *)
(* within the documented range; the message counter stays a 32-bit value.     *)
TypeOK ==
    /\ config.threadPoolSize \in PoolRange.min..PoolRange.max
    /\ config.metricsPort \in 0..PortMax
    /\ mpc \in {"boot", "metrics", "listen", "up", "stop", "complete", "drain", "done"}
    /\ phase \in {"running", "crashing", "crashed", "exited", "forced"}
    /\ pc \in [Threads -> {"main", "idle", "read", "handle", "increment", "observe",
                           "left", "handler", "raise"}]
    /\ session \in [Threads -> 0..MaxSessions]
    /\ m_mutex \in Threads \cup {NoThread}
    /\ Len(buf) < BufferSize
    /\ sessionCounter \in 0..MaxSessions /\ messageCounter \in 0..(WordMod - 1)
    /\ counters \in [Operations -> 0..MaxFrames] /\ histograms \in [Operations -> 0..MaxFrames]

(* The log can be read.  The lines of several threads never interleave: a     *)
(* text is followed by its own rest and that by a newline (logger.hpp: worker *)
(* threads "never produce interleaved output").  And a session id names one   *)
(* session: its lines are one clientConnected, then the events of its frames, *)
(* then at most one clientDisconnected and nothing after it, however many     *)
(* workers write and wherever the buffer cuts the output.                     *)
LogWellFormed ==
    /\ ~file.torn
    /\ \A sid \in 1..MaxSessions :
          LET e == file.events[sid] IN
              \A i \in 1..Len(e) : /\ e[i] = "clientConnected" <=> i = 1
                                   /\ e[i] = "clientDisconnected" => i = Len(e)

Handled(o) ==
    Cardinality({x \in (1..MaxSessions) \X (1..(MaxFrames + 2)) :
        x[2] <= Len(file.events[x[1]]) /\ <<o, file.events[x[1]][x[2]]>> \in HandlerEvents})

(* After a clean exit the log and the metrics tell the same story: every      *)
(* session that logged its connection logged its end, each operation was      *)
(* counted and timed as often as its handler logged, and the endpoint is down *)
(* before the static objects go (the lines below m_minLevel aside).           *)
CleanExitComplete ==
    (phase = "exited" /\ MinLevel = "INFO") =>
        /\ \A sid \in 1..MaxSessions :
               file.events[sid] # <<>> => Last(file.events[sid]) = "clientDisconnected"
        /\ \A o \in Operations \ {"UNKNOWN"} :
               counters[o] = Handled(o) /\ histograms[o] = Handled(o)
        /\ ~exposer

(* A crash ends the process and is reported.  The handler waits for nothing,  *)
(* in particular not for the lock of the thread it interrupted, and when the  *)
(* process has died of the signal the whole crash text is in the output,      *)
(* although the buffer is lost (main.cpp: so that `kubectl logs --previous`   *)
(* includes the crash reason).                                                *)
CrashReported ==
    phase = "crashing" ~> /\ phase \notin {"running", "crashing"}
                          /\ phase = "crashed" => file.crash = Len(CrashText)
=============================================================================
