-------------------------- MODULE ServerLifecycle ---------------------------
(***************************************************************************)
(* The server process from start to exit: main(), the accept loop          *)
(* (SocketAcceptor), the work queue, the pool of worker threads            *)
(* (ThreadPool::workerLoop), the descriptor and the slot each connection   *)
(* holds (TeardownGuard, activeConnections), the shutdown and its          *)
(* watchdog.  What a connection does to the registry is in                 *)
(* ConnectionWorker: no step of it touches this module's state.            *)
(*                                                                         *)
(* Descriptor numbers are reused: accept() may return any number that is   *)
(* not open, as the kernel does after a close().                           *)
(***************************************************************************)
EXTENDS WorkQueue, Naturals, FiniteSets

CONSTANTS Fds,         \* the descriptor numbers the process limit allows
          NoFd,        \* an empty FdGuard or local
          Workers,     \* the threads of the pool, EOP_THREAD_POOL_SIZE many
          MaxClients,  \* EOP_MAX_CLIENTS
          CounterMax   \* the largest value of a uint32_t

ASSUME LifecycleAssumption ==
  /\ NoFd \notin Fds
  /\ IsFiniteSet(Workers)
  /\ MaxClients \in Nat \ {0}      \* serverConfig.cpp: 1 to 100000
  /\ CounterMax \in Nat
  /\ MaxClients < CounterMax

VARIABLES
  mainPc,             \* where main() is
  running,            \* g_running
  status,             \* "up", or how the process ended
  returnCode,         \* the value main() will return
  watchdog,           \* the detached thread of ThreadPool::shutdown exists
  acceptPc,           \* where the accept thread is
  acceptFd,           \* the local clientFd of acceptLoop
  m_stopFlag,
  listenFd,           \* m_listenFd: "none", "listening" or "shut" down
  wpc,                \* where each worker is
  wfd,                \* the connection each worker owns
  activeConnections   \* the shared std::atomic<uint32_t>

mainVars == <<mainPc, running, status, returnCode, watchdog>>
acceptVars == <<acceptPc, acceptFd, m_stopFlag, listenFd>>
workerVars == <<wpc, wfd>>
vars == <<queueVars, mainVars, acceptVars, workerVars, activeConnections>>

\* Types; a thread's program counter takes only the values of its own code.
TypeOK ==
  /\ m_queue \in Seq(Fds)
  /\ m_stopped \in BOOLEAN
  /\ waiting \in SUBSET Workers
  /\ openFds \in SUBSET Fds
  /\ mainPc \in {"spawn", "abortNotify", "abortJoin", "start", "run", "stop",
                 "shutListen", "joinAccept", "complete", "poolStop",
                 "poolNotify", "arm", "joinWorkers", "exited"}
  /\ running \in BOOLEAN
  /\ status \in {"up", "returned", "forced", "aborted"}
  /\ returnCode \in {0, 1}
  /\ watchdog \in BOOLEAN
  /\ acceptPc \in {"none", "loop", "accept", "check", "reject", "count",
                   "enqueue", "notify", "exited"}
  /\ acceptFd \in Fds \cup {NoFd}
  /\ m_stopFlag \in BOOLEAN
  /\ listenFd \in {"none", "listening", "shut"}
  /\ wpc \in [Workers -> {"unborn", "dequeue", "welcome", "serve", "handle",
                          "close", "sub", "exited"}]
  /\ wfd \in [Workers -> Fds \cup {NoFd}]
  /\ activeConnections \in 0..CounterMax

Init ==
  /\ QueueInit
  /\ openFds = {}
  /\ mainPc = "spawn" /\ running = TRUE /\ status = "up"
  /\ returnCode = 0 /\ watchdog = FALSE
  /\ acceptPc = "none" /\ acceptFd = NoFd
  /\ m_stopFlag = FALSE /\ listenFd = "none"
  /\ wpc = [w \in Workers |-> "unborn"]
  /\ wfd = [w \in Workers |-> NoFd]
  /\ activeConnections = 0

\* fetch_add(1) and fetch_sub(1) of a uint32_t.
fetch_add(n) == IF n = CounterMax THEN 0 ELSE n + 1
fetch_sub(n) == IF n = 0 THEN CounterMax ELSE n - 1
-----------------------------------------------------------------------------
(***************************************************************************)
(* main()                                                                  *)
(***************************************************************************)
MainGoTo(from, to) == mainPc = from /\ mainPc' = to

\* The constructor of ThreadPool spawns the workers one by one.
SpawnWorker(w) ==
  /\ mainPc = "spawn"
  /\ wpc[w] = "unborn"
  /\ wpc' = [wpc EXCEPT ![w] = "dequeue"]
  /\ UNCHANGED <<queueVars, mainVars, acceptVars, wfd, activeConnections>>

PoolSpawned ==
  /\ MainGoTo("spawn", "start")
  /\ \A w \in Workers : wpc[w] # "unborn"
  /\ UNCHANGED <<queueVars, running, status, returnCode, watchdog, acceptVars,
                 workerVars, activeConnections>>

\* std::thread throws: the constructor stops the queue, joins the workers it
\* has and rethrows out of main().
SpawnFails ==
  /\ MainGoTo("spawn", "abortNotify")
  /\ \E w \in Workers : wpc[w] = "unborn"
  /\ Stop
  /\ UNCHANGED <<running, status, returnCode, watchdog, acceptVars, workerVars,
                 activeConnections>>

SpawnFailsNotify ==
  /\ MainGoTo("abortNotify", "abortJoin")
  /\ notify_all
  /\ UNCHANGED <<running, status, returnCode, watchdog, acceptVars, workerVars,
                 activeConnections>>

SpawnFailsJoin ==
  /\ MainGoTo("abortJoin", "exited")
  /\ \A w \in Workers : wpc[w] \in {"unborn", "exited"}
  /\ status' = "aborted"
  /\ UNCHANGED <<queueVars, running, returnCode, watchdog, acceptVars,
                 workerVars, activeConnections>>

\* acceptor.start(): the socket is bound and listens, the thread runs; or
\* main returns 1 through the destructors.
StartAcceptor ==
  /\ \/ /\ MainGoTo("start", "run")
        /\ listenFd' = "listening"
        /\ m_stopFlag' = FALSE
        /\ acceptPc' = "loop"
        /\ UNCHANGED returnCode
     \/ /\ MainGoTo("start", "poolStop")
        /\ returnCode' = 1
        /\ m_stopFlag' = TRUE    \* the acceptor's destructor calls stop()
        /\ UNCHANGED <<listenFd, acceptPc>>
  /\ UNCHANGED <<queueVars, running, status, watchdog, acceptFd, workerVars,
                 activeConnections>>

\* SIGINT or SIGTERM.
signalHandler ==
  /\ running
  /\ running' = FALSE
  /\ UNCHANGED <<queueVars, mainPc, status, returnCode, watchdog, acceptVars,
                 workerVars, activeConnections>>

LeaveMainLoop ==
  /\ MainGoTo("run", "stop")
  /\ ~running
  /\ UNCHANGED <<queueVars, running, status, returnCode, watchdog, acceptVars,
                 workerVars, activeConnections>>

\* SocketAcceptor::stop in three steps: the flag, the shutdown() that wakes
\* accept(), the join and the close of the listening socket.
StoreStopFlag ==
  /\ MainGoTo("stop", "shutListen")
  /\ m_stopFlag' = TRUE
  /\ UNCHANGED <<queueVars, running, status, returnCode, watchdog, acceptPc,
                 acceptFd, listenFd, workerVars, activeConnections>>

ShutdownListen ==
  /\ MainGoTo("shutListen", "joinAccept")
  /\ listenFd' = "shut"
  /\ UNCHANGED <<queueVars, running, status, returnCode, watchdog, acceptPc,
                 acceptFd, m_stopFlag, workerVars, activeConnections>>

JoinAccept ==
  /\ MainGoTo("joinAccept", "complete")
  /\ acceptPc = "exited"
  /\ listenFd' = "none"
  /\ UNCHANGED <<queueVars, running, status, returnCode, watchdog, acceptPc,
                 acceptFd, m_stopFlag, workerVars, activeConnections>>

\* The line "shutdown_complete" is out; the destructors run next.
ReturnFromMain ==
  /\ MainGoTo("complete", "poolStop")
  /\ UNCHANGED <<queueVars, running, status, returnCode, watchdog, acceptVars,
                 workerVars, activeConnections>>

\* ThreadPool::shutdown, from the destructor.
PoolStop ==
  /\ MainGoTo("poolStop", "poolNotify")
  /\ Stop
  /\ UNCHANGED <<running, status, returnCode, watchdog, acceptVars, workerVars,
                 activeConnections>>

PoolNotify ==
  /\ MainGoTo("poolNotify", "arm")
  /\ notify_all
  /\ UNCHANGED <<running, status, returnCode, watchdog, acceptVars, workerVars,
                 activeConnections>>

\* Faulty variant: the workers are joined without a watchdog.
ArmNoWatchdog ==
  /\ MainGoTo("arm", "joinWorkers")
  /\ UNCHANGED <<queueVars, running, status, returnCode, watchdog, acceptVars,
                 workerVars, activeConnections>>

ArmWatchdog ==
  /\ MainGoTo("arm", "joinWorkers")
  /\ watchdog' = TRUE
  /\ UNCHANGED <<queueVars, running, status, returnCode, acceptVars,
                 workerVars, activeConnections>>

JoinWorkers ==
  /\ MainGoTo("joinWorkers", "exited")
  /\ \A w \in Workers : wpc[w] = "exited"
  /\ status' = "returned"
  /\ UNCHANGED <<queueVars, running, returnCode, watchdog, acceptVars,
                 workerVars, activeConnections>>

\* std::_Exit(0) after GRACEFUL_SHUTDOWN_TIMEOUT_SECS.
WatchdogFires ==
  /\ watchdog
  /\ status' = "forced"
  /\ returnCode' = 0
  /\ UNCHANGED <<queueVars, mainPc, running, watchdog, acceptVars, workerVars,
                 activeConnections>>
-----------------------------------------------------------------------------
(***************************************************************************)
(* SocketAcceptor::acceptLoop                                              *)
(***************************************************************************)
AcceptGoTo(from, to) ==
  /\ acceptPc = from /\ acceptPc' = to
  /\ UNCHANGED <<m_stopFlag, listenFd>>

TestStopFlag ==
  /\ \/ m_stopFlag /\ AcceptGoTo("loop", "exited")
     \/ ~m_stopFlag /\ AcceptGoTo("loop", "accept")
  /\ UNCHANGED <<queueVars, mainVars, acceptFd, workerVars, activeConnections>>

\* accept() returns a new connection under a number that is not in use.
AcceptReturns(fd) ==
  /\ AcceptGoTo("accept", "check")
  /\ listenFd = "listening"
  /\ fd \notin openFds
  /\ openFds' = openFds \cup {fd}
  /\ acceptFd' = fd
  /\ UNCHANGED <<m_queue, m_stopped, waiting, mainVars, workerVars,
                 activeConnections>>

\* accept() fails: EINTR is retried, and every other error (EMFILE, EINVAL of
\* a socket that is shut down, ECONNABORTED) ends the loop.
AcceptFails(error) ==
  /\ \/ ~m_stopFlag /\ error = "EINTR" /\ AcceptGoTo("accept", "loop")
     \/ (m_stopFlag \/ error # "EINTR") /\ AcceptGoTo("accept", "exited")
  /\ UNCHANGED <<queueVars, mainVars, acceptFd, workerVars, activeConnections>>

\* Faulty variant: > for >=.
CheckCapacityOffByOne ==
  /\ \/ activeConnections > MaxClients /\ AcceptGoTo("check", "reject")
     \/ activeConnections <= MaxClients /\ AcceptGoTo("check", "count")
  /\ UNCHANGED <<queueVars, mainVars, acceptFd, workerVars, activeConnections>>

\* currentCount >= m_maxClients: the decision is acted on in a later step.
CheckCapacity ==
  /\ \/ activeConnections >= MaxClients /\ AcceptGoTo("check", "reject")
     \/ activeConnections < MaxClients /\ AcceptGoTo("check", "count")
  /\ UNCHANGED <<queueVars, mainVars, acceptFd, workerVars, activeConnections>>

\* ERR_CAPACITY is sent at best effort and the connection is closed.
RejectConnection ==
  /\ AcceptGoTo("reject", "loop")
  /\ openFds' = openFds \ {acceptFd}
  /\ acceptFd' = NoFd
  /\ UNCHANGED <<m_queue, m_stopped, waiting, mainVars, workerVars,
                 activeConnections>>

\* The onAccept callback of main(): fetch_add, enqueue, notify_one.
CountConnection ==
  /\ AcceptGoTo("count", "enqueue")
  /\ activeConnections' = fetch_add(activeConnections)
  /\ UNCHANGED <<queueVars, mainVars, acceptFd, workerVars>>

\* Faulty variant: the descriptor is copied into the queue, not moved.
EnqueueCopy ==
  /\ AcceptGoTo("enqueue", IF m_stopped THEN "loop" ELSE "notify")
  /\ Enqueue(acceptFd)
  /\ UNCHANGED <<mainVars, acceptFd, workerVars, activeConnections>>

EnqueueConnection ==
  /\ AcceptGoTo("enqueue", IF m_stopped THEN "loop" ELSE "notify")
  /\ Enqueue(acceptFd)
  /\ acceptFd' = NoFd
  /\ UNCHANGED <<mainVars, workerVars, activeConnections>>

NotifyWorker ==
  /\ AcceptGoTo("notify", "loop")
  /\ notify_one
  /\ UNCHANGED <<mainVars, acceptFd, workerVars, activeConnections>>
-----------------------------------------------------------------------------
(***************************************************************************)
(* ThreadPool::workerLoop in thread w                                      *)
(***************************************************************************)
WorkerGoTo(w, from, to) ==
  /\ wpc[w] = from /\ wpc' = [wpc EXCEPT ![w] = to]
  /\ UNCHANGED <<mainVars, acceptVars>>

WorkerWaits(w) ==
  /\ wpc[w] = "dequeue"
  /\ DequeueWait(w)
  /\ UNCHANGED <<mainVars, acceptVars, workerVars, activeConnections>>

WorkerWakes(w) ==
  /\ SpuriousWakeup(w)
  /\ UNCHANGED <<mainVars, acceptVars, workerVars, activeConnections>>

WorkerTakes(w) ==
  /\ WorkerGoTo(w, "dequeue", "welcome")
  /\ DequeueSocket(w)
  /\ wfd' = [wfd EXCEPT ![w] = Head(m_queue)]
  /\ UNCHANGED activeConnections

WorkerExits(w) ==
  /\ WorkerGoTo(w, "dequeue", "exited")
  /\ DequeueNull(w)
  /\ UNCHANGED <<wfd, activeConnections>>

\* The welcome ACK; when it cannot be sent the connection is closed at once.
SendWelcome(w) ==
  /\ \/ WorkerGoTo(w, "welcome", "serve")
     \/ WorkerGoTo(w, "welcome", "close")
  /\ UNCHANGED <<queueVars, wfd, activeConnections>>

\* handleConnection: the worker blocks in recv.  Bytes arrive, a part of a
\* frame or the rest of one, which is handled and answered (whether the answer
\* could be sent is not looked at), and the worker is back in recv; or recv
\* finds the end of the stream, an error or the idle timeout.
ReceiveFrame(w) ==
  /\ WorkerGoTo(w, "serve", "handle")
  /\ UNCHANGED <<queueVars, wfd, activeConnections>>

AnswerFrame(w) ==
  /\ WorkerGoTo(w, "handle", "serve")
  /\ UNCHANGED <<queueVars, wfd, activeConnections>>

EndConnection(w) ==
  /\ WorkerGoTo(w, "serve", "close")
  /\ UNCHANGED <<queueVars, wfd, activeConnections>>

\* ~TeardownGuard, and the failed welcome: close, then fetch_sub.
CloseConnection(w) ==
  /\ WorkerGoTo(w, "close", "sub")
  /\ openFds' = openFds \ {wfd[w]}
  /\ wfd' = [wfd EXCEPT ![w] = NoFd]
  /\ UNCHANGED <<m_queue, m_stopped, waiting, activeConnections>>

\* Faulty variants: the slot is not given back; the worker serves only once.
KeepSlot(w) ==
  /\ WorkerGoTo(w, "sub", "dequeue")
  /\ UNCHANGED <<queueVars, wfd, activeConnections>>

ReleaseSlotAndExit(w) ==
  /\ WorkerGoTo(w, "sub", "exited")
  /\ activeConnections' = fetch_sub(activeConnections)
  /\ UNCHANGED <<queueVars, wfd>>

ReleaseSlot(w) ==
  /\ WorkerGoTo(w, "sub", "dequeue")
  /\ activeConnections' = fetch_sub(activeConnections)
  /\ UNCHANGED <<queueVars, wfd>>
-----------------------------------------------------------------------------
Main ==
  \/ \E w \in Workers : SpawnWorker(w)
  \/ PoolSpawned \/ SpawnFails \/ SpawnFailsNotify \/ SpawnFailsJoin
  \/ StartAcceptor \/ LeaveMainLoop
  \/ StoreStopFlag \/ ShutdownListen \/ JoinAccept \/ ReturnFromMain
  \/ PoolStop \/ PoolNotify \/ ArmWatchdog \/ JoinWorkers

AcceptLoop ==
  \/ TestStopFlag
  \/ \E fd \in Fds : AcceptReturns(fd)
  \/ \E error \in {"EINTR", "other"} : AcceptFails(error)
  \/ CheckCapacity \/ RejectConnection
  \/ CountConnection \/ EnqueueConnection \/ NotifyWorker

Worker(w) ==
  \/ WorkerWaits(w) \/ WorkerWakes(w) \/ WorkerTakes(w) \/ WorkerExits(w)
  \/ SendWelcome(w) \/ ReceiveFrame(w) \/ AnswerFrame(w) \/ EndConnection(w)
  \/ CloseConnection(w) \/ ReleaseSlot(w)

\* The process has ended and takes its threads with it.
Exited == status # "up" /\ UNCHANGED vars

Next ==
  \/ /\ status = "up"
     /\ \/ Main \/ signalHandler \/ WatchdogFires
        \/ AcceptLoop
        \/ \E w \in Workers : Worker(w)
  \/ Exited

Spec == Init /\ [][Next]_vars

(***************************************************************************)
(* Fairness.  The operating system runs every thread that can run, so each *)
(* thread's own steps are weakly fair.  accept() on a socket that is shut  *)
(* down returns an error; on a listening socket it may block for ever.  A  *)
(* silent client is dropped after the idle timeout, so EndConnection is    *)
(* weakly fair: a client that keeps sending disables it again and again.   *)
(* Nothing is assumed of signals, of clients, or of an answer (AnswerFrame *)
(* blocks in send() while the client does not read).                       *)
(***************************************************************************)
Running(A) == status = "up" /\ A

AcceptStep ==
  \/ TestStopFlag
  \/ m_stopFlag /\ listenFd = "shut" /\ AcceptFails("other")
  \/ CheckCapacity \/ RejectConnection
  \/ CountConnection \/ EnqueueConnection \/ NotifyWorker

WorkerStep(w) ==
  \/ WorkerWaits(w) \/ WorkerTakes(w) \/ WorkerExits(w) \/ SendWelcome(w)
  \/ EndConnection(w) \/ CloseConnection(w) \/ ReleaseSlot(w)

FairSpec ==
  /\ Spec
  /\ WF_vars(Running(Main))
  /\ WF_vars(Running(WatchdogFires))
  /\ WF_vars(Running(AcceptStep))
  /\ \A w \in Workers : WF_vars(Running(WorkerStep(w)))
-----------------------------------------------------------------------------
\* The workers that hold a slot of activeConnections.
Busy == {w \in Workers : wpc[w] \in {"welcome", "serve", "handle", "close", "sub"}}

(***************************************************************************)
(* Every open client descriptor has exactly one owner (the accept loop, a  *)
(* place in the queue, a worker), and an owner's descriptor is open.  So   *)
(* no path of acceptLoop, WorkQueue::stop, workerLoop or ~TeardownGuard    *)
(* leaks a descriptor, closes it twice, or closes a number the kernel has  *)
(* meanwhile given to another connection.                                  *)
(***************************************************************************)
FdOwnership ==
  /\ openFds = ({acceptFd} \cup Queued \cup {wfd[w] : w \in Workers}) \ {NoFd}
  /\ acceptFd \notin Queued \cup {wfd[w] : w \in Workers} \/ acceptFd = NoFd
  /\ \A i, j \in DOMAIN m_queue : m_queue[i] = m_queue[j] => i = j
  /\ \A w \in Workers : wfd[w] \notin Queued
  /\ \A v, w \in Workers : wfd[v] = wfd[w] /\ wfd[v] # NoFd => v = w

(***************************************************************************)
(* activeConnections counts the connections queued, owned by a worker (up  *)
(* to its fetch_sub) and on their way from fetch_add to the queue.  Only   *)
(* WorkQueue::stop makes it larger, because it closes sockets without      *)
(* giving their slots back.  It never wraps below zero.                    *)
(***************************************************************************)
CounterExact ==
  LET held == Cardinality(Busy) + Len(m_queue)
              + (IF acceptPc = "enqueue" THEN 1 ELSE 0)
  IN  /\ activeConnections >= held
      /\ ~m_stopped => activeConnections = held

\* The load of acceptLoop, its comparison with m_maxClients and the fetch_add
\* of onAccept are separate steps, and the limit still holds; at most one
\* descriptor more is open, the one about to be rejected.
CapacityRespected ==
  /\ activeConnections <= MaxClients
  /\ Cardinality(openFds) <= MaxClients + 1

\* The queue is stopped only when no accept loop can enqueue into it, so no
\* accepted connection is closed by enqueue with its slot still counted.
AcceptorJoinedBeforeQueueStops == m_stopped => acceptPc \in {"none", "exited"}

\* A shutdown signal ends the process, whatever the clients do: the workers
\* are joined or the watchdog exits.
ShutdownTerminates == ~running ~> status # "up"

\* A queued connection is taken in the end, or closed by the shutdown.  It need
\* not be: a client that goes on sending keeps its worker.
QueuedIsServed == \A fd \in Fds : fd \in Queued ~> (fd \notin Queued \/ status # "up")

\* A queued connection is taken, with fewer threads than clients too, when the
\* clients in service fall silent: the idle timeout gives the workers back and
\* no wakeup is missed.
SilentClientsFreeWorkers ==
  <>[](\A w \in Workers : wpc[w] # "handle") => QueuedIsServed
=============================================================================
