----------------------------- MODULE WorkQueue ------------------------------
(***************************************************************************)
(* The producer-consumer queue of accepted sockets (src/workQueue.cpp) at  *)
(* the level of its mutex and condition variable.  A critical section of   *)
(* m_mutex contains no blocking call, so it is one action; notify_one and  *)
(* notify_all come after the unlock and are actions of their own.  A       *)
(* thread inside m_cv.wait is in the set waiting; woken, it leaves the set *)
(* and tests the predicate again under the mutex.                          *)
(*                                                                         *)
(* The threads that call these operations, with their program counters,    *)
(* are in WorkQueueThreads and ServerLifecycle.                            *)
(***************************************************************************)
EXTENDS Sequences

VARIABLES
  m_queue,    \* std::queue<AcceptedSocket>, the descriptors in FIFO order
  m_stopped,
  waiting,    \* the threads blocked in m_cv.wait
  openFds     \* the socket descriptors this process has open

queueVars == <<m_queue, m_stopped, waiting, openFds>>

\* The descriptors in the queue.
Queued == {m_queue[i] : i \in DOMAIN m_queue}

QueueInit ==
  /\ m_queue = <<>>
  /\ m_stopped = FALSE
  /\ waiting = {}

\* enqueue, up to the unlock: a stopped queue closes the socket and returns,
\* otherwise the caller goes on to notify_one.
Enqueue(fd) ==
  /\ \/ /\ m_stopped
        /\ openFds' = openFds \ {fd}
        /\ UNCHANGED m_queue
     \/ /\ ~m_stopped
        /\ m_queue' = Append(m_queue, fd)
        /\ UNCHANGED openFds
  /\ UNCHANGED <<m_stopped, waiting>>

\* Faulty variant: only the first socket put into an empty queue is announced.
notify_oneIfFirst ==
  /\ \/ Len(m_queue) # 1 /\ UNCHANGED waiting
     \/ Len(m_queue) = 1 /\ waiting = {} /\ UNCHANGED waiting
     \/ Len(m_queue) = 1 /\ \E t \in waiting : waiting' = waiting \ {t}
  /\ UNCHANGED <<m_queue, m_stopped, openFds>>

notify_one ==
  /\ \/ waiting = {} /\ UNCHANGED waiting
     \/ \E t \in waiting : waiting' = waiting \ {t}
  /\ UNCHANGED <<m_queue, m_stopped, openFds>>

\* dequeue by thread t, one disjunct of its behaviour each: the predicate
\* fails and t blocks; the oldest socket is returned; nullopt is returned.
DequeueWait(t) ==
  /\ t \notin waiting
  /\ m_queue = <<>> /\ ~m_stopped
  /\ waiting' = waiting \cup {t}
  /\ UNCHANGED <<m_queue, m_stopped, openFds>>

\* Faulty variant: front() without pop().
DequeueSocketNoPop(t) ==
  /\ t \notin waiting
  /\ m_queue # <<>>
  /\ UNCHANGED queueVars

DequeueSocket(t) ==
  /\ t \notin waiting
  /\ m_queue # <<>>
  /\ m_queue' = Tail(m_queue)
  /\ UNCHANGED <<m_stopped, waiting, openFds>>

DequeueNull(t) ==
  /\ t \notin waiting
  /\ m_queue = <<>> /\ m_stopped
  /\ UNCHANGED queueVars

\* m_cv.wait may return without a notification.
SpuriousWakeup(t) ==
  /\ t \in waiting
  /\ waiting' = waiting \ {t}
  /\ UNCHANGED <<m_queue, m_stopped, openFds>>

\* Faulty variant: the queue is emptied and nothing is closed.
StopLeaks ==
  /\ ~m_stopped
  /\ m_stopped' = TRUE
  /\ m_queue' = <<>>
  /\ UNCHANGED <<waiting, openFds>>

\* stop, up to the unlock, for the call that finds m_stopped unset; a later
\* call returns at once and changes nothing.
Stop ==
  /\ ~m_stopped
  /\ m_stopped' = TRUE
  /\ openFds' = openFds \ Queued
  /\ m_queue' = <<>>
  /\ UNCHANGED waiting

\* Faulty variant: notify_one where notify_all is needed.
notify_allOne == notify_one

notify_all ==
  /\ waiting' = {}
  /\ UNCHANGED <<m_queue, m_stopped, openFds>>
=============================================================================
