-------------------------- MODULE WorkQueueThreads --------------------------
(***************************************************************************)
(* WorkQueue used by any number of producer and consumer threads and by    *)
(* one thread that stops it at any moment.  The server has one producer    *)
(* (the accept loop); the queue's own tests use several.                   *)
(***************************************************************************)
EXTENDS WorkQueue, FiniteSets, Naturals

CONSTANTS Sockets,    \* the accepted descriptors, each enqueued once
          Producers,
          Consumers,
          Nobody      \* no consumer, no socket

ASSUME ThreadsAssumption ==
  /\ IsFiniteSet(Producers)
  /\ IsFiniteSet(Consumers)
  /\ Nobody \notin Consumers
  /\ Nobody \notin Sockets

VARIABLES
  ppc,        \* producers: "ready" or between the unlock and "notify"_one
  cpc,        \* consumers: in "dequeue", in "process" or "exited"
  cfd,        \* the socket a consumer processes
  spc,        \* the stopping thread: "run", "notify"_all, "done"
  enqueued,   \* history: the sockets passed to enqueue
  takenBy     \* history: the consumer that dequeued each socket

vars == <<queueVars, ppc, cpc, cfd, spc, enqueued, takenBy>>

\* Types; a consumer has a socket exactly while it processes one.
TypeOK ==
  /\ m_queue \in Seq(Sockets)
  /\ m_stopped \in BOOLEAN
  /\ waiting \in SUBSET Consumers
  /\ openFds \in SUBSET Sockets
  /\ ppc \in [Producers -> {"ready", "notify"}]
  /\ cpc \in [Consumers -> {"dequeue", "process", "exited"}]
  /\ cfd \in [Consumers -> Sockets \cup {Nobody}]
  /\ \A c \in Consumers : cpc[c] = "process" <=> cfd[c] # Nobody
  /\ spc \in {"run", "notify", "done"}
  /\ enqueued \in SUBSET Sockets
  /\ takenBy \in [Sockets -> Consumers \cup {Nobody}]

Init ==
  /\ QueueInit
  /\ openFds = Sockets
  /\ ppc = [p \in Producers |-> "ready"]
  /\ cpc = [c \in Consumers |-> "dequeue"]
  /\ cfd = [c \in Consumers |-> Nobody]
  /\ spc = "run"
  /\ enqueued = {}
  /\ takenBy = [s \in Sockets |-> Nobody]

ProducerEnqueue(p, s) ==
  /\ ppc[p] = "ready"
  /\ s \notin enqueued
  /\ Enqueue(s)
  /\ enqueued' = enqueued \cup {s}
  /\ ppc' = [ppc EXCEPT ![p] = IF m_stopped THEN "ready" ELSE "notify"]
  /\ UNCHANGED <<cpc, cfd, spc, takenBy>>

ProducerNotify(p) ==
  /\ ppc[p] = "notify"
  /\ notify_one
  /\ ppc' = [ppc EXCEPT ![p] = "ready"]
  /\ UNCHANGED <<cpc, cfd, spc, enqueued, takenBy>>

ConsumerWait(c) ==
  /\ cpc[c] = "dequeue"
  /\ DequeueWait(c)
  /\ UNCHANGED <<ppc, cpc, cfd, spc, enqueued, takenBy>>

ConsumerTake(c) ==
  /\ cpc[c] = "dequeue"
  /\ DequeueSocket(c)
  /\ cpc' = [cpc EXCEPT ![c] = "process"]
  /\ cfd' = [cfd EXCEPT ![c] = Head(m_queue)]
  /\ takenBy' = [takenBy EXCEPT ![Head(m_queue)] = c]
  /\ UNCHANGED <<ppc, spc, enqueued>>

ConsumerProcess(c) ==
  /\ cpc[c] = "process"
  /\ cpc' = [cpc EXCEPT ![c] = "dequeue"]
  /\ cfd' = [cfd EXCEPT ![c] = Nobody]
  /\ openFds' = openFds \ {cfd[c]}
  /\ UNCHANGED <<m_queue, m_stopped, waiting, ppc, spc, enqueued, takenBy>>

ConsumerExit(c) ==
  /\ cpc[c] = "dequeue"
  /\ DequeueNull(c)
  /\ cpc' = [cpc EXCEPT ![c] = "exited"]
  /\ UNCHANGED <<ppc, cfd, spc, enqueued, takenBy>>

ConsumerSpurious(c) ==
  /\ SpuriousWakeup(c)
  /\ UNCHANGED <<ppc, cpc, cfd, spc, enqueued, takenBy>>

StopperStop ==
  /\ spc = "run"
  /\ Stop
  /\ spc' = "notify"
  /\ UNCHANGED <<ppc, cpc, cfd, enqueued, takenBy>>

StopperNotify ==
  /\ spc = "notify"
  /\ notify_all
  /\ spc' = "done"
  /\ UNCHANGED <<ppc, cpc, cfd, enqueued, takenBy>>

\* Everything was enqueued, the queue is stopped and the consumers are gone.
Finished ==
  /\ enqueued = Sockets
  /\ \A p \in Producers : ppc[p] = "ready"
  /\ \A c \in Consumers : cpc[c] = "exited"
  /\ UNCHANGED vars

Producer(p) == (\E s \in Sockets : ProducerEnqueue(p, s)) \/ ProducerNotify(p)

Consumer(c) ==
  ConsumerWait(c) \/ ConsumerTake(c) \/ ConsumerProcess(c) \/ ConsumerExit(c)

Next ==
  \/ \E p \in Producers : Producer(p)
  \/ \E c \in Consumers : Consumer(c) \/ ConsumerSpurious(c)
  \/ StopperStop
  \/ StopperNotify
  \/ Finished

\* Threads are scheduled; a spurious wakeup need never come and nobody is
\* obliged to enqueue or to stop, but a call that began goes on.
Spec ==
  /\ Init /\ [][Next]_vars
  /\ \A p \in Producers : WF_vars(ProducerNotify(p))
  /\ \A c \in Consumers : WF_vars(Consumer(c))
  /\ WF_vars(StopperNotify)
-----------------------------------------------------------------------------
Notifying == {p \in Producers : ppc[p] = "notify"}

\* Consumers that will test the predicate of dequeue without being notified.
Awake == {c \in Consumers : cpc[c] = "dequeue" /\ c \notin waiting}

\* No wakeup is lost although notify_one comes after the unlock: while a
\* consumer sleeps in dequeue, every socket in the queue is matched by a
\* notification still to be sent or by a consumer on its way to the queue.
NoLostWakeup ==
  waiting # {} => Len(m_queue) <= Cardinality(Notifying) + Cardinality(Awake)

\* "Any fd still in the queue at that point is closed to prevent descriptor
\* leaks": in a stopped queue nothing is pending, and an enqueued descriptor
\* that is still open belongs to the consumer that processes it.
StopClosesPending ==
  m_stopped =>
    /\ m_queue = <<>>
    /\ \A s \in enqueued \cap openFds :
         \E c \in Consumers : cpc[c] = "process" /\ cfd[c] = s

\* After stop() returns no dequeue blocks: every consumer that is not
\* processing a socket has been or will be told to exit.
StopReleasesConsumers ==
  \A c \in Consumers : (spc = "done") ~> (cpc[c] = "exited")

\* The queue implements its abstract specification: exactly one consumer
\* for each socket, in order, or closed by the queue after stop().
Handoff == INSTANCE HandoffQueue WITH
  pending <- m_queue,
  shut <- m_stopped,
  handedTo <- takenBy,
  discarded <- {s \in Sockets : s \notin openFds /\ takenBy[s] = Nobody}

\* Refinement of HandoffQueue, its liveness included.
HandoffSpec == Handoff!Spec
=============================================================================
