-------------------------- MODULE WorkQueueProofs ---------------------------
(***************************************************************************)
(* Theorems about WorkQueueThreads for any numbers of producers, consumers *)
(* and sockets: what stop() leaves behind, that no wakeup is lost, and     *)
(* that every step of the threads is a step of HandoffQueue or invisible   *)
(* to its users.                                                           *)
(***************************************************************************)
EXTENDS WorkQueueThreads, SequenceLemmas, FiniteSetTheorems, TLAPS

(***************************************************************************)
(* Where a socket is.  A queued one is open and nobody's; one that was not *)
(* enqueued is untouched; a consumer processes only what it has taken; and *)
(* an enqueued socket that is open is queued or being processed.           *)
(***************************************************************************)
Places ==
  /\ Injective(m_queue)
  /\ \A s \in Elements(m_queue) :
       s \in enqueued /\ s \in openFds /\ takenBy[s] = Nobody
  /\ \A s \in Sockets \ enqueued : s \in openFds /\ takenBy[s] = Nobody
  /\ \A c \in Consumers :
       cpc[c] = "process" => cfd[c] \in enqueued /\ takenBy[cfd[c]] = c
  /\ \A s \in enqueued \cap openFds :
       \/ s \in Elements(m_queue)
       \/ \E c \in Consumers : cpc[c] = "process" /\ cfd[c] = s
  /\ m_stopped => m_queue = <<>>

\* A thread blocked in m_cv.wait is inside dequeue.
WaitInDequeue == \A c \in waiting : cpc[c] = "dequeue"

Inv == TypeOK /\ Places /\ WaitInDequeue

LEMMA InvInit == Init => Inv
<1> SUFFICES ASSUME Init PROVE Inv OBVIOUS
<1>1. TypeOK
  <2>1. m_queue \in Seq(Sockets) /\ waiting \in SUBSET Consumers
    BY DEF Init, QueueInit
  <2>2. m_stopped \in BOOLEAN BY DEF Init, QueueInit
  <2>3. QED BY <2>1, <2>2 DEF Init, TypeOK
<1>2. Elements(m_queue) = {} /\ Injective(m_queue)
  BY DEF Init, QueueInit, Elements, Injective
<1>3. Places BY <1>2, ThreadsAssumption DEF Init, QueueInit, Places
<1>4. QED BY <1>1, <1>3 DEF Inv, WaitInDequeue, Init, QueueInit

\* enqueue puts a socket at the end, or closes it in a stopped queue.
LEMMA InvEnqueue ==
  ASSUME Inv, NEW p \in Producers, NEW s \in Sockets, ProducerEnqueue(p, s)
  PROVE  Inv'
<1> USE DEF Inv, ProducerEnqueue, Enqueue
<1>1. s \notin enqueued /\ s \notin Elements(m_queue) /\ takenBy[s] = Nobody
  BY DEF Places
<1>2. TypeOK'
  <2>1. m_queue' \in Seq(Sockets) /\ openFds' \in SUBSET Sockets
    <3>1. m_queue \in Seq(Sockets) /\ openFds \in SUBSET Sockets BY DEF TypeOK
    <3>2. Append(m_queue, s) \in Seq(Sockets) BY <3>1, StreamAppend
    <3>3. QED BY <3>1, <3>2
  <2>2. ppc' \in [Producers -> {"ready", "notify"}] BY DEF TypeOK
  <2>3. QED BY <2>1, <2>2 DEF TypeOK
<1>3. WaitInDequeue' BY DEF WaitInDequeue
<1>4. CASE m_stopped
  <2>1. m_queue' = m_queue /\ openFds' = openFds \ {s} /\ m_queue = <<>>
    BY <1>4 DEF Places
  <2>2. Elements(m_queue') = Elements(m_queue) /\ Elements(m_queue) = {}
    BY <2>1 DEF Elements
  <2>3. Places' BY <1>1, <2>1, <2>2 DEF Places, TypeOK
  <2>4. QED BY <1>2, <1>3, <2>3
<1>5. CASE ~m_stopped
  <2>1. m_queue' = Append(m_queue, s) /\ openFds' = openFds BY <1>5
  <2>2. /\ Elements(m_queue') = Elements(m_queue) \cup {s}
        /\ Injective(m_queue')
    BY <1>1, <2>1, AppendElements DEF TypeOK, Places
  <2>3. Places' BY <1>1, <1>5, <2>1, <2>2 DEF Places, TypeOK
  <2>4. QED BY <1>2, <1>3, <2>3
<1>6. QED BY <1>4, <1>5

\* dequeue gives the oldest socket to one consumer.
LEMMA InvTake ==
  ASSUME Inv, NEW c \in Consumers, ConsumerTake(c)
  PROVE  /\ Inv'
         /\ Head(m_queue) \in Elements(m_queue) /\ Head(m_queue) \in Sockets
<1> USE DEF Inv
<1> DEFINE h == Head(m_queue)
<1>1. /\ m_queue # <<>> /\ m_queue' = Tail(m_queue) /\ c \notin waiting
      /\ cpc[c] = "dequeue" /\ cpc' = [cpc EXCEPT ![c] = "process"]
      /\ cfd' = [cfd EXCEPT ![c] = h] /\ takenBy' = [takenBy EXCEPT ![h] = c]
      /\ UNCHANGED <<m_stopped, waiting, openFds, ppc, spc, enqueued>>
  BY DEF ConsumerTake, DequeueSocket
<1>2. /\ Elements(m_queue') = Elements(m_queue) \ {h}
      /\ Injective(m_queue')
      /\ h \in Elements(m_queue)
  BY <1>1, TailElements DEF TypeOK, Places
<1>3. h \in Sockets BY <1>1 DEF TypeOK
<1>4. m_queue' \in Seq(Sockets) BY <1>1 DEF TypeOK
<1> HIDE DEF h
<1>5. TypeOK' BY <1>1, <1>3, <1>4, ThreadsAssumption DEF TypeOK
<1>6. WaitInDequeue' BY <1>1 DEF WaitInDequeue, TypeOK
<1>7. Places'
  <2>1. \A s \in Elements(m_queue') :
          s \in enqueued' /\ s \in openFds' /\ takenBy'[s] = Nobody
    BY <1>1, <1>2, <1>3 DEF Places, TypeOK
  <2>2. \A s \in Sockets \ enqueued' : s \in openFds' /\ takenBy'[s] = Nobody
    BY <1>1, <1>2, <1>3 DEF Places, TypeOK
  <2>3. \A d \in Consumers :
          cpc'[d] = "process" => cfd'[d] \in enqueued' /\ takenBy'[cfd'[d]] = d
    <3> SUFFICES ASSUME NEW d \in Consumers, cpc'[d] = "process"
                 PROVE  cfd'[d] \in enqueued' /\ takenBy'[cfd'[d]] = d
      OBVIOUS
    <3>1. CASE d = c BY <3>1, <1>1, <1>2, <1>3 DEF Places, TypeOK
    <3>2. CASE d # c
      <4>1. cpc[d] = "process" /\ cfd'[d] = cfd[d] /\ takenBy[cfd[d]] = d
        BY <3>2, <1>1 DEF Places, TypeOK
      <4>2. cfd[d] # h BY <4>1, <1>2, ThreadsAssumption DEF Places
      <4>3. cfd[d] \in Sockets /\ cfd[d] \in enqueued BY <4>1 DEF Places, TypeOK
      <4>4. QED BY <4>1, <4>2, <4>3, <1>1 DEF TypeOK
    <3>3. QED BY <3>1, <3>2
  <2>4. \A s \in enqueued' \cap openFds' :
          \/ s \in Elements(m_queue')
          \/ \E d \in Consumers : cpc'[d] = "process" /\ cfd'[d] = s
    BY <1>1, <1>2 DEF Places, TypeOK
  <2>5. m_stopped' => m_queue' = <<>> BY <1>1 DEF Places
  <2>6. QED BY <1>2, <2>1, <2>2, <2>3, <2>4, <2>5 DEF Places
<1>8. QED BY <1>2, <1>3, <1>5, <1>6, <1>7 DEF h

\* The teardown closes the socket the consumer has taken, and no other.
LEMMA InvProcess ==
  ASSUME Inv, NEW c \in Consumers, ConsumerProcess(c)
  PROVE  /\ Inv' /\ cfd[c] \in Sockets /\ takenBy[cfd[c]] = c
<1> USE DEF Inv, ConsumerProcess
<1>1. cfd[c] \in enqueued /\ takenBy[cfd[c]] = c /\ cfd[c] \in Sockets
  BY DEF Places, TypeOK
<1>2. TypeOK' BY DEF TypeOK
<1>3. WaitInDequeue' BY DEF WaitInDequeue, TypeOK
<1>4. Elements(m_queue') = Elements(m_queue) /\ cfd[c] \notin Elements(m_queue)
  BY <1>1, ThreadsAssumption DEF Places
<1>5. \A d \in Consumers : cpc'[d] = "process" => d # c /\ cpc[d] = "process" /\ cfd'[d] = cfd[d]
  BY DEF TypeOK
<1>6. \A s \in Sockets \ enqueued : s # cfd[c] BY <1>1
<1>7. Places'
  <2>1. \A s \in enqueued' \cap openFds' :
          \/ s \in Elements(m_queue')
          \/ \E d \in Consumers : cpc'[d] = "process" /\ cfd'[d] = s
    BY <1>4 DEF Places, TypeOK
  <2>2. \A s \in Elements(m_queue') :
          s \in enqueued' /\ s \in openFds' /\ takenBy'[s] = Nobody
    BY <1>4 DEF Places
  <2>3. QED BY <1>5, <1>6, <2>1, <2>2 DEF Places
<1>8. QED BY <1>1, <1>2, <1>3, <1>7

\* stop() closes and drops what is queued.
LEMMA InvStop == ASSUME Inv, StopperStop PROVE Inv'
<1> USE DEF Inv, StopperStop, Stop
<1>1. Queued = Elements(m_queue) BY DEF Queued, Elements
<1>2. m_queue' = <<>> /\ Elements(m_queue') = {} /\ Injective(m_queue')
  BY DEF Elements, Injective
<1>3. openFds' = openFds \ Elements(m_queue) BY <1>1
<1>4. TypeOK' BY DEF TypeOK
<1>5. WaitInDequeue' BY DEF WaitInDequeue
<1>6. Places' BY <1>2, <1>3 DEF Places
<1>7. QED BY <1>4, <1>5, <1>6

\* What the remaining steps leave alone.
placeVars == <<m_queue, m_stopped, openFds, enqueued, cfd, takenBy>>

LEMMA PlacesUnchanged ==
  ASSUME Places, UNCHANGED placeVars,
         \A c \in Consumers : cpc'[c] = "process" <=> cpc[c] = "process"
  PROVE  Places'
  BY DEF Places, placeVars, Elements, Injective

\* Every step of every thread preserves Inv.
LEMMA InvNext == Inv /\ [Next]_vars => Inv'
<1> SUFFICES ASSUME Inv, [Next]_vars PROVE Inv' OBVIOUS
<1>1. ASSUME NEW p \in Producers, ProducerNotify(p) PROVE Inv'
  <2>1. TypeOK' BY <1>1 DEF Inv, TypeOK, ProducerNotify, notify_one
  <2>2. Places'
    BY <1>1, PlacesUnchanged DEF Inv, ProducerNotify, notify_one, placeVars
  <2>3. WaitInDequeue'
    BY <1>1 DEF Inv, WaitInDequeue, ProducerNotify, notify_one
  <2>4. QED BY <2>1, <2>2, <2>3 DEF Inv
<1>2. ASSUME NEW c \in Consumers, ConsumerWait(c) PROVE Inv'
  <2>1. TypeOK' BY <1>2 DEF Inv, TypeOK, ConsumerWait, DequeueWait
  <2>2. Places'
    BY <1>2, PlacesUnchanged DEF Inv, ConsumerWait, DequeueWait, placeVars
  <2>3. WaitInDequeue'
    BY <1>2 DEF Inv, WaitInDequeue, ConsumerWait, DequeueWait
  <2>4. QED BY <2>1, <2>2, <2>3 DEF Inv
<1>3. ASSUME NEW c \in Consumers, ConsumerExit(c) PROVE Inv'
  <2> USE DEF Inv, ConsumerExit, DequeueNull, queueVars
  <2>1. TypeOK' BY <1>3 DEF TypeOK
  <2>2. Places' BY <1>3, PlacesUnchanged DEF placeVars, TypeOK
  <2>3. WaitInDequeue' BY <1>3 DEF WaitInDequeue, TypeOK
  <2>4. QED BY <2>1, <2>2, <2>3
<1>4. ASSUME NEW c \in Consumers, ConsumerSpurious(c) PROVE Inv'
  <2> USE DEF Inv, ConsumerSpurious, SpuriousWakeup
  <2>1. TypeOK' BY <1>4 DEF TypeOK
  <2>2. Places' BY <1>4, PlacesUnchanged DEF placeVars
  <2>3. WaitInDequeue' BY <1>4 DEF WaitInDequeue
  <2>4. QED BY <2>1, <2>2, <2>3
<1>5. CASE StopperNotify
  <2> USE DEF Inv, StopperNotify, notify_all
  <2>1. TypeOK' BY <1>5 DEF TypeOK
  <2>2. Places' BY <1>5, PlacesUnchanged DEF placeVars
  <2>3. WaitInDequeue' BY <1>5 DEF WaitInDequeue
  <2>4. QED BY <2>1, <2>2, <2>3
<1>6. CASE UNCHANGED vars
  <2>1. TypeOK' BY <1>6 DEF Inv, TypeOK, vars, queueVars
  <2>2. Places' BY <1>6, PlacesUnchanged DEF Inv, placeVars, vars, queueVars
  <2>3. WaitInDequeue' BY <1>6 DEF Inv, WaitInDequeue, vars, queueVars
  <2>4. QED BY <2>1, <2>2, <2>3 DEF Inv
<1>7. QED
  BY <1>1, <1>2, <1>3, <1>4, <1>5, <1>6, InvEnqueue, InvTake, InvProcess, InvStop
  DEF Next, Producer, Consumer, Finished

THEOREM SpecInv == Spec => []Inv
<1>1. QED BY InvInit, InvNext, PTL DEF Spec

\* Type correctness: in particular a consumer has a socket exactly while it
\* processes one.
THEOREM TypeCorrect == Spec => []TypeOK
<1>1. Inv => TypeOK BY DEF Inv
<1>2. QED BY SpecInv, <1>1, PTL

\* WorkQueue::stop leaves nothing pending and leaks no descriptor, whatever
\* enqueue and dequeue do around it.
THEOREM StopLeavesNothing == Spec => []StopClosesPending
<1>1. Inv => StopClosesPending
  <2> SUFFICES ASSUME Inv, m_stopped PROVE StopClosesPending
    BY DEF StopClosesPending
  <2>1. m_queue = <<>> /\ Elements(m_queue) = {}
    BY DEF Inv, Places, Elements
  <2>2. QED BY <2>1 DEF Inv, Places, StopClosesPending
<1>2. QED BY SpecInv, <1>1, PTL
-----------------------------------------------------------------------------
(***************************************************************************)
(* The wakeups.  With Inv, NoLostWakeup is preserved by every step:        *)
(* enqueue adds a socket and a notification to be sent, notify_one turns a *)
(* notification into an awake consumer, and a consumer that takes a socket *)
(* is no longer on its way to the queue.                                   *)
(***************************************************************************)
LEMMA CountsFinite ==
  /\ IsFiniteSet(Notifying) /\ Cardinality(Notifying) \in Nat
  /\ IsFiniteSet(Awake) /\ Cardinality(Awake) \in Nat
<1>1. IsFiniteSet(Notifying) /\ IsFiniteSet(Awake)
  BY FS_Subset, ThreadsAssumption DEF Notifying, Awake
<1>2. QED BY <1>1, FS_CardinalityType

LEMMA WakeupEnqueue ==
  ASSUME Inv, NoLostWakeup,
         NEW p \in Producers, NEW s \in Sockets, ProducerEnqueue(p, s)
  PROVE  NoLostWakeup'
<1> USE DEF ProducerEnqueue, Enqueue
<1>1. Awake' = Awake /\ waiting' = waiting BY DEF Awake
<1>2. CASE m_stopped
  <2>1. Notifying' = Notifying /\ m_queue' = m_queue
    BY <1>2 DEF Notifying, Inv, TypeOK
  <2>2. QED BY <1>1, <2>1 DEF NoLostWakeup
<1>3. CASE ~m_stopped
  <2>1. Notifying' = Notifying \cup {p} /\ p \notin Notifying
    BY <1>3 DEF Notifying, Inv, TypeOK
  <2>2. Cardinality(Notifying') = Cardinality(Notifying) + 1
    BY <2>1, CountsFinite, FS_AddElement
  <2>3. Len(m_queue') = Len(m_queue) + 1 /\ Len(m_queue) \in Nat
    BY <1>3 DEF Inv, TypeOK
  <2>4. QED BY <1>1, <2>2, <2>3, CountsFinite DEF NoLostWakeup
<1>4. QED BY <1>2, <1>3

LEMMA WakeupNotify ==
  ASSUME Inv, NoLostWakeup, NEW p \in Producers, ProducerNotify(p)
  PROVE  NoLostWakeup'
<1> USE DEF ProducerNotify, notify_one
<1>1. CASE waiting = {} BY <1>1 DEF NoLostWakeup
<1>2. CASE waiting # {}
  <2>1. PICK t \in waiting : waiting' = waiting \ {t} BY <1>2
  <2>2. t \in Consumers /\ cpc[t] = "dequeue"
    BY DEF Inv, TypeOK, WaitInDequeue
  <2>3. Awake' = Awake \cup {t} /\ t \notin Awake BY <2>1, <2>2 DEF Awake
  <2>4. Notifying' = Notifying \ {p} /\ p \in Notifying
    BY DEF Notifying, Inv, TypeOK
  <2>5. /\ Cardinality(Awake') = Cardinality(Awake) + 1
        /\ Cardinality(Notifying') = Cardinality(Notifying) - 1
    BY <2>3, <2>4, CountsFinite, FS_AddElement, FS_RemoveElement
  <2>6. Len(m_queue) <= Cardinality(Notifying) + Cardinality(Awake)
    BY <1>2 DEF NoLostWakeup
  <2>7. m_queue' = m_queue OBVIOUS
  <2>8. QED BY <2>5, <2>6, <2>7, CountsFinite DEF NoLostWakeup
<1>3. QED BY <1>1, <1>2

LEMMA WakeupTake ==
  ASSUME Inv, NoLostWakeup, NEW c \in Consumers, ConsumerTake(c)
  PROVE  NoLostWakeup'
<1> USE DEF ConsumerTake, DequeueSocket
<1>1. Awake' = Awake \ {c} /\ c \in Awake BY DEF Awake, Inv, TypeOK
<1>2. Notifying' = Notifying /\ waiting' = waiting BY DEF Notifying
<1>3. Cardinality(Awake') = Cardinality(Awake) - 1
  BY <1>1, CountsFinite, FS_RemoveElement
<1>4. Len(m_queue') = Len(m_queue) - 1 /\ Len(m_queue) \in Nat
  BY DEF Inv, TypeOK
<1>5. QED BY <1>2, <1>3, <1>4, CountsFinite DEF NoLostWakeup

\* A consumer that comes back for another socket, or wakes by itself, is one
\* more on its way to the queue.
LEMMA WakeupComesBack ==
  ASSUME Inv, NoLostWakeup, NEW c \in Consumers,
         ConsumerProcess(c) \/ ConsumerSpurious(c)
  PROVE  NoLostWakeup'
<1> USE DEF ConsumerProcess, ConsumerSpurious, SpuriousWakeup
<1>1. Awake' = Awake \cup {c}
  <2>1. CASE ConsumerProcess(c)
    BY <2>1 DEF Awake, Inv, TypeOK, WaitInDequeue
  <2>2. CASE ConsumerSpurious(c)
    BY <2>2 DEF Awake, Inv, TypeOK, WaitInDequeue
  <2>3. QED BY <2>1, <2>2
<1>2. Cardinality(Awake') >= Cardinality(Awake) /\ Cardinality(Awake') \in Nat
  <2>1. Cardinality(Awake \cup {c}) =
          IF c \in Awake THEN Cardinality(Awake) ELSE Cardinality(Awake) + 1
    BY CountsFinite, FS_AddElement
  <2>2. QED BY <1>1, <2>1, CountsFinite
<1>3. Notifying' = Notifying /\ waiting' \subseteq waiting BY DEF Notifying
<1>4. m_queue' = m_queue /\ Len(m_queue) \in Nat BY DEF Inv, TypeOK
<1>5. QED BY <1>2, <1>3, <1>4, CountsFinite DEF NoLostWakeup

\* The steps after which the queue is empty.
LEMMA WakeupEmpty == ASSUME m_queue' = <<>>, Inv' PROVE NoLostWakeup'
<1>1. Len(m_queue') = 0 OBVIOUS
<1>2. Cardinality(Notifying') \in Nat /\ Cardinality(Awake') \in Nat
  <2>1. IsFiniteSet(Notifying') /\ IsFiniteSet(Awake')
    BY FS_Subset, ThreadsAssumption DEF Notifying, Awake
  <2>2. QED BY <2>1, FS_CardinalityType
<1>3. QED BY <1>1, <1>2 DEF NoLostWakeup

\* No wakeup is lost, for any numbers of producers and consumers, although
\* enqueue notifies after it has unlocked the mutex.
THEOREM NoWakeupIsLost == Spec => []NoLostWakeup
<1>1. Init => NoLostWakeup BY DEF Init, QueueInit, NoLostWakeup
<1>2. Inv /\ NoLostWakeup /\ [Next]_vars => NoLostWakeup'
  <2> SUFFICES ASSUME Inv, NoLostWakeup, [Next]_vars PROVE NoLostWakeup' OBVIOUS
  <2>1. Inv' BY InvNext
  <2>2. ASSUME NEW c \in Consumers, ConsumerWait(c) \/ ConsumerExit(c)
        PROVE  NoLostWakeup'
    BY <2>1, <2>2, WakeupEmpty
    DEF ConsumerWait, DequeueWait, ConsumerExit, DequeueNull, queueVars
  <2>3. CASE StopperStop BY <2>1, <2>3, WakeupEmpty DEF StopperStop, Stop
  <2>4. CASE StopperNotify BY <2>4 DEF StopperNotify, notify_all, NoLostWakeup
  <2>5. CASE UNCHANGED vars
    BY <2>5 DEF vars, queueVars, NoLostWakeup, Notifying, Awake
  <2>6. QED
    BY <2>2, <2>3, <2>4, <2>5, WakeupEnqueue, WakeupNotify, WakeupTake,
       WakeupComesBack
    DEF Next, Producer, Consumer, Finished
<1>3. QED BY SpecInv, <1>1, <1>2, PTL DEF Spec
-----------------------------------------------------------------------------
(***************************************************************************)
(* Refinement.  The mapping is that of Handoff: the sockets the queue has  *)
(* discarded are those that are closed and that nobody took.               *)
(***************************************************************************)
Discarded == {s \in Sockets : s \notin openFds /\ takenBy[s] = Nobody}

\* The initial states of the threads are initial states of HandoffQueue.
LEMMA RefineInit == Init => Handoff!Init
<1> SUFFICES ASSUME Init PROVE Handoff!Init OBVIOUS
<1>1. Discarded = {} BY DEF Init, Discarded
<1>2. QED BY <1>1 DEF Init, QueueInit, Handoff!Init, Discarded

\* The steps that touch neither the queue nor the sockets it handles.
LEMMA RefineStutter ==
  ASSUME UNCHANGED <<m_queue, m_stopped, takenBy>>, Discarded' = Discarded
  PROVE  UNCHANGED Handoff!vars
  BY DEF Handoff!vars, Discarded

LEMMA RefineEnqueue ==
  ASSUME Inv, NEW p \in Producers, NEW s \in Sockets, ProducerEnqueue(p, s)
  PROVE  Handoff!Put(s)
<1> USE DEF ProducerEnqueue, Enqueue
<1>1. s \in openFds /\ takenBy[s] = Nobody /\ s \notin Elements(m_queue)
  BY DEF Inv, Places
<1>2. Handoff!InPending = Elements(m_queue) BY DEF Handoff!InPending, Elements
<1>3. Handoff!Fresh(s) BY <1>1, <1>2 DEF Handoff!Fresh
<1>4. CASE m_stopped
  <2>1. Discarded' = Discarded \cup {s} BY <1>1, <1>4 DEF Discarded
  <2>2. QED BY <1>3, <1>4, <2>1 DEF Handoff!Put, Discarded
<1>5. CASE ~m_stopped
  <2>1. Discarded' = Discarded BY <1>5 DEF Discarded
  <2>2. QED BY <1>3, <1>5, <2>1 DEF Handoff!Put, Discarded
<1>6. QED BY <1>4, <1>5

LEMMA RefineTake ==
  ASSUME Inv, NEW c \in Consumers, ConsumerTake(c)
  PROVE  Handoff!HandOver(c)
<1> USE DEF ConsumerTake, DequeueSocket
<1>1. Head(m_queue) \in Elements(m_queue) /\ Head(m_queue) \in Sockets BY InvTake
<1>2. Head(m_queue) \in openFds BY <1>1 DEF Inv, Places
<1>3. Discarded' = Discarded
  <2>1. ASSUME NEW s \in Sockets, s \notin openFds PROVE takenBy'[s] = takenBy[s]
    BY <1>1, <1>2, <2>1 DEF Inv, TypeOK
  <2>2. openFds' = openFds OBVIOUS
  <2>3. QED BY <2>1, <2>2 DEF Discarded
<1>4. QED BY <1>3 DEF Handoff!HandOver, Discarded

LEMMA RefineStop == ASSUME Inv, StopperStop PROVE Handoff!Shut
<1> USE DEF StopperStop, Stop
<1>1. Queued = Elements(m_queue) /\ Handoff!InPending = Elements(m_queue)
  BY DEF Handoff!InPending, Elements, Queued
<1>2. \A s \in Elements(m_queue) : s \in Sockets /\ takenBy[s] = Nobody
  BY DEF Inv, Places, TypeOK
<1>3. Discarded' = Discarded \cup Elements(m_queue)
  BY <1>1, <1>2 DEF Discarded
<1>4. QED BY <1>1, <1>3 DEF Handoff!Shut, Discarded

\* Every step of the threads is a step of HandoffQueue or a stutter: each
\* socket is handed to one consumer, in order, or discarded once the queue is
\* shut.  (That a pending socket is handed over in the end is checked by TLC.)
THEOREM ImplementsHandoff == Spec => Handoff!Init /\ [][Handoff!Next]_(Handoff!vars)
<1>1. Inv /\ [Next]_vars => [Handoff!Next]_(Handoff!vars)
  <2> SUFFICES ASSUME Inv, [Next]_vars PROVE [Handoff!Next]_(Handoff!vars) OBVIOUS
  <2>1. ASSUME NEW c \in Consumers, ConsumerProcess(c) PROVE UNCHANGED Handoff!vars
    <3>1. cfd[c] \in Sockets /\ takenBy[cfd[c]] # Nobody
      BY <2>1, InvProcess, ThreadsAssumption
    <3>2. Discarded' = Discarded BY <2>1, <3>1 DEF ConsumerProcess, Discarded
    <3>3. QED BY <2>1, <3>2, RefineStutter DEF ConsumerProcess
  <2>2. CASE UNCHANGED <<m_queue, m_stopped, takenBy, openFds>>
    BY <2>2, RefineStutter DEF Discarded
  <2>3. CASE \E p \in Producers : Producer(p)
    BY <2>2, <2>3, RefineEnqueue
    DEF Producer, ProducerNotify, notify_one, Handoff!Next
  <2>4. CASE \E c \in Consumers : Consumer(c) \/ ConsumerSpurious(c)
    BY <2>1, <2>2, <2>4, RefineTake
    DEF Consumer, ConsumerWait, DequeueWait, ConsumerExit, DequeueNull,
        queueVars, ConsumerSpurious, SpuriousWakeup, Handoff!Next
  <2>5. CASE StopperStop BY <2>5, RefineStop DEF Handoff!Next
  <2>6. CASE StopperNotify BY <2>2, <2>6 DEF StopperNotify, notify_all
  <2>7. CASE UNCHANGED vars BY <2>2, <2>7 DEF vars, queueVars
  <2>8. QED BY <2>3, <2>4, <2>5, <2>6, <2>7 DEF Next, Finished
<1>2. QED BY SpecInv, RefineInit, <1>1, PTL DEF Spec
=============================================================================
