----------------------- MODULE ServerLifecycleProofs ------------------------
(***************************************************************************)
(* Theorems about ServerLifecycle, for any pool, any limit on clients and  *)
(* any set of descriptors.                                                 *)
(***************************************************************************)
EXTENDS ServerLifecycle, SequenceLemmas, FiniteSetTheorems, TLAPS

(***************************************************************************)
(* TypeOK alone is not inductive: enqueue stores acceptFd, which must be a *)
(* descriptor then, and that depends on where the accept loop is.  The     *)
(* order of the shutdown depends on where main() is in the same way.       *)
(***************************************************************************)
Holding ==
  /\ acceptPc \in {"check", "reject", "count", "enqueue"} <=> acceptFd # NoFd
  /\ \A w \in Workers :
       wpc[w] \in {"welcome", "serve", "handle", "close"} <=> wfd[w] # NoFd

ShutdownOrder ==
  /\ mainPc \in {"spawn", "abortNotify", "abortJoin", "start"} => acceptPc = "none"
  /\ mainPc \notin {"run", "stop", "shutListen", "joinAccept"}
       => acceptPc \in {"none", "exited"}
  /\ m_stopped <=> mainPc \in {"abortNotify", "abortJoin", "poolNotify", "arm",
                               "joinWorkers", "exited"}

Inv == TypeOK /\ Holding /\ ShutdownOrder

USE DEF MainGoTo, AcceptGoTo, WorkerGoTo

\* What the queue's operations do to the type of its variables.
LEMMA QueueTypes ==
  ASSUME NEW S, m_queue \in Seq(S)
  PROVE  /\ \A x \in S : Append(m_queue, x) \in Seq(S)
         /\ m_queue # <<>> => Head(m_queue) \in S /\ Tail(m_queue) \in Seq(S)
         /\ <<>> \in Seq(S)
  OBVIOUS

LEMMA InvInit == Init => Inv
<1> SUFFICES ASSUME Init PROVE Inv OBVIOUS
<1>1. activeConnections \in 0..CounterMax
  BY LifecycleAssumption DEF Init
<1>2. m_queue \in Seq(Fds) /\ waiting \in SUBSET Workers /\ openFds \in SUBSET Fds
  BY DEF Init, QueueInit
<1>3. TypeOK
  BY <1>1, <1>2 DEF Init, QueueInit, TypeOK
<1>4. Holding /\ ShutdownOrder
  BY DEF Init, QueueInit, Holding, ShutdownOrder
<1>5. QED
  BY <1>3, <1>4 DEF Inv

LEMMA InvMain == Inv /\ Main => Inv'
<1> SUFFICES ASSUME Inv, Main PROVE Inv' OBVIOUS
<1> USE DEF Inv, TypeOK, Holding, ShutdownOrder, queueVars, mainVars, acceptVars,
            workerVars
<1>1. CASE \E w \in Workers : SpawnWorker(w) BY <1>1 DEF SpawnWorker
<1>2. CASE PoolSpawned BY <1>2 DEF PoolSpawned
<1>3. CASE SpawnFails BY <1>3, QueueTypes DEF SpawnFails, Stop
<1>4. CASE SpawnFailsNotify BY <1>4 DEF SpawnFailsNotify, notify_all
<1>5. CASE SpawnFailsJoin BY <1>5 DEF SpawnFailsJoin
<1>6. CASE StartAcceptor BY <1>6 DEF StartAcceptor
<1>7. CASE LeaveMainLoop BY <1>7 DEF LeaveMainLoop
<1>8. CASE StoreStopFlag BY <1>8 DEF StoreStopFlag
<1>9. CASE ShutdownListen BY <1>9 DEF ShutdownListen
<1>10. CASE JoinAccept BY <1>10 DEF JoinAccept
<1>11. CASE ReturnFromMain BY <1>11 DEF ReturnFromMain
<1>12. CASE PoolStop BY <1>12, QueueTypes DEF PoolStop, Stop
<1>13. CASE PoolNotify BY <1>13 DEF PoolNotify, notify_all
<1>14. CASE ArmWatchdog BY <1>14 DEF ArmWatchdog
<1>15. CASE JoinWorkers BY <1>15 DEF JoinWorkers
<1>16. QED
  BY <1>1, <1>2, <1>3, <1>4, <1>5, <1>6, <1>7, <1>8, <1>9, <1>10, <1>11,
     <1>12, <1>13, <1>14, <1>15 DEF Main

LEMMA InvAcceptLoop == Inv /\ AcceptLoop => Inv'
<1> SUFFICES ASSUME Inv, AcceptLoop PROVE Inv' OBVIOUS
<1> USE LifecycleAssumption
    DEF Inv, TypeOK, Holding, ShutdownOrder, queueVars, mainVars, acceptVars,
        workerVars
<1>1. CASE TestStopFlag BY <1>1 DEF TestStopFlag
<1>2. CASE \E fd \in Fds : AcceptReturns(fd) BY <1>2 DEF AcceptReturns
<1>3. CASE \E error \in {"EINTR", "other"} : AcceptFails(error)
  BY <1>3 DEF AcceptFails
<1>4. CASE CheckCapacity BY <1>4 DEF CheckCapacity
<1>5. CASE RejectConnection BY <1>5 DEF RejectConnection
<1>6. CASE CountConnection BY <1>6 DEF CountConnection, fetch_add
<1>7. CASE EnqueueConnection BY <1>7, QueueTypes DEF EnqueueConnection, Enqueue
<1>8. CASE NotifyWorker BY <1>8 DEF NotifyWorker, notify_one
<1>9. QED
  BY <1>1, <1>2, <1>3, <1>4, <1>5, <1>6, <1>7, <1>8 DEF AcceptLoop

LEMMA InvWorker == ASSUME NEW w \in Workers, Inv, Worker(w) PROVE Inv'
<1> USE LifecycleAssumption
    DEF Inv, TypeOK, Holding, ShutdownOrder, queueVars, mainVars, acceptVars,
        workerVars
<1>1. CASE WorkerWaits(w) BY <1>1 DEF WorkerWaits, DequeueWait
<1>2. CASE WorkerWakes(w) BY <1>2 DEF WorkerWakes, SpuriousWakeup
<1>3. CASE WorkerTakes(w) BY <1>3, QueueTypes DEF WorkerTakes, DequeueSocket
<1>4. CASE WorkerExits(w) BY <1>4 DEF WorkerExits, DequeueNull
<1>5. CASE SendWelcome(w) BY <1>5 DEF SendWelcome
<1>6. CASE ReceiveFrame(w) BY <1>6 DEF ReceiveFrame
<1>7. CASE AnswerFrame(w) BY <1>7 DEF AnswerFrame
<1>8. CASE EndConnection(w) BY <1>8 DEF EndConnection
<1>9. CASE CloseConnection(w) BY <1>9 DEF CloseConnection
<1>10. CASE ReleaseSlot(w) BY <1>10 DEF ReleaseSlot, fetch_sub
<1>11. QED
  BY <1>1, <1>2, <1>3, <1>4, <1>5, <1>6, <1>7, <1>8, <1>9, <1>10 DEF Worker

LEMMA InvNext == Inv /\ [Next]_vars => Inv'
<1> SUFFICES ASSUME Inv, [Next]_vars PROVE Inv' OBVIOUS
<1> USE DEF Inv, TypeOK, Holding, ShutdownOrder, queueVars, mainVars, acceptVars,
            workerVars
<1>1. CASE Main BY <1>1, InvMain
<1>2. CASE AcceptLoop BY <1>2, InvAcceptLoop
<1>3. CASE \E w \in Workers : Worker(w) BY <1>3, InvWorker
<1>4. CASE signalHandler
  <2>1. /\ running' = FALSE
        /\ UNCHANGED <<queueVars, mainPc, status, returnCode, watchdog,
                       acceptVars, workerVars, activeConnections>>
    BY <1>4 DEF signalHandler
  <2>2. running' \in BOOLEAN BY <2>1
  <2>3. TypeOK' BY <2>1, <2>2
  <2>4. QED BY <2>1, <2>3
<1>5. CASE WatchdogFires BY <1>5 DEF WatchdogFires
<1>6. CASE UNCHANGED vars BY <1>6 DEF vars
<1>7. QED
  BY <1>1, <1>2, <1>3, <1>4, <1>5, <1>6 DEF Next, Exited

\* The inductive invariant holds in every reachable state.
THEOREM SpecInv == Spec => []Inv
<1>1. QED
  BY InvInit, InvNext, PTL DEF Spec

\* Type correctness, for any number of workers, clients and descriptors.
THEOREM TypeCorrect == Spec => []TypeOK
<1>1. Inv => TypeOK BY DEF Inv
<1>2. QED BY SpecInv, <1>1, PTL

\* The queue is stopped only after the accept loop is gone: no connection is
\* accepted into a stopped queue.
THEOREM QueueStopsLast == Spec => []AcceptorJoinedBeforeQueueStops
<1>1. Inv => AcceptorJoinedBeforeQueueStops
  BY DEF Inv, ShutdownOrder, AcceptorJoinedBeforeQueueStops
<1>2. QED BY SpecInv, <1>1, PTL
-----------------------------------------------------------------------------
(***************************************************************************)
(* Ownership of the descriptors                                            *)
(***************************************************************************)
ownerVars == <<m_queue, openFds, acceptFd, wfd>>

LEMMA OwnershipUnchanged == FdOwnership /\ UNCHANGED ownerVars => FdOwnership'
  BY DEF FdOwnership, ownerVars, Queued

\* WorkQueue::stop closes what is queued, and nothing that has another owner.
LEMMA OwnershipStop ==
  ASSUME Inv, FdOwnership, Stop, UNCHANGED <<acceptFd, wfd>>
  PROVE  FdOwnership'
<1>1. m_queue' = <<>> /\ DOMAIN m_queue' = {} /\ Queued' = {}
  BY DEF Stop, Queued
<1>2. openFds' = openFds \ Queued BY DEF Stop
<1>3. NoFd \notin Queued
  BY LifecycleAssumption DEF Inv, TypeOK, Queued
<1>4. QED BY <1>1, <1>2, <1>3 DEF FdOwnership

LEMMA OwnershipMain == Inv /\ FdOwnership /\ Main => FdOwnership'
<1> SUFFICES ASSUME Inv, FdOwnership, Main PROVE FdOwnership' OBVIOUS
<1> USE DEF queueVars, mainVars, acceptVars, workerVars
<1>1. CASE SpawnFails \/ PoolStop
  BY <1>1, OwnershipStop DEF SpawnFails, PoolStop
<1>2. CASE UNCHANGED ownerVars BY <1>2, OwnershipUnchanged
<1>3. SpawnFails \/ PoolStop \/ UNCHANGED ownerVars
  BY DEF Main, ownerVars, SpawnWorker, PoolSpawned, SpawnFailsNotify, notify_all,
     SpawnFailsJoin, StartAcceptor, LeaveMainLoop, StoreStopFlag,
     ShutdownListen, JoinAccept, ReturnFromMain, PoolNotify, ArmWatchdog,
     JoinWorkers
<1>4. QED BY <1>1, <1>2, <1>3

\* accept() opens a descriptor that nobody has, enqueue hands it over.
LEMMA OwnershipAcceptLoop == Inv /\ FdOwnership /\ AcceptLoop => FdOwnership'
<1> SUFFICES ASSUME Inv, FdOwnership, AcceptLoop PROVE FdOwnership' OBVIOUS
<1> USE DEF queueVars, mainVars, acceptVars, workerVars
<1>1. ASSUME NEW fd \in Fds, AcceptReturns(fd) PROVE FdOwnership'
  <2>1. acceptFd = NoFd /\ acceptFd' = fd /\ openFds' = openFds \cup {fd}
        /\ fd \notin openFds /\ fd # NoFd /\ UNCHANGED <<m_queue, wfd>>
    BY <1>1, LifecycleAssumption DEF AcceptReturns, Inv, Holding
  <2>2. fd \notin Queued /\ \A w \in Workers : wfd[w] # fd
    BY <2>1 DEF FdOwnership
  <2>3. Queued' = Queued BY <2>1 DEF Queued
  <2>4. QED BY <2>1, <2>2, <2>3 DEF FdOwnership
<1>2. CASE RejectConnection
  <2>1. acceptFd' = NoFd /\ acceptFd # NoFd /\ openFds' = openFds \ {acceptFd}
        /\ UNCHANGED <<m_queue, wfd>>
    BY <1>2 DEF RejectConnection, Inv, Holding
  <2>2. Queued' = Queued BY <2>1 DEF Queued
  <2>3. QED BY <2>1, <2>2 DEF FdOwnership
<1>3. CASE EnqueueConnection
  <2>1. /\ ~m_stopped
        /\ acceptFd # NoFd /\ acceptFd \in Fds /\ m_queue \in Seq(Fds)
    BY <1>3 DEF EnqueueConnection, Inv, TypeOK, Holding, ShutdownOrder
  <2>2. m_queue' = Append(m_queue, acceptFd) /\ acceptFd' = NoFd
        /\ UNCHANGED <<openFds, wfd>>
    BY <1>3, <2>1 DEF EnqueueConnection, Enqueue
  <2>3. Injective(m_queue) /\ Queued = Elements(m_queue)
        /\ Queued' = Elements(m_queue')
    BY DEF FdOwnership, Injective, Queued, Elements
  <2>4. acceptFd \notin Queued BY <2>1 DEF FdOwnership
  <2>5. Queued' = Queued \cup {acceptFd} /\ Injective(m_queue')
    BY <2>1, <2>2, <2>3, <2>4, AppendElements
  <2>6. \A w \in Workers : wfd[w] # acceptFd BY <2>1 DEF FdOwnership
  <2>7. QED BY <2>1, <2>2, <2>5, <2>6 DEF FdOwnership, Injective
<1>4. CASE UNCHANGED ownerVars BY <1>4, OwnershipUnchanged
<1>5. \/ \E fd \in Fds : AcceptReturns(fd)
      \/ RejectConnection \/ EnqueueConnection
      \/ UNCHANGED ownerVars
  BY DEF AcceptLoop, ownerVars, TestStopFlag, AcceptFails, CheckCapacity,
     CountConnection, NotifyWorker, notify_one
<1>6. QED BY <1>1, <1>2, <1>3, <1>4, <1>5

\* dequeue hands the oldest descriptor over, the teardown closes it.
LEMMA OwnershipWorker ==
  ASSUME NEW w \in Workers, Inv, FdOwnership, Worker(w)
  PROVE  FdOwnership'
<1> USE DEF queueVars, mainVars, acceptVars, workerVars
<1>1. CASE WorkerTakes(w)
  <2>1. /\ m_queue \in Seq(Fds) /\ m_queue # <<>>
        /\ wfd \in [Workers -> Fds \cup {NoFd}] /\ wfd[w] = NoFd
        /\ m_queue' = Tail(m_queue)
        /\ wfd' = [wfd EXCEPT ![w] = Head(m_queue)]
        /\ UNCHANGED <<openFds, acceptFd>>
    BY <1>1 DEF WorkerTakes, DequeueSocket, Inv, TypeOK, Holding
  <2>2. Injective(m_queue) /\ Queued = Elements(m_queue)
        /\ Queued' = Elements(m_queue')
    BY DEF FdOwnership, Injective, Queued, Elements
  <2>3. Queued' = Queued \ {Head(m_queue)} /\ Injective(m_queue')
        /\ Head(m_queue) \in Queued
    BY <2>1, <2>2, TailElements
  <2>4. wfd'[w] = Head(m_queue) /\ \A v \in Workers : v # w => wfd'[v] = wfd[v]
    BY <2>1
  <2>5. \A v \in Workers : wfd[v] # Head(m_queue) BY <2>3 DEF FdOwnership
  <2>6. Head(m_queue) # NoFd
    BY <2>1, QueueTypes, LifecycleAssumption
  <2>7. acceptFd # Head(m_queue)
    BY <2>3, <2>6 DEF FdOwnership
  <2>8. openFds' = ({acceptFd'} \cup Queued' \cup {wfd'[v] : v \in Workers}) \ {NoFd}
    BY <2>1, <2>3, <2>4 DEF FdOwnership
  <2>9. QED
    BY <2>1, <2>3, <2>4, <2>5, <2>6, <2>7, <2>8 DEF FdOwnership, Injective
<1>2. CASE CloseConnection(w)
  <2>1. /\ wfd \in [Workers -> Fds \cup {NoFd}] /\ wfd[w] # NoFd
        /\ wfd' = [wfd EXCEPT ![w] = NoFd]
        /\ openFds' = openFds \ {wfd[w]}
        /\ UNCHANGED <<m_queue, acceptFd>>
    BY <1>2 DEF CloseConnection, Inv, TypeOK, Holding
  <2>2. Queued' = Queued BY <2>1 DEF Queued
  <2>3. wfd'[w] = NoFd /\ \A v \in Workers : v # w => wfd'[v] = wfd[v]
    BY <2>1
  <2>4. /\ wfd[w] # acceptFd /\ wfd[w] \notin Queued
        /\ \A v \in Workers : v # w => wfd[v] # wfd[w]
    BY <2>1 DEF FdOwnership
  <2>5. openFds' = ({acceptFd'} \cup Queued' \cup {wfd'[v] : v \in Workers}) \ {NoFd}
    BY <2>1, <2>2, <2>3, <2>4 DEF FdOwnership
  <2>6. NoFd \notin Queued
    BY LifecycleAssumption DEF Inv, TypeOK, Queued
  <2>7. QED BY <2>1, <2>2, <2>3, <2>4, <2>5, <2>6 DEF FdOwnership
<1>3. CASE UNCHANGED ownerVars BY <1>3, OwnershipUnchanged
<1>4. WorkerTakes(w) \/ CloseConnection(w) \/ UNCHANGED ownerVars
  BY DEF Worker, ownerVars, WorkerWaits, DequeueWait, WorkerWakes,
     SpuriousWakeup, WorkerExits, DequeueNull, SendWelcome, ReceiveFrame,
     AnswerFrame, EndConnection, ReleaseSlot
<1>5. QED BY <1>1, <1>2, <1>3, <1>4

\* Every open descriptor has exactly one owner and every owned one is open,
\* in every state of every run: nothing leaks and nothing is closed twice.
THEOREM DescriptorsOwned == Spec => []FdOwnership
<1>1. Init => FdOwnership
  BY DEF Init, QueueInit, FdOwnership, Queued
<1>2. Inv /\ FdOwnership /\ [Next]_vars => FdOwnership'
  <2> SUFFICES ASSUME Inv, FdOwnership, [Next]_vars PROVE FdOwnership' OBVIOUS
  <2>1. CASE Main BY <2>1, OwnershipMain
  <2>2. CASE AcceptLoop BY <2>2, OwnershipAcceptLoop
  <2>3. CASE \E w \in Workers : Worker(w) BY <2>3, OwnershipWorker
  <2>4. CASE signalHandler \/ WatchdogFires \/ UNCHANGED vars
    <3>1. UNCHANGED ownerVars
      BY <2>4 DEF signalHandler, WatchdogFires, vars, queueVars, acceptVars,
         workerVars, ownerVars
    <3>2. QED BY <3>1, OwnershipUnchanged
  <2>5. QED BY <2>1, <2>2, <2>3, <2>4 DEF Next, Exited
<1>3. QED BY SpecInv, <1>1, <1>2, PTL DEF Spec
-----------------------------------------------------------------------------
(***************************************************************************)
(* The count of connections.  CounterExact and the limit are inductive     *)
(* together with what the accept loop has tested: between CheckCapacity    *)
(* and CountConnection the count can only fall.                            *)
(***************************************************************************)
InTransit == IF acceptPc = "enqueue" THEN 1 ELSE 0

CountInv ==
  /\ CounterExact
  /\ activeConnections <= MaxClients
  /\ acceptPc = "count" => activeConnections < MaxClients

LEMMA BusyFinite == IsFiniteSet(Busy) /\ Cardinality(Busy) \in Nat
<1>1. Busy \in SUBSET Workers BY DEF Busy
<1>2. QED BY <1>1, LifecycleAssumption, FS_Subset, FS_CardinalityType

\* A step that moves no worker into or out of Busy and changes neither the
\* queue nor the count, nor leaves or enters the two states named, keeps it.
LEMMA CountUnchanged ==
  ASSUME CountInv, UNCHANGED <<m_queue, m_stopped, activeConnections>>,
         Busy' = Busy, InTransit' = InTransit,
         acceptPc' = "count" => activeConnections < MaxClients
  PROVE  CountInv'
  BY DEF CountInv, CounterExact, InTransit

LEMMA CountStop ==
  ASSUME Inv, CountInv, Stop, UNCHANGED <<wpc, acceptPc, activeConnections>>
  PROVE  CountInv'
<1>1. m_queue \in Seq(Fds) /\ m_queue' = <<>> /\ m_stopped' = TRUE /\ Busy' = Busy
  BY DEF Inv, TypeOK, Stop, Busy
<1>2. Len(m_queue) \in Nat /\ Len(m_queue') = 0
  BY <1>1
<1>3. InTransit' = InTransit /\ InTransit \in {0, 1} BY DEF InTransit
<1>4. Cardinality(Busy) + Len(m_queue') + InTransit' <= activeConnections
  BY <1>1, <1>2, <1>3, BusyFinite DEF CountInv, CounterExact, InTransit, Inv, TypeOK
<1>5. CounterExact'
  BY <1>1, <1>2, <1>3, <1>4, BusyFinite DEF CounterExact, InTransit, Inv, TypeOK
<1>6. QED BY <1>5 DEF CountInv

LEMMA CountMain == Inv /\ CountInv /\ Main => CountInv'
<1> SUFFICES ASSUME Inv, CountInv, Main PROVE CountInv' OBVIOUS
<1> USE DEF queueVars, mainVars, acceptVars, workerVars
<1>1. CASE SpawnFails \/ PoolStop
  BY <1>1, CountStop DEF SpawnFails, PoolStop
<1>3. ASSUME NEW w \in Workers, SpawnWorker(w) PROVE CountInv'
  <2>1. Busy' = Busy BY <1>3 DEF SpawnWorker, Busy, Inv, TypeOK
  <2>2. UNCHANGED <<m_queue, m_stopped, activeConnections, acceptPc>>
    BY <1>3 DEF SpawnWorker
  <2>3. QED BY <2>1, <2>2, CountUnchanged DEF InTransit, CountInv
<1>4. CASE UNCHANGED wpc /\ ~SpawnFails /\ ~PoolStop
  <2>1. Busy' = Busy BY <1>4 DEF Busy
  <2>2. UNCHANGED <<m_queue, m_stopped, activeConnections>>
    BY <1>4 DEF Main, SpawnWorker, PoolSpawned, SpawnFailsNotify, notify_all,
       SpawnFailsJoin, StartAcceptor, LeaveMainLoop, StoreStopFlag,
       ShutdownListen, JoinAccept, ReturnFromMain, PoolNotify, ArmWatchdog,
       JoinWorkers
  <2>3. StartAcceptor \/ UNCHANGED acceptPc
    BY <1>4 DEF Main, SpawnWorker, PoolSpawned, SpawnFailsNotify,
       SpawnFailsJoin, LeaveMainLoop, StoreStopFlag, ShutdownListen, JoinAccept,
       ReturnFromMain, PoolNotify, ArmWatchdog, JoinWorkers
  <2>4. StartAcceptor =>
          acceptPc' = acceptPc \/ (acceptPc' = "loop" /\ acceptPc = "none")
    BY DEF StartAcceptor, Inv, ShutdownOrder
  <2>5. InTransit' = InTransit /\ (acceptPc' = "count" => acceptPc = "count")
    BY <2>3, <2>4 DEF InTransit
  <2>6. QED BY <2>1, <2>2, <2>5, CountUnchanged DEF CountInv
<1>5. \/ \E w \in Workers : SpawnWorker(w)
      \/ SpawnFails \/ PoolStop
      \/ UNCHANGED wpc
  BY DEF Main, PoolSpawned, SpawnFailsNotify, SpawnFailsJoin, StartAcceptor,
     LeaveMainLoop, StoreStopFlag, ShutdownListen, JoinAccept, ReturnFromMain,
     PoolNotify, ArmWatchdog, JoinWorkers
<1>6. QED BY <1>1, <1>3, <1>4, <1>5

LEMMA CountAcceptLoop == Inv /\ CountInv /\ AcceptLoop => CountInv'
<1> SUFFICES ASSUME Inv, CountInv, AcceptLoop PROVE CountInv' OBVIOUS
<1> USE DEF queueVars, mainVars, acceptVars, workerVars
<1>0. /\ m_queue \in Seq(Fds) /\ Len(m_queue) \in Nat
      /\ activeConnections \in Nat /\ Cardinality(Busy) \in Nat
      /\ MaxClients \in Nat /\ CounterMax \in Nat /\ MaxClients < CounterMax
  BY BusyFinite, LifecycleAssumption DEF Inv, TypeOK
<1>1. Busy' = Busy
  BY DEF AcceptLoop, Busy, TestStopFlag, AcceptReturns, AcceptFails,
     CheckCapacity, RejectConnection, CountConnection, EnqueueConnection,
     NotifyWorker
<1>2. CASE CountConnection
  BY <1>0, <1>1, <1>2
     DEF CountConnection, fetch_add, CountInv, CounterExact, InTransit
<1>3. CASE EnqueueConnection
  <2>1. /\ ~m_stopped /\ acceptFd \in Fds /\ acceptPc = "enqueue"
        /\ acceptPc' = "notify" /\ UNCHANGED <<activeConnections, m_stopped>>
        /\ m_queue' = Append(m_queue, acceptFd)
    BY <1>3 DEF EnqueueConnection, Enqueue, Inv, TypeOK, Holding, ShutdownOrder
  <2>2. Len(m_queue') = Len(m_queue) + 1 BY <2>1, <1>0
  <2>3. QED BY <1>0, <1>1, <2>1, <2>2 DEF CountInv, CounterExact
<1>4. CASE CheckCapacity
  BY <1>1, <1>4, CountUnchanged DEF CheckCapacity, InTransit
<1>5. CASE TestStopFlag
  BY <1>1, <1>5, CountUnchanged DEF TestStopFlag, InTransit
<1>6. CASE \E fd \in Fds : AcceptReturns(fd)
  BY <1>1, <1>6, CountUnchanged DEF AcceptReturns, InTransit
<1>7. CASE \E error \in {"EINTR", "other"} : AcceptFails(error)
  BY <1>1, <1>7, CountUnchanged DEF AcceptFails, InTransit
<1>8. CASE RejectConnection
  BY <1>1, <1>8, CountUnchanged DEF RejectConnection, InTransit
<1>9. CASE NotifyWorker
  BY <1>1, <1>9, CountUnchanged DEF NotifyWorker, notify_one, InTransit
<1>10. QED
  BY <1>2, <1>3, <1>4, <1>5, <1>6, <1>7, <1>8, <1>9 DEF AcceptLoop

LEMMA CountWorker ==
  ASSUME NEW w \in Workers, Inv, CountInv, Worker(w)
  PROVE  CountInv'
<1> USE DEF queueVars, mainVars, acceptVars, workerVars
<1>0. /\ m_queue \in Seq(Fds) /\ Len(m_queue) \in Nat
      /\ activeConnections \in Nat /\ Cardinality(Busy) \in Nat
      /\ IsFiniteSet(Busy) /\ wpc = [v \in Workers |-> wpc[v]] /\ MaxClients \in Nat
  BY BusyFinite, LifecycleAssumption DEF Inv, TypeOK
<1>1. CASE WorkerTakes(w)
  <2>1. /\ wpc[w] = "dequeue" /\ wpc' = [wpc EXCEPT ![w] = "welcome"]
        /\ m_queue # <<>> /\ m_queue' = Tail(m_queue)
        /\ UNCHANGED <<activeConnections, m_stopped, acceptPc>>
    BY <1>1 DEF WorkerTakes, DequeueSocket
  <2>2. Busy' = Busy \cup {w} /\ w \notin Busy BY <2>1, <1>0 DEF Busy
  <2>3. Cardinality(Busy') = Cardinality(Busy) + 1
    BY <2>2, <1>0, FS_AddElement
  <2>4. Len(m_queue') = Len(m_queue) - 1 BY <2>1, <1>0
  <2>5. Cardinality(Busy') + Len(m_queue') = Cardinality(Busy) + Len(m_queue)
    BY <1>0, <2>3, <2>4
  <2>6. CounterExact' BY <2>1, <2>5 DEF CountInv, CounterExact
  <2>7. QED BY <2>1, <2>6 DEF CountInv
<1>2. CASE ReleaseSlot(w)
  <2>1. /\ wpc[w] = "sub" /\ wpc' = [wpc EXCEPT ![w] = "dequeue"]
        /\ activeConnections' = fetch_sub(activeConnections)
        /\ UNCHANGED <<m_queue, m_stopped, acceptPc>>
    BY <1>2 DEF ReleaseSlot
  <2>2. Busy' = Busy \ {w} /\ w \in Busy BY <2>1, <1>0 DEF Busy
  <2>3. Cardinality(Busy') = Cardinality(Busy) - 1 /\ Cardinality(Busy) # 0
    BY <2>2, <1>0, FS_RemoveElement, FS_EmptySet
  <2>4. activeConnections # 0 BY <1>0, <2>3 DEF CountInv, CounterExact
  <2>5. activeConnections' = activeConnections - 1
    BY <2>1, <2>4 DEF fetch_sub
  <2>6. QED BY <1>0, <2>1, <2>3, <2>5 DEF CountInv, CounterExact
<1>3. CASE ~WorkerTakes(w) /\ ~ReleaseSlot(w)
  <2>1. UNCHANGED <<m_queue, m_stopped, activeConnections, acceptPc>>
    BY <1>3 DEF Worker, WorkerWaits, DequeueWait, WorkerWakes, SpuriousWakeup,
       WorkerExits, DequeueNull, SendWelcome, ReceiveFrame, AnswerFrame,
       EndConnection, CloseConnection
  <2>2. Busy' = Busy
    BY <1>0, <1>3 DEF Busy, Worker, WorkerWaits, WorkerWakes, WorkerExits,
       SendWelcome, ReceiveFrame, AnswerFrame, EndConnection, CloseConnection
  <2>3. QED BY <2>1, <2>2, CountUnchanged DEF InTransit, CountInv
<1>4. QED BY <1>1, <1>2, <1>3

LEMMA CountAlways == Spec => []CountInv
<1>1. Init => CountInv
  <2> SUFFICES ASSUME Init PROVE CountInv OBVIOUS
  <2>1. Busy = {} /\ Len(m_queue) = 0 /\ acceptPc = "none" /\ activeConnections = 0
    BY DEF Init, QueueInit, Busy
  <2>2. Cardinality(Busy) = 0 BY <2>1, FS_EmptySet
  <2>3. QED BY <2>1, <2>2, LifecycleAssumption DEF CountInv, CounterExact
<1>2. Inv /\ CountInv /\ [Next]_vars => CountInv'
  <2> SUFFICES ASSUME Inv, CountInv, [Next]_vars PROVE CountInv' OBVIOUS
  <2>1. CASE Main BY <2>1, CountMain
  <2>2. CASE AcceptLoop BY <2>2, CountAcceptLoop
  <2>3. CASE \E w \in Workers : Worker(w) BY <2>3, CountWorker
  <2>4. CASE signalHandler \/ WatchdogFires \/ UNCHANGED vars
    <3>1. UNCHANGED <<m_queue, m_stopped, activeConnections, wpc, acceptPc>>
      BY <2>4 DEF signalHandler, WatchdogFires, vars, queueVars, acceptVars,
         workerVars
    <3>2. Busy' = Busy /\ InTransit' = InTransit BY <3>1 DEF Busy, InTransit
    <3>3. QED BY <3>1, <3>2, CountUnchanged DEF CountInv
  <2>5. QED BY <2>1, <2>2, <2>3, <2>4 DEF Next, Exited
<1>3. QED BY SpecInv, <1>1, <1>2, PTL DEF Spec

\* activeConnections is exact until the shutdown, and never wraps below zero.
THEOREM CounterCorrect == Spec => []CounterExact
<1>1. CountInv => CounterExact BY DEF CountInv
<1>2. QED BY CountAlways, <1>1, PTL

\* No more descriptors are open than places in the queue, busy workers and
\* the accept loop can own.
LEMMA OpenBound ==
  ASSUME Inv, FdOwnership
  PROVE  /\ Cardinality(openFds) \in Nat
         /\ Cardinality(openFds) <= Cardinality(Busy) + Len(m_queue) + 1
<1> DEFINE Holders == {w \in Workers : wfd[w] # NoFd}
           Served == {wfd[w] : w \in Holders}
           f == [w \in Holders |-> wfd[w]]
<1>1. IsFiniteSet(Served) /\ Cardinality(Served) \in Nat
      /\ Cardinality(Served) <= Cardinality(Busy)
  <2>1. Holders \in SUBSET Busy BY DEF Inv, Holding, Busy
  <2>2. IsFiniteSet(Holders) /\ Cardinality(Holders) <= Cardinality(Busy)
        /\ Cardinality(Holders) \in Nat
    BY <2>1, BusyFinite, FS_Subset, FS_CardinalityType
  <2>3. f \in Surjection(Holders, Served) BY DEF Surjection
  <2> HIDE DEF f, Holders, Served
  <2>4. IsFiniteSet(Served) /\ Cardinality(Served) <= Cardinality(Holders)
    BY <2>2, <2>3, FS_Surjection
  <2>5. Cardinality(Served) \in Nat BY <2>4, FS_CardinalityType
  <2>6. QED BY <2>2, <2>4, <2>5, BusyFinite
<1>2. IsFiniteSet(Queued) /\ Cardinality(Queued) <= Len(m_queue)
      /\ Cardinality(Queued) \in Nat /\ Len(m_queue) \in Nat
  <2>1. Len(m_queue) \in Nat /\ m_queue \in Surjection(1..Len(m_queue), Queued)
    BY DEF Inv, TypeOK, Queued, Surjection
  <2>2. /\ IsFiniteSet(1..Len(m_queue))
        /\ Cardinality(1..Len(m_queue)) = Len(m_queue)
    BY <2>1, FS_Interval
  <2>3. IsFiniteSet(Queued) /\ Cardinality(Queued) <= Len(m_queue)
    BY <2>1, <2>2, FS_Surjection
  <2>4. QED BY <2>1, <2>3, FS_CardinalityType
<1> DEFINE Rest == Queued \cup Served
<1>3. IsFiniteSet(Rest) /\ Cardinality(Rest) <= Cardinality(Queued) + Cardinality(Served)
      /\ Cardinality(Rest) \in Nat
  <2>1. IsFiniteSet(Queued \cap Served) /\ Cardinality(Queued \cap Served) \in Nat
    BY <1>1, FS_Subset, FS_CardinalityType
  <2>2. IsFiniteSet(Rest)
        /\ Cardinality(Rest) = Cardinality(Queued) + Cardinality(Served)
                               - Cardinality(Queued \cap Served)
    BY <1>1, <1>2, FS_Union
  <2>3. QED BY <1>1, <1>2, <2>1, <2>2, FS_CardinalityType
<1>4. openFds \in SUBSET (Rest \cup {acceptFd})
  BY DEF FdOwnership
<1> HIDE DEF Rest, Served
<1>5. IsFiniteSet(Rest \cup {acceptFd})
      /\ Cardinality(Rest \cup {acceptFd}) <= Cardinality(Rest) + 1
  BY <1>3, FS_AddElement
<1>6. IsFiniteSet(openFds) /\ Cardinality(openFds) <= Cardinality(Rest \cup {acceptFd})
  BY <1>4, <1>5, FS_Subset
<1>7. Cardinality(openFds) \in Nat /\ Cardinality(Rest \cup {acceptFd}) \in Nat
  BY <1>5, <1>6, FS_CardinalityType
<1>8. QED BY <1>1, <1>2, <1>3, <1>5, <1>6, <1>7, BusyFinite

\* The server never counts more than EOP_MAX_CLIENTS connections and never
\* has more than one descriptor beyond them open.
THEOREM CapacityIsRespected == Spec => []CapacityRespected
<1>1. Inv /\ FdOwnership /\ CountInv => CapacityRespected
  <2> SUFFICES ASSUME Inv, FdOwnership, CountInv PROVE CapacityRespected OBVIOUS
  <2>1. Cardinality(Busy) + Len(m_queue) <= activeConnections
    BY BusyFinite DEF CountInv, CounterExact, Inv, TypeOK
  <2>2. QED
    BY <2>1, OpenBound, BusyFinite, LifecycleAssumption
    DEF CapacityRespected, CountInv, Inv, TypeOK
<1>2. QED BY SpecInv, DescriptorsOwned, CountAlways, <1>1, PTL
=============================================================================
