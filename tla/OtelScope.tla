----------------------------- MODULE OtelScope ------------------------------
(***************************************************************************)
(* Tracing (src/otelScope.cpp).  OtelScope keeps a stack of open scopes    *)
(* for each thread, from which a new span takes its trace (and its parent);*)
(* the scope's end hands the span to the BatchExporter, whose flusher      *)
(* thread posts what is pending every 200 ms, without m_mutex while the    *)
(* POST is under way.  Its destructor runs at process exit, after the pool *)
(* has joined the workers.                                                 *)
(*                                                                         *)
(* The workers open scopes as ConnectionWorker does: a connection span     *)
(* when the first frame of a session arrives, inside it one span for each  *)
(* message and one for the disconnection.  Random ids are taken to be      *)
(* distinct, and a trace is named by the span that started it.             *)
(***************************************************************************)
EXTENDS Naturals, Sequences, FiniteSets, SequencesExt

CONSTANTS Threads,   \* the workers
          Spans,     \* span ids
          None,      \* no span
          MaxBatch   \* MAX_BATCH_SIZE

ASSUME ScopeAssumption ==
  /\ None \notin Spans
  /\ MaxBatch \in Nat \ {0}

VARIABLES
  tpc,           \* each worker: idle, in a session, in an operation
  t_scopeStack,  \* the thread_local stack of each worker
  trace,         \* m_traceId of each span, None before it starts
  m_pending,
  m_running,
  fpc,           \* the flusher thread
  dpc,           \* ~BatchExporter
  batch,         \* the local of flush()
  joined,        \* the pool has joined the workers
  \* History, read by no action:
  root,          \* the connection span of each worker's session
  session,       \* the connection span of the session each span belongs to
  delivered,     \* spans the collector took
  lost           \* spans of a POST that failed

scopeVars == <<tpc, t_scopeStack, trace, root, session>>
exportVars == <<fpc, dpc, m_running, batch, delivered, lost>>
vars == <<scopeVars, m_pending, joined, exportVars>>

Started == {s \in Spans : trace[s] # None}
Open == UNION {ToSet(t_scopeStack[t]) : t \in Threads}

\* Types; batch is a local of flush() and empty but for the POST.
TypeOK ==
  /\ tpc \in [Threads -> {"idle", "session", "operation"}]
  /\ t_scopeStack \in [Threads -> Seq(Spans)]
  /\ trace \in [Spans -> Spans \cup {None}]
  /\ m_pending \in Seq(Spans) /\ batch \in Seq(Spans)
  /\ batch # <<>> => "post" \in {fpc, dpc}
  /\ m_running \in BOOLEAN /\ joined \in BOOLEAN
  /\ fpc \in {"unborn", "test", "wait", "woken", "post", "exited"}
  /\ dpc \in {"idle", "notify", "join", "flush", "post", "done"}
  /\ root \in [Threads -> Spans \cup {None}]
  /\ session \in [Spans -> Spans \cup {None}]
  /\ delivered \in SUBSET Spans /\ lost \in SUBSET Spans

Init ==
  /\ tpc = [t \in Threads |-> "idle"]
  /\ t_scopeStack = [t \in Threads |-> <<>>]
  /\ trace = [s \in Spans |-> None]
  /\ m_pending = <<>> /\ batch = <<>>
  /\ m_running = TRUE /\ joined = FALSE
  /\ fpc = "unborn" /\ dpc = "idle"
  /\ root = [t \in Threads |-> None] /\ session = [s \in Spans |-> None]
  /\ delivered = {} /\ lost = {}
-----------------------------------------------------------------------------
(***************************************************************************)
(* OtelScope in the workers                                                *)
(***************************************************************************)
\* Faulty variant: a stack that is not thread_local.
NewScopeShared(t, s) ==
  /\ s \notin Started
  /\ \E u \in Threads :
       trace' = [trace EXCEPT ![s] = IF t_scopeStack[u] # <<>>
                                     THEN trace[Last(t_scopeStack[u])] ELSE s]
  /\ t_scopeStack' = [t_scopeStack EXCEPT ![t] = Append(@, s)]

\* Both constructors: the trace comes from the top of the thread's stack.
NewScope(t, s) ==
  LET stack == t_scopeStack[t]
  IN  /\ s \notin Started
      /\ trace' = [trace EXCEPT ![s] = IF stack # <<>> THEN trace[Last(stack)] ELSE s]
      /\ t_scopeStack' = [t_scopeStack EXCEPT ![t] = Append(@, s)]

\* enqueue, under m_mutex; the first call constructs the exporter and starts
\* its thread.  A full batch wakes the flusher if it waits.
enqueue(s) ==
  /\ m_pending' = Append(m_pending, s)
  /\ fpc' = CASE fpc = "unborn" -> "test"
              [] fpc = "wait" /\ Len(m_pending) + 1 >= MaxBatch -> "woken"
              [] OTHER -> fpc

\* ensureConnectionSpan.
OpenConnection(t, s) ==
  /\ tpc[t] = "idle" /\ ~joined
  /\ NewScope(t, s)
  /\ tpc' = [tpc EXCEPT ![t] = "session"]
  /\ root' = [root EXCEPT ![t] = s]
  /\ session' = [session EXCEPT ![s] = s]
  /\ UNCHANGED <<m_pending, joined, exportVars>>

\* A handler's span, or that of emitDisconnection.
OpenOperation(t, s) ==
  /\ tpc[t] = "session"
  /\ NewScope(t, s)
  /\ tpc' = [tpc EXCEPT ![t] = "operation"]
  /\ session' = [session EXCEPT ![s] = root[t]]
  /\ UNCHANGED <<root, m_pending, joined, exportVars>>

\* ~OtelScope of the innermost scope of the thread: pop_back, then enqueue.
CloseScope(t) ==
  /\ tpc[t] # "idle"
  /\ tpc' = [tpc EXCEPT ![t] = IF @ = "operation" THEN "session" ELSE "idle"]
  /\ t_scopeStack' = [t_scopeStack EXCEPT ![t] = Front(@)]
  /\ enqueue(Last(t_scopeStack[t]))
  /\ UNCHANGED <<trace, root, session, joined, dpc, m_running, batch,
                 delivered, lost>>

\* ~ThreadPool, before main() returns.
JoinWorkers ==
  /\ ~joined /\ \A t \in Threads : tpc[t] = "idle"
  /\ joined' = TRUE
  /\ UNCHANGED <<scopeVars, m_pending, exportVars>>
-----------------------------------------------------------------------------
(***************************************************************************)
(* BatchExporter                                                           *)
(***************************************************************************)
\* Faulty variant: while (true).
LoopAlways == "wait"

\* The while loop of run() tests m_running and waits without unlocking.
LoopTest == IF m_running THEN "wait" ELSE "exited"

FlusherStarts ==
  /\ fpc = "test"
  /\ fpc' = LoopTest
  /\ UNCHANGED <<scopeVars, m_pending, joined, dpc, m_running, batch, delivered,
                 lost>>

\* Faulty variant: wait() for wait_for().
WaitForNotification ==
  /\ fpc = "wait" /\ Len(m_pending) >= MaxBatch
  /\ fpc' = "woken"
  /\ UNCHANGED <<scopeVars, m_pending, joined, dpc, m_running, batch, delivered,
                 lost>>

\* wait_for has no predicate: after FLUSH_INTERVAL, or spuriously.
WaitReturns ==
  /\ fpc = "wait"
  /\ fpc' = "woken"
  /\ UNCHANGED <<scopeVars, m_pending, joined, dpc, m_running, batch, delivered,
                 lost>>

\* Faulty variant: the batch is copied and the queue not emptied.
SwapCopies == batch' = m_pending /\ UNCHANGED m_pending

\* flush() up to the unlock, for a queue that is not empty.
Swap == batch' = m_pending /\ m_pending' = <<>>

FlusherFlushes ==
  /\ fpc = "woken"
  /\ \/ /\ m_pending = <<>>
        /\ fpc' = LoopTest
        /\ UNCHANGED <<m_pending, batch>>
     \/ /\ m_pending # <<>>
        /\ fpc' = "post"
        /\ Swap
  /\ UNCHANGED <<scopeVars, joined, dpc, m_running, delivered, lost>>

\* httpPost returns, within its timeouts; flush() does not look at its result.
httpPost ==
  /\ \/ delivered' = delivered \cup ToSet(batch) /\ UNCHANGED lost
     \/ lost' = lost \cup ToSet(batch) /\ UNCHANGED delivered
  /\ batch' = <<>>

FlusherPosts ==
  /\ fpc = "post"
  /\ httpPost
  /\ fpc' = "test"
  /\ UNCHANGED <<scopeVars, m_pending, joined, dpc, m_running>>

\* ~BatchExporter: m_running, the notification, the join, the final flush.
DestructorStops ==
  /\ dpc = "idle" /\ joined /\ fpc # "unborn"
  /\ m_running' = FALSE
  /\ dpc' = "notify"
  /\ UNCHANGED <<scopeVars, m_pending, joined, fpc, batch, delivered, lost>>

DestructorNotifies ==
  /\ dpc = "notify"
  /\ dpc' = "join"
  /\ fpc' = IF fpc = "wait" THEN "woken" ELSE fpc
  /\ UNCHANGED <<scopeVars, m_pending, joined, m_running, batch, delivered, lost>>

DestructorJoins ==
  /\ dpc = "join" /\ fpc = "exited"
  /\ dpc' = "flush"
  /\ UNCHANGED <<scopeVars, m_pending, joined, fpc, m_running, batch, delivered,
                 lost>>

\* Faulty variant: no final flush.
DestructorReturns ==
  /\ dpc = "flush"
  /\ dpc' = "done"
  /\ UNCHANGED <<scopeVars, m_pending, joined, fpc, m_running, batch, delivered,
                 lost>>

DestructorFlushes ==
  /\ dpc = "flush"
  /\ \/ m_pending = <<>> /\ dpc' = "done" /\ UNCHANGED <<m_pending, batch>>
     \/ m_pending # <<>> /\ dpc' = "post" /\ Swap
  /\ UNCHANGED <<scopeVars, joined, fpc, m_running, delivered, lost>>

DestructorPosts ==
  /\ dpc = "post"
  /\ httpPost
  /\ dpc' = "done"
  /\ UNCHANGED <<scopeVars, m_pending, joined, fpc, m_running>>
-----------------------------------------------------------------------------
Flusher == FlusherStarts \/ WaitReturns \/ FlusherFlushes \/ FlusherPosts

Destructor == \/ DestructorNotifies \/ DestructorJoins
              \/ DestructorFlushes \/ DestructorPosts

Next ==
  \/ \E t \in Threads :
       \/ \E s \in Spans : OpenConnection(t, s) \/ OpenOperation(t, s)
       \/ CloseScope(t)
  \/ JoinWorkers
  \/ Flusher
  \/ DestructorStops \/ Destructor

Spec == Init /\ [][Next]_vars

\* The flusher is scheduled, its wait and its POST time out, and a destructor
\* that began goes on.  Nothing is assumed of the workers.
FairSpec == Spec /\ WF_vars(Flusher) /\ WF_vars(Destructor)
-----------------------------------------------------------------------------
\* A finished span is in one place and there once: pending, in the batch that
\* is being posted, delivered or lost.  Nothing is posted twice although
\* flush() works on its batch without m_mutex.
SpansConserved ==
  LET places == m_pending \o batch
  IN  /\ IsInjective(places)
      /\ ToSet(places) \cap (delivered \cup lost) = {}
      /\ delivered \cap lost = {}
      /\ ToSet(places) \cup delivered \cup lost = Started \ Open

\* The pool's threads are reused, and still the spans of one session, and only
\* they, share a trace id: no session inherits the scope of an earlier one.
OneTracePerSession ==
  \A r, s \in Started : trace[r] = trace[s] <=> session[r] = session[s]

\* When the process exits through the destructor no finished span was left
\* behind without a POST, wherever the flusher was when it was stopped.
FlushedAtExit == dpc = "done" => m_pending = <<>> /\ batch = <<>>

\* A finished span does not stay pending: the wait without a predicate cannot
\* miss it for longer than one interval and one POST.
PendingIsPosted ==
  \A s \in Spans : s \in ToSet(m_pending) ~> s \in delivered \cup lost

\* The destructor returns, whatever the flusher was doing.
ExporterStops == dpc # "idle" ~> dpc = "done"
=============================================================================
