-------------------------- MODULE HeartbeatMonitor --------------------------
(***************************************************************************)
(* HeartbeatMonitor (src/heartbeatMonitor.cpp): the thread that wakes      *)
(* every interval, copies the registry, and marks OFFLINE each node that   *)
(* the copy shows silent for more than two intervals.  Around it run the   *)
(* sessions of the nodes (registerNode, updateLastSeen, setOffline as      *)
(* ConnectionWorker calls them) and the thread that calls stop().          *)
(*                                                                         *)
(* Time is a clock of whole ticks.  The monitor may be late: it runs at    *)
(* most Latency ticks after its timer expires, and one scan takes at most  *)
(* Latency ticks.                                                          *)
(***************************************************************************)
EXTENDS NodeRegistry, Integers

CONSTANTS Interval,   \* EOP_HEARTBEAT_INTERVAL, in ticks
          Latency,
          MaxTime     \* the model's last instant

ASSUME MonitorAssumption ==
  /\ Interval \in Nat \ {0}
  /\ Latency \in Nat
  /\ MaxTime \in Nat
  /\ Instants = {Epoch} \cup 0..MaxTime
  /\ Epoch \in Int /\ Epoch < 0 - 2 * Interval   \* 1970 is long ago

VARIABLES
  m_entries,
  session,   \* the nodes with a live session that registered them
  now,
  m_stop,
  mpc,       \* the monitor: unborn, wait, woken, scan, exited
  spc,       \* the caller of stop(): idle, notify, join, done
  timer,     \* the instant wait_for times out
  stale,     \* the ids still to be marked
  \* History, read by no action but the clock's guard:
  scanAt,    \* when the last scan copied the registry
  startedAt, \* when the monitor thread started
  contactAt  \* the last REGISTER or HEARTBEAT of each node

vars == <<m_entries, session, now, m_stop, mpc, spc, timer, stale, scanAt,
          startedAt, contactAt>>
nodeVars == <<m_entries, session, contactAt>>
monitorVars == <<mpc, timer, stale, scanAt, startedAt>>

\* Types; stale is a local of tick() and empty outside of it.
TypeOK ==
  /\ m_entries \in Registries
  /\ session \in SUBSET NodeIds
  /\ now \in 0..MaxTime
  /\ m_stop \in BOOLEAN
  /\ mpc \in {"unborn", "wait", "woken", "scan", "exited"}
  /\ spc \in {"idle", "notify", "join", "done"}
  /\ timer \in 0..(MaxTime + Interval)
  /\ stale \in SUBSET NodeIds /\ (mpc # "scan" => stale = {})
  /\ scanAt \in 0..MaxTime /\ startedAt \in 0..MaxTime
  /\ contactAt \in [NodeIds -> 0..MaxTime]

Init ==
  /\ m_entries = NoEntries
  /\ session = {}
  /\ now = 0
  /\ m_stop = FALSE
  /\ mpc = "unborn" /\ spc = "idle"
  /\ timer = 0 /\ stale = {} /\ scanAt = 0 /\ startedAt = 0
  /\ contactAt = [n \in NodeIds |-> 0]
-----------------------------------------------------------------------------
(***************************************************************************)
(* The clock, and the sessions of the nodes                                *)
(***************************************************************************)
MonitorOnTime ==
  /\ mpc \in {"wait", "woken"} => now < timer + Latency
  /\ mpc = "scan" => now < scanAt + Latency

Tick ==
  /\ now < MaxTime
  /\ MonitorOnTime
  /\ now' = now + 1
  /\ UNCHANGED <<nodeVars, m_stop, monitorVars, spc>>

\* A session registers n.  RegisterHandler leaves last_seen_at at its default.
Register(n) ==
  /\ n \notin session
  /\ registerResult(m_entries, n) = "OK"
  /\ \E meta \in Metas : m_entries' = registerNode(m_entries, n,
       [status |-> "ONLINE", last_seen_at |-> Epoch, meta |-> meta])
  /\ session' = session \cup {n}
  /\ contactAt' = [contactAt EXCEPT ![n] = now]
  /\ UNCHANGED <<now, m_stop, monitorVars, spc>>

\* HeartbeatHandler::handle.
Heartbeat(n) ==
  /\ n \in session
  /\ m_entries' = updateLastSeen(m_entries, n, now)
  /\ contactAt' = [contactAt EXCEPT ![n] = now]
  /\ UNCHANGED <<session, now, m_stop, monitorVars, spc>>

\* markOfflineIfKnown at the end of the session.
Disconnect(n) ==
  /\ n \in session
  /\ m_entries' = setOffline(m_entries, n, now)
  /\ session' = session \ {n}
  /\ UNCHANGED <<contactAt, now, m_stop, monitorVars, spc>>
-----------------------------------------------------------------------------
(***************************************************************************)
(* The monitor thread                                                      *)
(***************************************************************************)
start ==
  /\ mpc = "unborn" /\ spc = "idle"
  /\ mpc' = "woken" /\ timer' = now + Interval
  /\ startedAt' = now
  /\ UNCHANGED <<nodeVars, now, m_stop, stale, scanAt, spc>>

\* wait_for tests its predicate under m_mutex before it blocks and whenever
\* it is woken; it returns when m_stop is set or the time is up.
WaitBlocks ==
  /\ mpc = "woken" /\ ~m_stop /\ now < timer
  /\ mpc' = "wait"
  /\ UNCHANGED <<nodeVars, now, m_stop, timer, stale, scanAt, startedAt, spc>>

WaitTimesOut ==
  /\ mpc = "wait" /\ now >= timer
  /\ mpc' = "woken"
  /\ UNCHANGED <<nodeVars, now, m_stop, timer, stale, scanAt, startedAt, spc>>

SpuriousWakeup ==
  /\ mpc = "wait"
  /\ mpc' = "woken"
  /\ UNCHANGED <<nodeVars, now, m_stop, timer, stale, scanAt, startedAt, spc>>

RunExits ==
  /\ mpc = "woken" /\ m_stop
  /\ mpc' = "exited"
  /\ UNCHANGED <<nodeVars, now, m_stop, timer, stale, scanAt, startedAt, spc>>

\* Faulty variants: <= for <; nodes without any heartbeat are passed over.
StaleInOrEqual(snapshot, limit) ==
  {n \in DOMAIN snapshot : isOnline(snapshot, n) /\ snapshot[n].last_seen_at <= limit}

StaleInSeen(snapshot, limit) ==
  {n \in DOMAIN snapshot : /\ isOnline(snapshot, n)
                           /\ snapshot[n].last_seen_at # Epoch
                           /\ snapshot[n].last_seen_at < limit}

\* What the copy of the registry shows as stale.
StaleIn(snapshot, limit) ==
  {n \in DOMAIN snapshot : isOnline(snapshot, n) /\ snapshot[n].last_seen_at < limit}

\* tick(), phase 1.
CollectStale ==
  /\ mpc = "woken" /\ ~m_stop /\ now >= timer
  /\ mpc' = "scan"
  /\ scanAt' = now
  /\ stale' = StaleIn(listNodes(m_entries), now - 2 * Interval)
  /\ UNCHANGED <<nodeVars, now, m_stop, timer, startedAt, spc>>

\* tick(), phase 2: one id after the other.
MarkStale(n) ==
  /\ mpc = "scan" /\ n \in stale
  /\ m_entries' = setOffline(m_entries, n, now)
  /\ stale' = stale \ {n}
  /\ UNCHANGED <<session, contactAt, now, m_stop, mpc, timer, scanAt, startedAt,
                 spc>>

\* Back in run(): the while loop tests m_stop under the lock.
TickReturns ==
  /\ mpc = "scan" /\ stale = {}
  /\ mpc' = "woken"
  /\ timer' = now + Interval
  /\ UNCHANGED <<nodeVars, now, m_stop, stale, scanAt, startedAt, spc>>
-----------------------------------------------------------------------------
(***************************************************************************)
(* stop(), also from the destructor                                        *)
(***************************************************************************)
StopSets ==
  /\ spc = "idle"
  /\ m_stop' = TRUE
  /\ spc' = "notify"
  /\ UNCHANGED <<nodeVars, now, monitorVars>>

\* Faulty variant: the flag is set and the monitor is not notified.
StopSilent ==
  /\ spc = "notify"
  /\ spc' = "join"
  /\ UNCHANGED <<nodeVars, now, m_stop, monitorVars>>

StopNotifies ==
  /\ spc = "notify"
  /\ spc' = "join"
  /\ mpc' = IF mpc = "wait" THEN "woken" ELSE mpc
  /\ UNCHANGED <<nodeVars, now, m_stop, timer, stale, scanAt, startedAt>>

StopJoins ==
  /\ spc = "join"
  /\ mpc \in {"unborn", "exited"}
  /\ spc' = "done"
  /\ UNCHANGED <<nodeVars, now, m_stop, monitorVars>>
-----------------------------------------------------------------------------
Monitor ==
  \/ WaitBlocks \/ WaitTimesOut \/ RunExits \/ CollectStale
  \/ \E n \in NodeIds : MarkStale(n)
  \/ TickReturns

Stopper == StopNotifies \/ StopJoins

Next ==
  \/ Tick
  \/ \E n \in NodeIds : Register(n) \/ Heartbeat(n) \/ Disconnect(n)
  \/ start \/ Monitor \/ SpuriousWakeup
  \/ StopSets \/ Stopper

Spec == Init /\ [][Next]_vars

\* The threads of the monitor and of the caller of stop() are scheduled.  The
\* clock is not fair: what is promised of stop() needs no time to pass.
FairSpec == Spec /\ WF_vars(Monitor) /\ WF_vars(Stopper)
-----------------------------------------------------------------------------
\* The time since the last contact with n, or since the monitor has been there.
SilentFor(n) == now - (IF contactAt[n] > startedAt THEN contactAt[n] ELSE startedAt)

MonitorRuns == mpc \in {"wait", "woken", "scan"}

(***************************************************************************)
(* A silent node does not stay ONLINE for ever: two intervals of silence   *)
(* are allowed, the scan that sees more is up to another interval away,    *)
(* and three times the monitor may be late (timer, scan, timer again).     *)
(***************************************************************************)
SilenceIsDetected ==
  MonitorRuns => \A n \in NodeIds :
    isOnline(m_entries, n) => SilentFor(n) <= 3 * Interval + 3 * Latency

\* A step of the monitor takes n OFFLINE while its session is alive.
MonitorMarks(n) ==
  isOnline(m_entries, n) /\ isOffline(m_entries', n) /\ session' = session

\* tick() marks a node only if its last_seen_at is more than two intervals old
\* or the node was in contact after the scan copied the registry.
OnlySilentNodesMarked ==
  [][\A n \in NodeIds :
       MonitorMarks(n) => \/ m_entries[n].last_seen_at < now - 2 * Interval
                          \/ contactAt[n] >= scanAt]_vars

\* stop() returns without waiting for the interval to elapse: the notified
\* monitor finds m_stop set and exits, wherever it was.
StopReturns == m_stop ~> spc = "done"

\* "one missed heartbeat tolerated": the monitor marks no node that was in
\* contact within the last two intervals, by a REGISTER or by a HEARTBEAT,
\* when its scan copied the registry.
OneMissedHeartbeatTolerated ==
  [][\A n \in NodeIds :
       MonitorMarks(n) /\ contactAt[n] <= scanAt
         => scanAt - contactAt[n] > 2 * Interval]_vars
=============================================================================
