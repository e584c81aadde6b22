----------------------- MODULE HeartbeatMonitorProofs -----------------------
(***************************************************************************)
(* Theorems about HeartbeatMonitor, for any nodes, any interval, any       *)
(* latency of the monitor thread and any length of the run.                *)
(***************************************************************************)
EXTENDS HeartbeatMonitor, TLAPS

(***************************************************************************)
(* What the methods of NodeRegistry preserve and change, for any registry. *)
(***************************************************************************)
\* Inserting or replacing an entry.
LEMMA WithEntryType ==
  ASSUME NEW entries \in Registries, NEW id \in NodeIds, NEW entry \in NodeEntry
  PROVE  /\ WithEntry(entries, id, entry) \in Registries
         /\ DOMAIN WithEntry(entries, id, entry) = DOMAIN entries \cup {id}
         /\ WithEntry(entries, id, entry)[id] = entry
         /\ \A n \in DOMAIN entries :
              n # id => WithEntry(entries, id, entry)[n] = entries[n]
<1>1. DOMAIN entries \in SUBSET NodeIds /\ \A n \in DOMAIN entries : entries[n] \in NodeEntry
  BY DEF Registries
<1>2. WithEntry(entries, id, entry) \in [DOMAIN entries \cup {id} -> NodeEntry]
  BY <1>1 DEF WithEntry
<1>3. DOMAIN entries \cup {id} \in SUBSET NodeIds BY <1>1
<1>4. QED BY <1>2, <1>3 DEF Registries, WithEntry

\* registerNode touches no entry but the one of id, and not even that one
\* while it is ONLINE.
LEMMA RegisterNodeEffect ==
  ASSUME NEW entries \in Registries, NEW id \in NodeIds, NEW entry \in NodeEntry
  PROVE  LET after == registerNode(entries, id, entry) IN
         /\ after \in Registries
         /\ \A n \in DOMAIN entries : n \in DOMAIN after
         /\ \A n \in DOMAIN after : n # id => n \in DOMAIN entries /\ after[n] = entries[n]
         /\ isOnline(entries, id) => after = entries
         /\ ~isOnline(entries, id) =>
              /\ id \in DOMAIN after
              /\ after[id] = [entry EXCEPT !.status = "ONLINE"]
<1>1. [entry EXCEPT !.status = "ONLINE"] \in NodeEntry BY DEF NodeEntry, Status
<1>2. id # EmptyId BY RegistryAssumption
<1> DEFINE new == [entry EXCEPT !.status = "ONLINE"]
           after == registerNode(entries, id, entry)
<1>3. CASE isOnline(entries, id)
  <2>1. after = entries BY <1>3 DEF registerNode, registerResult
  <2>2. QED BY <1>3, <2>1
<1>4. CASE ~isOnline(entries, id)
  <2>0. new \in NodeEntry BY <1>1
  <2>1. after = WithEntry(entries, id, new)
    BY <1>2, <1>4 DEF registerNode, registerResult
  <2> HIDE DEF new, after
  <2>2. /\ after \in Registries
        /\ DOMAIN after = DOMAIN entries \cup {id}
        /\ after[id] = new
        /\ \A n \in DOMAIN entries : n # id => after[n] = entries[n]
    BY <2>0, <2>1, WithEntryType
  <2>3. QED BY <1>4, <2>2 DEF new, after
<1>5. QED BY <1>3, <1>4

\* setOffline and updateLastSeen change one entry and keep its metadata.
LEMMA SetOfflineEffect ==
  ASSUME NEW entries \in Registries, NEW id, NEW at \in Instants
  PROVE  LET after == setOffline(entries, id, at) IN
         /\ after \in Registries
         /\ DOMAIN after = DOMAIN entries
         /\ \A n \in DOMAIN entries : n # id => after[n] = entries[n]
         /\ id # EmptyId => ~isOnline(after, id)
<1>1. DOMAIN entries \in SUBSET NodeIds /\ \A n \in DOMAIN entries : entries[n] \in NodeEntry
  BY DEF Registries
<1>2. QED
  BY <1>1 DEF setOffline, contains, isOnline, Registries, NodeEntry, Status

LEMMA UpdateLastSeenEffect ==
  ASSUME NEW entries \in Registries, NEW id, NEW at \in Instants
  PROVE  LET after == updateLastSeen(entries, id, at) IN
         /\ after \in Registries
         /\ DOMAIN after = DOMAIN entries
         /\ \A n \in DOMAIN entries : /\ after[n].status = entries[n].status
                                      /\ after[n].meta = entries[n].meta
                                      /\ n # id => after[n] = entries[n]
         /\ id \in NodeIds /\ isOnline(entries, id) => after[id].last_seen_at = at
<1>1. DOMAIN entries \in SUBSET NodeIds /\ \A n \in DOMAIN entries : entries[n] \in NodeEntry
  BY DEF Registries
<1>2. QED
  BY <1>1, RegistryAssumption
  DEF updateLastSeen, updateLastSeenResult, isOnline, contains, Registries,
      NodeEntry, Status

Later(i, j) == IF i > j THEN i ELSE j

(***************************************************************************)
(* How far the clock can be from the events of the monitor: its timer is   *)
(* set when a scan, of at most Latency ticks, is over, and it runs at most *)
(* Latency ticks after the timer.                                          *)
(***************************************************************************)
Times ==
  /\ scanAt <= now /\ startedAt <= now
  /\ \A n \in NodeIds : contactAt[n] <= now
  /\ mpc = "unborn" => scanAt = 0
  /\ mpc \in {"wait", "woken"} =>
       /\ now <= timer + Latency
       /\ timer <= Later(scanAt, startedAt) + Latency + Interval
  /\ mpc = "scan" => now <= scanAt + Latency /\ startedAt <= scanAt

(***************************************************************************)
(* What the last scan says of a node that is ONLINE.  One that it did not  *)
(* choose had been in contact within two intervals, and one that it chose  *)
(* and has not marked yet was seen too long ago, or has been in contact    *)
(* since the scan began.                                                   *)
(***************************************************************************)
Scanned(n) ==
  /\ m_entries[n].last_seen_at <= contactAt[n]
  /\ MonitorRuns /\ n \notin stale => contactAt[n] >= scanAt - 2 * Interval
  /\ n \in stale =>
       /\ scanAt - Later(contactAt[n], startedAt) <= 3 * Interval + 2 * Latency
       /\ \/ contactAt[n] >= scanAt
          \/ m_entries[n].last_seen_at < scanAt - 2 * Interval

Inv ==
  /\ TypeOK
  /\ Times
  /\ \A n \in NodeIds : isOnline(m_entries, n) => Scanned(n)

\* The arithmetic below is about integers.
LEMMA Numbers ==
  ASSUME TypeOK
  PROVE  /\ Interval \in Nat /\ Interval > 0 /\ Latency \in Nat /\ MaxTime \in Nat
         /\ now \in Nat /\ scanAt \in Nat /\ startedAt \in Nat /\ timer \in Nat
         /\ now \in Instants
         /\ \A n \in NodeIds : contactAt[n] \in Nat
         /\ \A n \in DOMAIN m_entries :
              n \in NodeIds /\ m_entries[n].last_seen_at \in Int
<1>1. \A i \in Instants : i \in Int BY MonitorAssumption
<1>2. \A n \in DOMAIN m_entries : n \in NodeIds /\ m_entries[n] \in NodeEntry
  BY DEF TypeOK, Registries
<1>3. QED BY <1>1, <1>2, MonitorAssumption DEF TypeOK, NodeEntry

LEMMA InvInit == Init => Inv
<1> SUFFICES ASSUME Init PROVE Inv OBVIOUS
<1>1. NoEntries \in Registries
  <2>1. NoEntries \in [{} -> NodeEntry] BY DEF NoEntries
  <2>2. QED BY <2>1 DEF Registries
<1>2. TypeOK
  <2>1. m_stop \in BOOLEAN BY DEF Init
  <2>2. 0 \in 0..MaxTime /\ 0 \in 0..(MaxTime + Interval) BY MonitorAssumption
  <2>3. QED BY <1>1, <2>1, <2>2 DEF Init, TypeOK
<1>3. Times BY <1>2, MonitorAssumption DEF Init, Times
<1>4. \A n \in NodeIds : ~isOnline(m_entries, n)
  BY DEF Init, NoEntries, isOnline, contains
<1>5. QED BY <1>2, <1>3, <1>4 DEF Inv
-----------------------------------------------------------------------------
(***************************************************************************)
(* The sessions                                                            *)
(***************************************************************************)
\* A session's step changes the entry of n alone and, if that is ONLINE after
\* the step, n has just been in contact.
LEMMA InvContact ==
  ASSUME Inv, NEW n \in NodeIds,
         TypeOK', UNCHANGED <<now, m_stop, monitorVars, spc>>,
         contactAt' = [contactAt EXCEPT ![n] = now],
         \A k \in NodeIds \ {n} :
           isOnline(m_entries', k) => isOnline(m_entries, k) /\ m_entries'[k] = m_entries[k],
         isOnline(m_entries', n) => m_entries'[n].last_seen_at <= now
  PROVE  Inv'
<1> USE DEF Inv, monitorVars
<1>1. Times' BY Numbers DEF Times, TypeOK
<1>2. ASSUME NEW k \in NodeIds, isOnline(m_entries', k) PROVE Scanned(k)'
  <2>1. CASE k = n
    <3>1. contactAt'[n] = now BY DEF TypeOK
    <3>2. QED
      BY <1>2, <2>1, <3>1, Numbers DEF Scanned, MonitorRuns, Later, Times
  <2>2. CASE k # n
    <3>1. contactAt'[k] = contactAt[k] BY <2>2 DEF TypeOK
    <3>2. Scanned(k) /\ m_entries'[k] = m_entries[k] BY <1>2, <2>2
    <3>3. QED BY <3>1, <3>2 DEF Scanned, MonitorRuns
  <2>3. QED BY <2>1, <2>2
<1>3. QED BY <1>1, <1>2

LEMMA InvRegister == ASSUME Inv, NEW n \in NodeIds, Register(n) PROVE Inv'
<1> USE DEF Inv
<1>1. PICK meta \in Metas : m_entries' = registerNode(m_entries, n,
        [status |-> "ONLINE", last_seen_at |-> Epoch, meta |-> meta])
  BY DEF Register
<1> DEFINE entry == [status |-> "ONLINE", last_seen_at |-> Epoch, meta |-> meta]
<1>2. entry \in NodeEntry /\ m_entries \in Registries
  BY RegistryAssumption DEF NodeEntry, Status, TypeOK
<1>3. ~isOnline(m_entries, n) BY DEF Register, registerResult
<1>4. entry.last_seen_at = Epoch OBVIOUS
<1>5. m_entries' = registerNode(m_entries, n, entry) BY <1>1
<1> HIDE DEF entry
<1>6. /\ m_entries' \in Registries
      /\ \A k \in DOMAIN m_entries' : k # n => k \in DOMAIN m_entries /\ m_entries'[k] = m_entries[k]
      /\ m_entries'[n] = [entry EXCEPT !.status = "ONLINE"]
  BY <1>2, <1>3, <1>5, RegisterNodeEffect
<1>7. m_entries'[n].last_seen_at = Epoch BY <1>2, <1>4, <1>6 DEF NodeEntry
<1>8. TypeOK' BY <1>6 DEF Register, TypeOK, monitorVars
<1>9. Epoch <= now BY Numbers, MonitorAssumption
<1>10. \A k \in NodeIds \ {n} :
         isOnline(m_entries', k) => isOnline(m_entries, k) /\ m_entries'[k] = m_entries[k]
  BY <1>6 DEF isOnline, contains
<1>11. QED BY <1>7, <1>8, <1>9, <1>10, InvContact DEF Register

LEMMA InvHeartbeat == ASSUME Inv, NEW n \in NodeIds, Heartbeat(n) PROVE Inv'
<1> USE DEF Inv
<1>1. m_entries' = updateLastSeen(m_entries, n, now) /\ now \in Nat /\ now \in Instants
  BY Numbers DEF Heartbeat
<1>2. /\ m_entries' \in Registries /\ DOMAIN m_entries' = DOMAIN m_entries
      /\ \A k \in DOMAIN m_entries : /\ m_entries'[k].status = m_entries[k].status
                                     /\ k # n => m_entries'[k] = m_entries[k]
      /\ isOnline(m_entries, n) => m_entries'[n].last_seen_at = now
  BY <1>1, UpdateLastSeenEffect DEF TypeOK
<1>3. TypeOK' BY <1>2, Numbers DEF Heartbeat, TypeOK, monitorVars
<1>4. isOnline(m_entries', n) => m_entries'[n].last_seen_at <= now
  BY <1>1, <1>2 DEF isOnline, contains
<1>5. \A k \in NodeIds \ {n} :
        isOnline(m_entries', k) => isOnline(m_entries, k) /\ m_entries'[k] = m_entries[k]
  BY <1>2 DEF isOnline, contains
<1>6. QED BY <1>3, <1>4, <1>5, InvContact DEF Heartbeat

\* setOffline, by the end of a session or by the monitor.
LEMMA OfflineEffect ==
  ASSUME Inv, NEW n \in NodeIds, m_entries' = setOffline(m_entries, n, now)
  PROVE  /\ m_entries' \in Registries
         /\ ~isOnline(m_entries', n)
         /\ \A k \in NodeIds : isOnline(m_entries', k) =>
              k # n /\ isOnline(m_entries, k) /\ m_entries'[k] = m_entries[k]
<1>1. n # EmptyId /\ now \in Instants BY RegistryAssumption, Numbers DEF Inv
<1>2. /\ m_entries' \in Registries /\ DOMAIN m_entries' = DOMAIN m_entries
      /\ \A k \in DOMAIN m_entries : k # n => m_entries'[k] = m_entries[k]
      /\ ~isOnline(m_entries', n)
  BY <1>1, SetOfflineEffect DEF Inv, TypeOK
<1>3. QED BY <1>2 DEF isOnline, contains

LEMMA InvDisconnect == ASSUME Inv, NEW n \in NodeIds, Disconnect(n) PROVE Inv'
<1> USE DEF Inv, Disconnect
<1>1. TypeOK' BY OfflineEffect DEF TypeOK, monitorVars
<1>2. Times' BY DEF Times, monitorVars
<1>3. \A k \in NodeIds : isOnline(m_entries', k) => Scanned(k)'
  BY OfflineEffect DEF Scanned, MonitorRuns, monitorVars
<1>4. QED BY <1>1, <1>2, <1>3
-----------------------------------------------------------------------------
(***************************************************************************)
(* The clock, the monitor and stop()                                       *)
(***************************************************************************)
LEMMA InvTick == ASSUME Inv, Tick PROVE Inv'
<1> USE DEF Inv, Tick, nodeVars, monitorVars
<1>1. TypeOK' BY Numbers DEF TypeOK
<1>2. Times' BY Numbers DEF Times, MonitorOnTime, TypeOK
<1>3. \A n \in NodeIds : isOnline(m_entries', n) => Scanned(n)'
  BY DEF Scanned, MonitorRuns
<1>4. QED BY <1>1, <1>2, <1>3

LEMMA InvStart == ASSUME Inv, start PROVE Inv'
<1> USE DEF Inv, start, nodeVars
<1>1. TypeOK' BY Numbers DEF TypeOK
<1>2. Times' BY Numbers DEF Times, Later
<1>3. stale = {} /\ scanAt = 0 BY DEF TypeOK, Times
<1>4. \A n \in NodeIds : isOnline(m_entries', n) => Scanned(n)'
  BY <1>3, Numbers DEF Scanned, MonitorRuns
<1>5. QED BY <1>1, <1>2, <1>4

\* Blocking, waking and exiting change nothing but where the thread is.
LEMMA InvWait ==
  ASSUME Inv, UNCHANGED <<nodeVars, now, timer, stale, scanAt, startedAt>>,
         m_stop' \in BOOLEAN, spc' \in {"idle", "notify", "join", "done"},
         \/ mpc' = mpc
         \/ mpc \in {"wait", "woken"} /\ mpc' \in {"wait", "woken", "exited"}
  PROVE  Inv'
<1> USE DEF Inv, nodeVars
<1>1. TypeOK' BY DEF TypeOK
<1>2. Times' BY DEF Times
<1>3. \A n \in NodeIds : isOnline(m_entries', n) => Scanned(n)'
  BY DEF Scanned, MonitorRuns
<1>4. QED BY <1>1, <1>2, <1>3

\* Between two scans every ONLINE node is within the bound, less the latency
\* of the scan to come.
LEMMA WithinBound ==
  ASSUME Inv, mpc \in {"wait", "woken"}, NEW n \in NodeIds, isOnline(m_entries, n)
  PROVE  now - Later(contactAt[n], startedAt) <= 3 * Interval + 2 * Latency
<1>1. n \notin stale BY DEF Inv, TypeOK
<1>2. contactAt[n] >= scanAt - 2 * Interval
  BY <1>1 DEF Inv, Scanned, MonitorRuns
<1>3. now <= Later(scanAt, startedAt) + Interval + 2 * Latency
  BY Numbers DEF Inv, Times, Later
<1>4. QED BY <1>2, <1>3, Numbers DEF Inv, Later

LEMMA InvCollect == ASSUME Inv, CollectStale PROVE Inv'
<1> USE DEF Inv, CollectStale, nodeVars
<1>1. stale' = {n \in DOMAIN m_entries :
                  isOnline(m_entries, n) /\ m_entries[n].last_seen_at < now - 2 * Interval}
  BY DEF StaleIn, listNodes
<1>2. TypeOK' BY <1>1, Numbers DEF TypeOK
<1>3. Times' BY Numbers DEF Times
<1>4. ASSUME NEW n \in NodeIds, isOnline(m_entries', n) PROVE Scanned(n)'
  <2>1. n \in DOMAIN m_entries /\ isOnline(m_entries, n)
    BY <1>4 DEF isOnline, contains
  <2>2. m_entries[n].last_seen_at <= contactAt[n] BY <2>1 DEF Scanned
  <2>3. now - Later(contactAt[n], startedAt) <= 3 * Interval + 2 * Latency
    BY <2>1, WithinBound
  <2>4. n \in stale' <=> m_entries[n].last_seen_at < now - 2 * Interval
    BY <1>1, <2>1
  <2>5. QED BY <2>1, <2>2, <2>3, <2>4, Numbers DEF Scanned
<1>5. QED BY <1>2, <1>3, <1>4

LEMMA InvMark == ASSUME Inv, NEW n \in NodeIds, MarkStale(n) PROVE Inv'
<1> USE DEF Inv, MarkStale
<1>1. TypeOK' BY OfflineEffect DEF TypeOK
<1>2. Times' BY DEF Times
<1>3. \A k \in NodeIds : isOnline(m_entries', k) => Scanned(k)'
  BY OfflineEffect DEF Scanned, MonitorRuns
<1>4. QED BY <1>1, <1>2, <1>3

LEMMA InvReturns == ASSUME Inv, TickReturns PROVE Inv'
<1> USE DEF Inv, TickReturns, nodeVars
<1>1. TypeOK' BY Numbers DEF TypeOK
<1>2. Times' BY Numbers DEF Times, Later
<1>3. \A n \in NodeIds : isOnline(m_entries', n) => Scanned(n)'
  BY DEF Scanned, MonitorRuns
<1>4. QED BY <1>1, <1>2, <1>3

LEMMA InvNext == Inv /\ [Next]_vars => Inv'
<1> SUFFICES ASSUME Inv, [Next]_vars PROVE Inv' OBVIOUS
<1>1. m_stop \in BOOLEAN /\ spc \in {"idle", "notify", "join", "done"}
  BY DEF Inv, TypeOK
<1>2. CASE WaitBlocks \/ WaitTimesOut \/ SpuriousWakeup \/ RunExits
  BY <1>1, <1>2, InvWait
  DEF WaitBlocks, WaitTimesOut, SpuriousWakeup, RunExits
<1>3. CASE StopSets \/ StopJoins
  BY <1>1, <1>3, InvWait DEF StopSets, StopJoins, monitorVars
<1>4. CASE StopNotifies BY <1>1, <1>4, InvWait DEF StopNotifies
<1>5. CASE UNCHANGED vars BY <1>1, <1>5, InvWait DEF vars, nodeVars
<1>6. QED
  BY <1>2, <1>3, <1>4, <1>5, InvTick, InvRegister, InvHeartbeat, InvDisconnect,
     InvStart, InvCollect, InvMark, InvReturns
  DEF Next, Monitor, Stopper

THEOREM SpecInv == Spec => []Inv
<1>1. QED BY InvInit, InvNext, PTL DEF Spec

\* Type correctness: in particular no id is left to be marked when tick()
\* returns.
THEOREM TypeCorrect == Spec => []TypeOK
<1>1. Inv => TypeOK BY DEF Inv
<1>2. QED BY SpecInv, <1>1, PTL

\* A silent node is OFFLINE after three intervals and three latencies.
THEOREM SilentNodesAreFound == Spec => []SilenceIsDetected
<1>1. Inv => SilenceIsDetected
  <2> SUFFICES ASSUME Inv, MonitorRuns, NEW n \in NodeIds, isOnline(m_entries, n)
               PROVE  SilentFor(n) <= 3 * Interval + 3 * Latency
    BY DEF SilenceIsDetected
  <2>1. SilentFor(n) = now - Later(contactAt[n], startedAt) BY DEF SilentFor, Later
  <2>2. CASE mpc \in {"wait", "woken"}
    <3>1. now - Later(contactAt[n], startedAt) <= 3 * Interval + 2 * Latency
      BY <2>2, WithinBound
    <3>2. QED BY <2>1, <3>1, Numbers DEF Inv, Later
  <2>3. CASE mpc = "scan"
    <3>1. now <= scanAt + Latency BY <2>3 DEF Inv, Times
    <3>2. CASE n \in stale
      BY <2>1, <3>1, <3>2, Numbers DEF Inv, Scanned, Later
    <3>3. CASE n \notin stale
      BY <2>1, <3>1, <3>3, Numbers DEF Inv, Scanned, Later
    <3>4. QED BY <3>2, <3>3
  <2>4. QED BY <2>2, <2>3 DEF MonitorRuns
<1>2. QED BY SpecInv, <1>1, PTL
-----------------------------------------------------------------------------
\* The action of OnlySilentNodesMarked.
MarkIsFounded ==
  \A n \in NodeIds :
    MonitorMarks(n) => \/ m_entries[n].last_seen_at < now - 2 * Interval
                       \/ contactAt[n] >= scanAt

\* tick() marks no node but those that were silent when it copied the registry
\* or that were in contact after that.
THEOREM OnlySilentAreMarked == Spec => OnlySilentNodesMarked
<1>1. Inv /\ [Next]_vars => [MarkIsFounded]_vars
  <2> SUFFICES ASSUME Inv, Next, NEW n \in NodeIds, MonitorMarks(n)
               PROVE  \/ m_entries[n].last_seen_at < now - 2 * Interval
                      \/ contactAt[n] >= scanAt
    BY DEF MarkIsFounded
  <2>1. isOnline(m_entries, n) /\ ~isOnline(m_entries', n) /\ session' = session
    BY DEF MonitorMarks, isOnline, isOffline
  <2>2. ASSUME NEW k \in NodeIds, MarkStale(k)
        PROVE  \/ m_entries[n].last_seen_at < now - 2 * Interval
               \/ contactAt[n] >= scanAt
    <3>1. k = n
      <4>1. n \in DOMAIN m_entries /\ now \in Instants
        BY <2>1, Numbers DEF isOnline, contains, Inv
      <4>2. k # n => m_entries'[n] = m_entries[n] /\ n \in DOMAIN m_entries'
        BY <2>2, <4>1, SetOfflineEffect DEF MarkStale, Inv, TypeOK
      <4>3. QED BY <2>1, <4>2 DEF isOnline, contains
    <3>2. n \in stale BY <2>2, <3>1 DEF MarkStale
    <3>3. \/ contactAt[n] >= scanAt
          \/ m_entries[n].last_seen_at < scanAt - 2 * Interval
      BY <2>1, <3>2 DEF Inv, Scanned
    <3>4. m_entries[n].last_seen_at \in Int /\ scanAt <= now
      BY <2>1, Numbers DEF isOnline, contains, Inv, Times
    <3>5. QED BY <3>3, <3>4, Numbers DEF Inv
  <2>3. ASSUME NEW k \in NodeIds, Disconnect(k) PROVE FALSE
    BY <2>1, <2>3 DEF Disconnect
  <2>4. ASSUME NEW k \in NodeIds, Register(k) PROVE FALSE
    BY <2>1, <2>4 DEF Register
  <2>5. ASSUME NEW k \in NodeIds, Heartbeat(k) PROVE FALSE
    <3>1. now \in Instants /\ m_entries \in Registries BY Numbers DEF Inv, TypeOK
    <3>2. /\ DOMAIN m_entries' = DOMAIN m_entries
          /\ \A j \in DOMAIN m_entries : m_entries'[j].status = m_entries[j].status
      BY <2>5, <3>1, UpdateLastSeenEffect DEF Heartbeat
    <3>3. QED BY <2>1, <3>2 DEF isOnline, contains
  <2>6. CASE UNCHANGED m_entries BY <2>1, <2>6
  <2>7. QED
    BY <2>2, <2>3, <2>4, <2>5, <2>6
    DEF Next, Monitor, Stopper, Tick, start, SpuriousWakeup, StopSets, WaitBlocks,
        WaitTimesOut, RunExits, CollectStale, TickReturns, StopNotifies, StopJoins,
        nodeVars
<1>2. QED BY SpecInv, <1>1, PTL DEF Spec, OnlySilentNodesMarked, MarkIsFounded
=============================================================================
