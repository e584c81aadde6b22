----------------------- MODULE ConnectionWorkerProofs -----------------------
(***************************************************************************)
(* Theorems about ConnectionWorker, for any number of workers and nodes.   *)
(***************************************************************************)
EXTENDS ConnectionWorker, TLAPS

(***************************************************************************)
(* What the methods of NodeRegistry preserve and change, for any registry. *)
(***************************************************************************)
\* Inserting or replacing an entry.
LEMMA WithEntryType ==
  ASSUME NEW entries \in Registries, NEW id \in NodeIds, NEW entry \in NodeEntry
  PROVE  /\ WithEntry(entries, id, entry) \in Registries
         /\ DOMAIN WithEntry(entries, id, entry) = DOMAIN entries \cup {id}
         /\ WithEntry(entries, id, entry)[id] = entry
         /\ \A n \in DOMAIN entries :
              n # id => WithEntry(entries, id, entry)[n] = entries[n]
<1>1. DOMAIN entries \in SUBSET NodeIds /\ \A n \in DOMAIN entries : entries[n] \in NodeEntry
  BY DEF Registries
<1>2. WithEntry(entries, id, entry) \in [DOMAIN entries \cup {id} -> NodeEntry]
  BY <1>1 DEF WithEntry
<1>3. DOMAIN entries \cup {id} \in SUBSET NodeIds BY <1>1
<1>4. QED BY <1>2, <1>3 DEF Registries, WithEntry

\* registerNode touches no entry but the one of id, and not even that one
\* while it is ONLINE.
LEMMA RegisterNodeEffect ==
  ASSUME NEW entries \in Registries, NEW id \in NodeIds, NEW entry \in NodeEntry
  PROVE  LET after == registerNode(entries, id, entry) IN
         /\ after \in Registries
         /\ \A n \in DOMAIN entries : n \in DOMAIN after
         /\ \A n \in DOMAIN after : n # id => n \in DOMAIN entries /\ after[n] = entries[n]
         /\ isOnline(entries, id) => after = entries
         /\ ~isOnline(entries, id) =>
              /\ id \in DOMAIN after
              /\ after[id] = [entry EXCEPT !.status = "ONLINE"]
<1>1. [entry EXCEPT !.status = "ONLINE"] \in NodeEntry BY DEF NodeEntry, Status
<1>2. id # EmptyId BY RegistryAssumption
<1> DEFINE new == [entry EXCEPT !.status = "ONLINE"]
           after == registerNode(entries, id, entry)
<1>3. CASE isOnline(entries, id)
  <2>1. after = entries BY <1>3 DEF registerNode, registerResult
  <2>2. QED BY <1>3, <2>1
<1>4. CASE ~isOnline(entries, id)
  <2>0. new \in NodeEntry BY <1>1
  <2>1. after = WithEntry(entries, id, new)
    BY <1>2, <1>4 DEF registerNode, registerResult
  <2> HIDE DEF new, after
  <2>2. /\ after \in Registries
        /\ DOMAIN after = DOMAIN entries \cup {id}
        /\ after[id] = new
        /\ \A n \in DOMAIN entries : n # id => after[n] = entries[n]
    BY <2>0, <2>1, WithEntryType
  <2>3. QED BY <1>4, <2>2 DEF new, after
<1>5. QED BY <1>3, <1>4

\* The part of it that says what becomes of the other entries.
LEMMA RegisterKeepsOthers ==
  ASSUME NEW entries \in Registries, NEW id \in NodeIds, NEW entry \in NodeEntry,
         NEW after, after = registerNode(entries, id, entry)
  PROVE  \A n \in DOMAIN after :
           n # id => n \in DOMAIN entries /\ after[n] = entries[n]
<1> DEFINE new == [entry EXCEPT !.status = "ONLINE"]
<1>1. after = entries \/ after = WithEntry(entries, id, new) BY DEF registerNode
<1> HIDE DEF new
<1>2. QED BY <1>1 DEF WithEntry

\* setOffline and updateLastSeen change one entry and keep its metadata.
LEMMA SetOfflineEffect ==
  ASSUME NEW entries \in Registries, NEW id, NEW now \in Instants
  PROVE  LET after == setOffline(entries, id, now) IN
         /\ after \in Registries
         /\ DOMAIN after = DOMAIN entries
         /\ \A n \in DOMAIN entries : n # id => after[n] = entries[n]
         /\ id # EmptyId => ~isOnline(after, id)
<1>1. DOMAIN entries \in SUBSET NodeIds /\ \A n \in DOMAIN entries : entries[n] \in NodeEntry
  BY DEF Registries
<1>2. QED
  BY <1>1 DEF setOffline, contains, isOnline, Registries, NodeEntry, Status

LEMMA UpdateLastSeenEffect ==
  ASSUME NEW entries \in Registries, NEW id, NEW now \in Instants
  PROVE  LET after == updateLastSeen(entries, id, now) IN
         /\ after \in Registries
         /\ DOMAIN after = DOMAIN entries
         /\ \A n \in DOMAIN entries : /\ after[n].status = entries[n].status
                                      /\ after[n].meta = entries[n].meta
                                      /\ n # id => after[n] = entries[n]
         /\ id \in NodeIds /\ isOnline(entries, id) => after[id].last_seen_at = now
<1>1. DOMAIN entries \in SUBSET NodeIds /\ \A n \in DOMAIN entries : entries[n] \in NodeEntry
  BY DEF Registries
<1>2. QED
  BY <1>1, RegistryAssumption
  DEF updateLastSeen, updateLastSeenResult, isOnline, contains, Registries,
      NodeEntry, Status

USE DEF GoTo

(***************************************************************************)
(* Type correctness                                                        *)
(***************************************************************************)
LEMMA TypeInit == Init => TypeOK
<1> SUFFICES ASSUME Init PROVE TypeOK OBVIOUS
<1>1. NoEntries \in Registries
  <2>1. NoEntries \in [{} -> NodeEntry] BY DEF NoEntries
  <2>2. QED BY <2>1 DEF Registries
<1>2. NoReply \in Replies BY DEF NoReply, Replies
<1>3. QED
  BY <1>1, <1>2 DEF Init, TypeOK, Ids, Reasons, Causes

\* The entry RegisterHandler builds.
LEMMA NewEntryType ==
  ASSUME NEW w \in Workers
  PROVE  [status |-> "ONLINE", last_seen_at |-> Epoch, meta |-> w] \in NodeEntry
  BY RegistryAssumption, WorkerAssumption DEF NodeEntry, Status

LEMMA TypeRegister ==
  ASSUME NEW w \in Workers, TypeOK, NEW f \in RegisterFrames, HandleRegister(w, f)
  PROVE  TypeOK'
<1> USE DEF HandleRegister, Respond
<1> DEFINE accepted == f.valid /\ f.id \in NodeIds
           entry == [status |-> "ONLINE", last_seen_at |-> Epoch, meta |-> w]
<1>1. m_entries' \in Registries
  <2>1. accepted => registerNode(m_entries, f.id, entry) \in Registries
    BY NewEntryType, RegisterNodeEffect DEF TypeOK
  <2>2. QED BY <2>1 DEF TypeOK
<1>2. activeNodeId' \in [Workers -> Ids]
  BY DEF TypeOK, RegisterFrames, Ids
<1>3. reply' \in [Workers -> Replies]
  BY DEF TypeOK, Replies
<1>4. errno' \in [Workers -> {"ECONNRESET", "other"}]
  BY DEF TypeOK, ErrnoKeptOrCleared
<1>5. granted' \in [Workers -> SUBSET NodeIds]
  BY DEF TypeOK
<1>6. overwritten' \in SUBSET NodeIds
  BY DEF TypeOK
<1>7. QED
  BY <1>1, <1>2, <1>3, <1>4, <1>5, <1>6 DEF TypeOK

LEMMA TypeQuery ==
  ASSUME NEW w \in Workers, TypeOK, NEW id \in Ids \cup {NoField}, HandleQueryNode(w, id)
  PROVE  TypeOK'
<1> USE DEF HandleQueryNode, Respond
<1>1. contains(m_entries, id) => id \in NodeIds /\ m_entries[id] \in NodeEntry
  BY DEF contains, TypeOK, Registries
<1>2. reply' \in [Workers -> Replies]
  BY <1>1 DEF TypeOK, Replies
<1>3. errno' \in [Workers -> {"ECONNRESET", "other"}]
  BY DEF TypeOK, ErrnoKeptOrCleared
<1>4. QED BY <1>2, <1>3 DEF TypeOK

LEMMA TypeWorker == ASSUME NEW w \in Workers, TypeOK, Worker(w) PROVE TypeOK'
<1>1. CASE BeginSession(w) BY <1>1 DEF BeginSession, TypeOK, Ids
<1>2. CASE applyReceiveTimeout(w)
  BY <1>2 DEF applyReceiveTimeout, EndSession, CallFails, TypeOK, Reasons, Causes
<1>3. CASE \E f \in RegisterFrames : HandleRegister(w, f) BY <1>3, TypeRegister
<1>4. CASE \E id \in Ids \cup {NoField} : HandleQueryNode(w, id) BY <1>4, TypeQuery
<1>5. CASE HandleListNodes(w)
  BY <1>5 DEF HandleListNodes, Respond, ErrnoKeptOrCleared, TypeOK, Replies
<1>6. CASE HandleHeartbeat(w)
  <2>1. m_entries' \in Registries
    BY <1>6, UpdateLastSeenEffect, WorkerAssumption DEF HandleHeartbeat, TypeOK
  <2>2. QED BY <1>6, <2>1 DEF HandleHeartbeat, TypeOK
<1>7. CASE HandleUnknownType(w)
  BY <1>7 DEF HandleUnknownType, Respond, ErrnoKeptOrCleared, TypeOK, Replies
<1>8. CASE SendReply(w)
  BY <1>8 DEF SendReply, CallFails, TypeOK, NoReply, Replies
<1>9. CASE ReceiveEnds(w)
  <2>1. reason' \in [Workers -> Reasons] /\ cause' \in [Workers -> Causes]
    BY <1>9 DEF ReceiveEnds, EndSession, TypeOK, IoErrorReason, Reasons, Causes
  <2>2. /\ errno' \in [Workers -> {"ECONNRESET", "other"}]
        /\ lastReset' \in [Workers -> {"none", "own", "earlier"}]
    BY <1>9 DEF ReceiveEnds, CallFails, TypeOK
  <2>3. QED BY <1>9, <2>1, <2>2 DEF ReceiveEnds, EndSession, TypeOK
<1>10. CASE markOfflineIfKnown(w)
  <2>1. m_entries' \in Registries
    BY <1>10, SetOfflineEffect, WorkerAssumption DEF markOfflineIfKnown, TypeOK
  <2>2. granted' \in [Workers -> SUBSET NodeIds]
    BY <1>10 DEF markOfflineIfKnown, Revoke, TypeOK
  <2>3. QED BY <1>10, <2>1, <2>2 DEF markOfflineIfKnown, TypeOK, Ids, Reasons, Causes
<1>11. CASE WelcomeFails(w) BY <1>11 DEF WelcomeFails, CallFails, TypeOK
<1>12. QED
  BY <1>1, <1>2, <1>3, <1>4, <1>5, <1>6, <1>7, <1>8, <1>9, <1>10, <1>11 DEF Worker

\* Type correctness, for any number of workers and nodes.
THEOREM TypeCorrect == Spec => []TypeOK
<1>1. TypeOK /\ [Next]_vars => TypeOK'
  <2> SUFFICES ASSUME TypeOK, [Next]_vars PROVE TypeOK' OBVIOUS
  <2>1. CASE Next BY <2>1, TypeWorker DEF Next
  <2>2. CASE UNCHANGED vars BY <2>2 DEF vars, TypeOK
  <2>3. QED BY <2>1, <2>2
<1>2. QED BY TypeInit, <1>1, PTL DEF Spec
-----------------------------------------------------------------------------
(***************************************************************************)
(* Who registered a node.  The claims of the sessions (granted) are backed *)
(* by the registry, which keeps the metadata of one session only; so two   *)
(* sessions cannot both hold one, and RegisteredNodeVisible is inductive.  *)
(***************************************************************************)

\* A step that leaves the registry and the claims alone and announces no
\* registration keeps it.
LEMMA VisibleUnchanged ==
  ASSUME NEW w \in Workers, TypeOK, RegisteredNodeVisible,
         UNCHANGED <<m_entries, granted>>,
         \/ UNCHANGED reply
         \/ \E r : r.kind # "REGISTERED" /\ reply' = [reply EXCEPT ![w] = r]
  PROVE  RegisteredNodeVisible'
  BY DEF RegisteredNodeVisible, contains, isOnline, TypeOK

LEMMA VisibleRegister ==
  ASSUME NEW w \in Workers, TypeOK, RegisteredNodeVisible,
         NEW f \in RegisterFrames, HandleRegister(w, f)
  PROVE  RegisteredNodeVisible'
<1> DEFINE accepted == f.valid /\ f.id \in NodeIds
           ok == accepted /\ registerResult(m_entries, f.id) = "OK"
           entry == [status |-> "ONLINE", last_seen_at |-> Epoch, meta |-> w]
<1>1. /\ m_entries' = IF accepted THEN registerNode(m_entries, f.id, entry)
                                  ELSE m_entries
      /\ granted' = IF ok THEN [granted EXCEPT ![w] = @ \cup {f.id}] ELSE granted
      /\ reply' = [reply EXCEPT ![w] =
                     IF ok THEN [kind |-> "REGISTERED", id |-> f.id]
                     ELSE IF accepted THEN [kind |-> "ERR_DUPLICATE"]
                     ELSE [kind |-> "ERR_MALFORMED"]]
  BY DEF HandleRegister, Respond
<1>2. CASE ok
  <2>1. ~isOnline(m_entries, f.id) /\ f.id \in NodeIds
    BY <1>2 DEF registerResult
  <2>2. m_entries' = registerNode(m_entries, f.id, entry) BY <1>1, <1>2
  <2>3. entry \in NodeEntry /\ m_entries \in Registries
    BY NewEntryType DEF TypeOK
  <2> HIDE DEF entry
  <2>4. /\ \A n \in DOMAIN m_entries : n \in DOMAIN m_entries'
        /\ \A n \in DOMAIN m_entries' :
             n # f.id => n \in DOMAIN m_entries /\ m_entries'[n] = m_entries[n]
        /\ f.id \in DOMAIN m_entries'
        /\ m_entries'[f.id] = [entry EXCEPT !.status = "ONLINE"]
    BY <2>1, <2>2, <2>3, RegisterNodeEffect
  <2>5. m_entries'[f.id].status = "ONLINE" /\ m_entries'[f.id].meta = w
    BY <2>4 DEF entry
  <2>6. /\ granted' = [granted EXCEPT ![w] = @ \cup {f.id}]
        /\ reply' = [reply EXCEPT ![w] = [kind |-> "REGISTERED", id |-> f.id]]
    BY <1>1, <1>2
  <2>7. ASSUME NEW v \in Workers, reply'[v].kind = "REGISTERED"
        PROVE  contains(m_entries', reply'[v].id)
    BY <2>4, <2>6, <2>7 DEF RegisteredNodeVisible, contains, TypeOK
  <2>8. ASSUME NEW v \in Workers, NEW n \in granted'[v]
        PROVE  isOnline(m_entries', n) /\ m_entries'[n].meta = v
    <3>1. CASE n \in granted[v]
      <4>1. isOnline(m_entries, n) /\ m_entries[n].meta = v
        BY <3>1 DEF RegisteredNodeVisible
      <4>2. n # f.id BY <4>1, <2>1
      <4>3. n \in DOMAIN m_entries' /\ m_entries'[n] = m_entries[n]
        BY <4>1, <4>2, <2>4 DEF isOnline, contains
      <4>4. QED BY <4>1, <4>3 DEF isOnline, contains
    <3>2. CASE v = w /\ n = f.id
      BY <3>2, <2>4, <2>5 DEF isOnline, contains
    <3>3. QED BY <3>1, <3>2, <2>6 DEF TypeOK
  <2>9. QED BY <2>7, <2>8 DEF RegisteredNodeVisible
<1>3. CASE ~ok
  <2>1. m_entries' = m_entries
    BY <1>1, <1>3 DEF registerNode
  <2>2. UNCHANGED granted BY <1>1, <1>3
  <2>3. \E r : r.kind # "REGISTERED" /\ reply' = [reply EXCEPT ![w] = r]
    <3> DEFINE r == IF accepted THEN [kind |-> "ERR_DUPLICATE"]
                    ELSE [kind |-> "ERR_MALFORMED"]
    <3>1. r.kind # "REGISTERED" OBVIOUS
    <3>2. reply' = [reply EXCEPT ![w] = r] BY <1>1, <1>3
    <3>3. QED BY <3>1, <3>2
  <2>4. QED BY <2>1, <2>2, <2>3, VisibleUnchanged
<1>4. QED BY <1>2, <1>3

LEMMA VisibleWorker ==
  ASSUME NEW w \in Workers, TypeOK, RegisteredNodeVisible, Worker(w)
  PROVE  RegisteredNodeVisible'
<1>1. CASE \E f \in RegisterFrames : HandleRegister(w, f) BY <1>1, VisibleRegister
<1>2. CASE HandleHeartbeat(w)
  <2>1. /\ DOMAIN m_entries' = DOMAIN m_entries
        /\ \A n \in DOMAIN m_entries : /\ m_entries'[n].status = m_entries[n].status
                                       /\ m_entries'[n].meta = m_entries[n].meta
    BY <1>2, UpdateLastSeenEffect, WorkerAssumption DEF HandleHeartbeat, TypeOK
  <2>2. QED
    BY <1>2, <2>1 DEF HandleHeartbeat, RegisteredNodeVisible, contains, isOnline
<1>3. CASE markOfflineIfKnown(w)
  <2> DEFINE id == activeNodeId[w]
  <2>1. /\ DOMAIN m_entries' = DOMAIN m_entries
        /\ \A n \in DOMAIN m_entries : n # id => m_entries'[n] = m_entries[n]
    BY <1>3, SetOfflineEffect, WorkerAssumption DEF markOfflineIfKnown, TypeOK
  <2>2. /\ UNCHANGED reply
        /\ \A v \in Workers : granted'[v] \subseteq granted[v] \ {id}
    BY <1>3 DEF markOfflineIfKnown, Revoke, TypeOK
  <2> HIDE DEF id
  <2>3. QED BY <2>1, <2>2 DEF RegisteredNodeVisible, contains, isOnline
<1>4. CASE WelcomeFails(w) \/ BeginSession(w) \/ applyReceiveTimeout(w) \/ ReceiveEnds(w)
  BY <1>4, VisibleUnchanged
  DEF WelcomeFails, BeginSession, applyReceiveTimeout, ReceiveEnds, EndSession
<1>5. CASE SendReply(w)
  <2>1. NoReply.kind # "REGISTERED" BY DEF NoReply
  <2>2. QED BY <1>5, <2>1, VisibleUnchanged DEF SendReply
<1>6. CASE HandleListNodes(w)
  <2>1. [kind |-> "LIST"].kind # "REGISTERED" OBVIOUS
  <2>2. QED BY <1>6, <2>1, VisibleUnchanged DEF HandleListNodes, Respond
<1>7. CASE HandleUnknownType(w)
  <2>1. [kind |-> "ERR_MALFORMED"].kind # "REGISTERED" OBVIOUS
  <2>2. QED BY <1>7, <2>1, VisibleUnchanged DEF HandleUnknownType, Respond
<1>8. ASSUME NEW id \in Ids \cup {NoField}, HandleQueryNode(w, id)
      PROVE  RegisteredNodeVisible'
  <2> DEFINE r == IF id = NoField THEN [kind |-> "ERR_MALFORMED"]
                  ELSE IF contains(m_entries, id)
                       THEN [kind |-> "NODE", id |-> id, entry |-> m_entries[id]]
                       ELSE [kind |-> "ERR_NOT_FOUND"]
  <2>1. r.kind # "REGISTERED" OBVIOUS
  <2>2. reply' = [reply EXCEPT ![w] = r] /\ UNCHANGED <<m_entries, granted>>
    BY <1>8 DEF HandleQueryNode, Respond
  <2>3. QED BY <2>1, <2>2, VisibleUnchanged
<1>9. QED
  BY <1>1, <1>2, <1>3, <1>4, <1>5, <1>6, <1>7, <1>8 DEF Worker

\* After the ACK of a REGISTER the node is visible to all threads with the
\* metadata of that session, until some session marks it OFFLINE.
THEOREM RegisteredIsVisible == Spec => []RegisteredNodeVisible
<1>1. Init => RegisteredNodeVisible
  BY DEF Init, RegisteredNodeVisible, NoReply
<1>2. TypeOK /\ RegisteredNodeVisible /\ [Next]_vars => RegisteredNodeVisible'
  <2> SUFFICES ASSUME TypeOK, RegisteredNodeVisible, [Next]_vars
               PROVE  RegisteredNodeVisible'
    OBVIOUS
  <2>1. CASE Next BY <2>1, VisibleWorker DEF Next
  <2>2. CASE UNCHANGED vars
    BY <2>2 DEF vars, RegisteredNodeVisible, contains, isOnline
  <2>3. QED BY <2>1, <2>2
<1>3. QED BY TypeCorrect, <1>1, <1>2, PTL DEF Spec

\* No two sessions are ever told that they registered the same node.
THEOREM OneRegistrant == Spec => []SingleRegistrant
<1>1. RegisteredNodeVisible => SingleRegistrant
  BY DEF RegisteredNodeVisible, SingleRegistrant
<1>2. QED BY RegisteredIsVisible, <1>1, PTL
-----------------------------------------------------------------------------
(***************************************************************************)
(* Who will mark a node OFFLINE.  OnlineNodeHasSession is inductive: a     *)
(* session gives up its active node only by replacing it (overwritten) or  *)
(* by its teardown, which marks the node OFFLINE in the same step.         *)
(***************************************************************************)

\* A step that keeps the status of every node and the active nodes, and
\* starts or ends no session, keeps it.
LEMMA SessionUnchanged ==
  ASSUME OnlineNodeHasSession, UNCHANGED <<activeNodeId, overwritten>>,
         \A n \in NodeIds : isOnline(m_entries, n)' => isOnline(m_entries, n),
         \A v \in Workers : Live(v) => Live(v)'
  PROVE  OnlineNodeHasSession'
  BY DEF OnlineNodeHasSession

\* A REGISTER makes its node the active one of a live session, and records
\* the one it replaces.
LEMMA SessionRegister ==
  ASSUME NEW w \in Workers, TypeOK, OnlineNodeHasSession,
         NEW f \in RegisterFrames, HandleRegister(w, f)
  PROVE  OnlineNodeHasSession'
<1> DEFINE accepted == f.valid /\ f.id \in NodeIds
           ok == accepted /\ registerResult(m_entries, f.id) = "OK"
           entry == [status |-> "ONLINE", last_seen_at |-> Epoch, meta |-> w]
           newId == IF f.id = NoField THEN activeNodeId[w] ELSE f.id
<1>1. /\ m_entries' = IF accepted THEN registerNode(m_entries, f.id, entry)
                                  ELSE m_entries
      /\ activeNodeId' = [activeNodeId EXCEPT ![w] = newId]
      /\ overwritten' = (overwritten \cup
                           {n \in NodeIds : n = activeNodeId[w] /\ n # newId})
                          \ (IF ok THEN {f.id} ELSE {})
      /\ pc[w] = "recv" /\ pc' = [pc EXCEPT ![w] = "reply"]
  BY DEF HandleRegister, Respond
<1>2. \A v \in Workers : Live(v) => Live(v)'
  BY <1>1 DEF Live, TypeOK
<1>3. Live(w)' /\ activeNodeId'[w] = newId BY <1>1 DEF Live, TypeOK
<1>4. \A v \in Workers : v # w => activeNodeId'[v] = activeNodeId[v]
  BY <1>1 DEF TypeOK
<1>5. \A n \in NodeIds :
        isOnline(m_entries', n) => isOnline(m_entries, n) \/ (ok /\ n = f.id)
  <2>1. CASE accepted
    <3>1. entry \in NodeEntry /\ m_entries \in Registries /\ f.id \in NodeIds
      BY <2>1, NewEntryType DEF TypeOK
    <3>2. m_entries' = registerNode(m_entries, f.id, entry) BY <1>1, <2>1
    <3> HIDE DEF entry, accepted
    <3>3. \A n \in DOMAIN m_entries' :
            n # f.id => n \in DOMAIN m_entries /\ m_entries'[n] = m_entries[n]
      BY <3>1, <3>2, RegisterKeepsOthers
    <3>4. ~ok => m_entries' = m_entries BY <2>1, <3>2 DEF registerNode
    <3> HIDE DEF ok
    <3>5. QED BY <3>3, <3>4 DEF isOnline, contains
  <2>2. CASE ~accepted BY <1>1, <2>2
  <2>3. QED BY <2>1, <2>2
<1>6. ok => newId = f.id
  BY WorkerAssumption
<1>7. ASSUME NEW n \in NodeIds, isOnline(m_entries', n), n \notin overwritten'
      PROVE  \E v \in Workers : Live(v)' /\ activeNodeId'[v] = n
  <2>1. CASE ok /\ n = f.id BY <2>1, <1>3, <1>6
  <2>2. CASE isOnline(m_entries, n) /\ ~(ok /\ n = f.id)
    <3>1. n \notin overwritten /\ (n = activeNodeId[w] => n = newId)
      BY <1>7, <1>1, <2>2
    <3>2. PICK v \in Workers : Live(v) /\ activeNodeId[v] = n
      BY <2>2, <3>1 DEF OnlineNodeHasSession
    <3> HIDE DEF newId
    <3>3. CASE v = w BY <3>1, <3>2, <3>3, <1>3
    <3>4. CASE v # w BY <3>2, <3>4, <1>2, <1>4
    <3>5. QED BY <3>3, <3>4
  <2>3. QED BY <2>1, <2>2, <1>5, <1>7
<1>8. QED BY <1>7 DEF OnlineNodeHasSession

LEMMA SessionWorker ==
  ASSUME NEW w \in Workers, TypeOK, OnlineNodeHasSession, Worker(w)
  PROVE  OnlineNodeHasSession'
<1>1. CASE \E f \in RegisterFrames : HandleRegister(w, f) BY <1>1, SessionRegister
<1>2. CASE BeginSession(w)
  <2>1. UNCHANGED <<m_entries, overwritten>> /\ ~Live(w)
    BY <1>2 DEF BeginSession, Live
  <2>2. \A v \in Workers :
          v # w => Live(v)' = Live(v) /\ activeNodeId'[v] = activeNodeId[v]
    BY <1>2 DEF BeginSession, Live, TypeOK
  <2>3. QED BY <2>1, <2>2 DEF OnlineNodeHasSession
<1>3. CASE markOfflineIfKnown(w)
  <2> DEFINE id == activeNodeId[w]
  <2>1. /\ DOMAIN m_entries' = DOMAIN m_entries
        /\ \A n \in DOMAIN m_entries : n # id => m_entries'[n] = m_entries[n]
        /\ id # EmptyId => ~isOnline(m_entries', id)
    BY <1>3, SetOfflineEffect, WorkerAssumption DEF markOfflineIfKnown, TypeOK
  <2>2. \A v \in Workers :
          v # w => Live(v)' = Live(v) /\ activeNodeId'[v] = activeNodeId[v]
    BY <1>3 DEF markOfflineIfKnown, Live, TypeOK
  <2>3. overwritten' = overwritten \ {id} BY <1>3 DEF markOfflineIfKnown
  <2>4. ASSUME NEW n \in NodeIds, isOnline(m_entries', n), n \notin overwritten'
        PROVE  \E v \in Workers : Live(v)' /\ activeNodeId'[v] = n
    <3>1. n # id BY <2>1, <2>4, RegistryAssumption
    <3>2. isOnline(m_entries, n) /\ n \notin overwritten
      BY <3>1, <2>1, <2>3, <2>4 DEF isOnline, contains
    <3>3. PICK v \in Workers : Live(v) /\ activeNodeId[v] = n
      BY <3>2 DEF OnlineNodeHasSession
    <3>4. QED BY <3>1, <3>3, <2>2
  <2>5. QED BY <2>4 DEF OnlineNodeHasSession
<1>4. CASE HandleHeartbeat(w)
  <2>1. /\ DOMAIN m_entries' = DOMAIN m_entries
        /\ \A n \in DOMAIN m_entries : m_entries'[n].status = m_entries[n].status
    BY <1>4, UpdateLastSeenEffect, WorkerAssumption DEF HandleHeartbeat, TypeOK
  <2>2. \A n \in NodeIds : isOnline(m_entries, n)' => isOnline(m_entries, n)
    BY <2>1 DEF isOnline, contains
  <2>3. UNCHANGED <<activeNodeId, overwritten>> /\ \A v \in Workers : Live(v) => Live(v)'
    BY <1>4 DEF HandleHeartbeat, Live
  <2>4. QED BY <2>2, <2>3, SessionUnchanged
<1>5. CASE \/ applyReceiveTimeout(w) \/ ReceiveEnds(w) \/ SendReply(w)
           \/ HandleListNodes(w) \/ HandleUnknownType(w)
           \/ \E id \in Ids \cup {NoField} : HandleQueryNode(w, id)
  <2>1. UNCHANGED <<m_entries, activeNodeId, overwritten>>
    BY <1>5 DEF applyReceiveTimeout, ReceiveEnds, SendReply, HandleListNodes,
                HandleUnknownType, HandleQueryNode, EndSession
  <2>2. \E from, to \in {"config", "recv", "reply", "offline"} : GoTo(w, from, to)
    BY <1>5 DEF applyReceiveTimeout, ReceiveEnds, SendReply, HandleListNodes,
                HandleUnknownType, HandleQueryNode, EndSession, Respond
  <2>3. \A v \in Workers : Live(v) => Live(v)' BY <2>2 DEF Live, TypeOK
  <2>4. \A n \in NodeIds : isOnline(m_entries, n)' => isOnline(m_entries, n)
    BY <2>1 DEF isOnline, contains
  <2>5. QED BY <2>1, <2>3, <2>4, SessionUnchanged
<1>6. CASE WelcomeFails(w)
  BY <1>6 DEF WelcomeFails, OnlineNodeHasSession, Live
<1>7. QED BY <1>1, <1>2, <1>3, <1>4, <1>5, <1>6 DEF Worker

\* An ONLINE node that no session replaced in its activeNodeId is the active
\* node of a live session, whose teardown will mark it OFFLINE.
THEOREM OnlineIsTracked == Spec => []OnlineNodeHasSession
<1>1. Init => OnlineNodeHasSession
  BY DEF Init, OnlineNodeHasSession, isOnline, contains, NoEntries
<1>2. TypeOK /\ OnlineNodeHasSession /\ [Next]_vars => OnlineNodeHasSession'
  <2> SUFFICES ASSUME TypeOK, OnlineNodeHasSession, [Next]_vars
               PROVE  OnlineNodeHasSession'
    OBVIOUS
  <2>1. CASE Next BY <2>1, SessionWorker DEF Next
  <2>2. CASE UNCHANGED vars
    BY <2>2 DEF vars, OnlineNodeHasSession, contains, isOnline, Live
  <2>3. QED BY <2>1, <2>2
<1>3. QED BY TypeCorrect, <1>1, <1>2, PTL DEF Spec
-----------------------------------------------------------------------------
(***************************************************************************)
(* What no step does to the registry                                       *)
(***************************************************************************)
\* The action of OnlineEntryNotReplaced.
Kept == \A n \in DOMAIN m_entries :
          /\ n \in DOMAIN m_entries'
          /\ isOnline(m_entries, n) /\ isOnline(m_entries', n)
               => m_entries'[n].meta = m_entries[n].meta

\* Every step of a worker keeps the entries.
LEMMA KeptWorker == ASSUME NEW w \in Workers, TypeOK, Worker(w) PROVE Kept
<1>1. ASSUME NEW f \in RegisterFrames, HandleRegister(w, f) PROVE Kept
  <2> DEFINE accepted == f.valid /\ f.id \in NodeIds
             entry == [status |-> "ONLINE", last_seen_at |-> Epoch, meta |-> w]
  <2>1. m_entries' = IF accepted THEN registerNode(m_entries, f.id, entry)
                                 ELSE m_entries
    BY <1>1 DEF HandleRegister
  <2>2. CASE accepted
    <3>1. entry \in NodeEntry /\ m_entries \in Registries /\ f.id \in NodeIds
      BY <2>2, NewEntryType DEF TypeOK
    <3>2. m_entries' = registerNode(m_entries, f.id, entry) BY <2>1, <2>2
    <3> HIDE DEF entry, accepted
    <3>3. \A n \in DOMAIN m_entries' :
            n # f.id => n \in DOMAIN m_entries /\ m_entries'[n] = m_entries[n]
      BY <3>1, <3>2, RegisterKeepsOthers
    <3>4. /\ \A n \in DOMAIN m_entries : n \in DOMAIN m_entries'
          /\ isOnline(m_entries, f.id) => m_entries' = m_entries
      BY <3>1, <3>2 DEF registerNode, registerResult, WithEntry
    <3>5. QED BY <3>3, <3>4 DEF Kept, isOnline
  <2>3. CASE ~accepted BY <2>1, <2>3 DEF Kept
  <2>4. QED BY <2>2, <2>3
<1>2. CASE HandleHeartbeat(w)
  <2>1. /\ DOMAIN m_entries' = DOMAIN m_entries
        /\ \A n \in DOMAIN m_entries : m_entries'[n].meta = m_entries[n].meta
    BY <1>2, UpdateLastSeenEffect, WorkerAssumption DEF HandleHeartbeat, TypeOK
  <2>2. QED BY <2>1 DEF Kept
<1>3. CASE markOfflineIfKnown(w)
  <2> DEFINE id == activeNodeId[w]
  <2>1. /\ DOMAIN m_entries' = DOMAIN m_entries
        /\ \A n \in DOMAIN m_entries : n # id => m_entries'[n] = m_entries[n]
        /\ id # EmptyId => ~isOnline(m_entries', id)
    BY <1>3, SetOfflineEffect, WorkerAssumption DEF markOfflineIfKnown, TypeOK
  <2>2. EmptyId \notin DOMAIN m_entries BY RegistryAssumption DEF TypeOK, Registries
  <2>3. QED BY <2>1, <2>2 DEF Kept
<1>4. CASE UNCHANGED m_entries BY <1>4 DEF Kept
<1>5. QED
  BY <1>1, <1>2, <1>3, <1>4
  DEF Worker, WelcomeFails, BeginSession, applyReceiveTimeout, EndSession, HandleQueryNode,
      HandleListNodes, HandleUnknownType, SendReply, ReceiveEnds

\* Entries are never removed, and no REGISTER replaces the metadata of a
\* node that stays ONLINE.
THEOREM EntriesAreKept == Spec => OnlineEntryNotReplaced
<1>1. TypeOK /\ [Next]_vars => [Kept]_vars
  BY KeptWorker DEF Next
<1>2. QED BY TypeCorrect, <1>1, PTL DEF Spec, OnlineEntryNotReplaced, Kept
-----------------------------------------------------------------------------
(***************************************************************************)
(* What the reported reason says                                           *)
(***************************************************************************)
\* Why AbruptFollowsReset holds: only a reset leaves ECONNRESET in the thread's
\* errno, and the reason is decided by the step that leaves the loop, after
\* which the session makes no call that could fail.
ResetKept ==
  \A w \in Workers :
    /\ errno[w] = "ECONNRESET" => lastReset[w] # "none"
    /\ pc[w] # "offline" => reason[w] # "ABRUPT_DISCONNECT"

LEMMA ResetWorker ==
  ASSUME TypeOK, ResetKept, AbruptFollowsReset, NEW w \in Workers, Worker(w)
  PROVE  ResetKept' /\ AbruptFollowsReset'
<1> USE DEF ResetKept, AbruptFollowsReset, TypeOK
<1>1. CASE applyReceiveTimeout(w)
  <2>1. CASE EndSession(w, "config", "setsockopt failed", "SOCKET_CONFIG_ERROR")
             /\ CallFails(w, "other", "own")
    <3>1. ResetKept' BY <2>1 DEF EndSession, GoTo, CallFails
    <3>2. AbruptFollowsReset' BY <2>1 DEF EndSession, CallFails
    <3>3. QED BY <3>1, <3>2
  <2>2. CASE GoTo(w, "config", "recv") /\ UNCHANGED <<errno, reason, cause, lastReset>>
    BY <2>2 DEF GoTo
  <2>3. QED BY <1>1, <2>1, <2>2 DEF applyReceiveTimeout
<1>2. CASE SendReply(w)
  <2>1. ResetKept' BY <1>2 DEF SendReply, GoTo, CallFails
  <2>2. AbruptFollowsReset' BY <1>2 DEF SendReply, GoTo, CallFails
  <2>3. QED BY <2>1, <2>2
<1>3. CASE ReceiveEnds(w)
  <2>1. PICK why, reported :
          /\ EndSession(w, "recv", why, reported)
          /\ \/ reported # "ABRUPT_DISCONNECT"
             \/ reported = IoErrorReason("other")
             \/ CallFails(w, "ECONNRESET", "own")
             \/ /\ why = "bad frame" /\ reported = IoErrorReason(errno[w])
                /\ UNCHANGED <<errno, lastReset>>
          /\ \/ UNCHANGED <<errno, lastReset>>
             \/ \E err \in {"ECONNRESET", "other"} : CallFails(w, err, "own")
    BY <1>3, Zenon DEF ReceiveEnds
  <2>2. ResetKept'
    BY <2>1 DEF EndSession, GoTo, CallFails
  <2>3. \A v \in Workers \ {w} : UNCHANGED <<reason[v], cause[v], lastReset[v]>>
    BY <2>1 DEF EndSession, CallFails
  <2>4. reason'[w] = "ABRUPT_DISCONNECT" =>
          \/ lastReset'[w] = "own"
          \/ lastReset'[w] = "earlier" /\ cause'[w] = "bad frame"
    BY <2>1 DEF EndSession, CallFails, IoErrorReason, isAbruptDisconnect
  <2>5. QED BY <2>2, <2>3, <2>4
<1>4. CASE markOfflineIfKnown(w)
  BY <1>4 DEF markOfflineIfKnown, GoTo
<1>5. CASE BeginSession(w)
  BY <1>5 DEF BeginSession, GoTo
<1>6. CASE \E r : Respond(w, r)
  BY <1>6 DEF Respond, GoTo, ErrnoKeptOrCleared
<1>7. CASE HandleHeartbeat(w)
  BY <1>7 DEF HandleHeartbeat
<1>8. CASE WelcomeFails(w)
  BY <1>8 DEF WelcomeFails, CallFails
<1>9. QED
  BY <1>1, <1>2, <1>3, <1>4, <1>5, <1>6, <1>7, <1>8
  DEF Worker, HandleRegister, HandleQueryNode, HandleListNodes, HandleUnknownType

\* A session reported as an abrupt disconnect met a reset itself, or ended on a
\* bad frame in a thread whose last failed call was an earlier session's reset,
\* whatever number of sessions the threads have served.
THEOREM AbruptIsFounded == Spec => []AbruptFollowsReset
<1>1. Init => ResetKept /\ AbruptFollowsReset
  BY DEF Init, ResetKept, AbruptFollowsReset
<1>2. TypeOK /\ (ResetKept /\ AbruptFollowsReset) /\ [Next]_vars
        => (ResetKept /\ AbruptFollowsReset)'
  <2>1. UNCHANGED vars /\ ResetKept /\ AbruptFollowsReset
          => ResetKept' /\ AbruptFollowsReset'
    BY DEF vars, ResetKept, AbruptFollowsReset
  <2>2. QED BY <2>1, ResetWorker DEF Next
<1>3. QED BY TypeCorrect, <1>1, <1>2, PTL DEF Spec
=============================================================================
