-------------------------- MODULE ConnectionWorker --------------------------
(***************************************************************************)
(* ConnectionWorker::handleConnection run by the threads of the pool, with *)
(* the message handlers it calls (RegisterHandler, QueryHandler,           *)
(* HeartbeatHandler), over the shared NodeRegistry.                        *)
(*                                                                         *)
(* A worker serves one connection at a time: it is idle, configures the    *)
(* socket, receives a frame, handles it, sends the reply, and when the     *)
(* connection ends marks its active node OFFLINE and is idle again.  The   *)
(* registry is the only state two workers share, so the code between two   *)
(* registry calls or socket calls is one step.                             *)
(*                                                                         *)
(* A client may send any frame at any time.  Closing the descriptor and    *)
(* the count of connections are in ServerLifecycle.                        *)
(***************************************************************************)
EXTENDS NodeRegistry

CONSTANTS Workers,   \* the threads of the pool
          NoField,   \* a payload without a node_id string (or not JSON)
          Now        \* any instant system_clock::now() returns

ASSUME WorkerAssumption ==
  /\ Metas = Workers          \* each session registers its own metadata
  /\ NoField \notin NodeIds \cup {EmptyId}
  /\ Now \in Instants \ {Epoch}

VARIABLES
  m_entries,     \* NodeRegistry's map
  pc,            \* where each worker is
  activeNodeId,  \* the local of handleConnection
  reply,         \* the response the worker is about to send
  errno,         \* the thread's errno: ECONNRESET or any other value
  reason,        \* DisconnectReason
  \* History, read by no action:
  cause,         \* what really ended the session
  lastReset,     \* whose connection the thread's last failed system call was
                 \* on, if it failed with ECONNRESET: the session's own or an
                 \* earlier one's
  granted,       \* the ids each live session registered and nobody has
                 \* marked OFFLINE since
  overwritten    \* ONLINE ids that a session registered and then replaced
                 \* in its activeNodeId

vars == <<m_entries, pc, activeNodeId, reply, errno, reason, cause,
          lastReset, granted, overwritten>>

Ids == NodeIds \cup {EmptyId}

\* What readFrame hands over: the type, the node_id found in the payload and
\* whether the other required fields pass the handler's validation.
RegisterFrames == [id : Ids \cup {NoField}, valid : BOOLEAN]

Replies ==
  [kind : {"NONE", "LIST", "ERR_MALFORMED", "ERR_NOT_FOUND", "ERR_DUPLICATE"}]
    \cup [kind : {"REGISTERED"}, id : NodeIds]
    \cup [kind : {"NODE"}, id : NodeIds, entry : NodeEntry]

NoReply == [kind |-> "NONE"]

Reasons == {"NONE", "IDLE_TIMEOUT", "CLEAN_DISCONNECT", "ABRUPT_DISCONNECT",
            "RECV_ERROR", "SOCKET_CONFIG_ERROR"}

Causes == {"none", "peer closed", "timeout", "reset", "recv failed",
           "bad frame", "setsockopt failed"}

\* The one type invariant: every variable holds a value of its C++ type, and
\* m_entries has no entry for the empty node_id.
TypeOK ==
  /\ m_entries \in Registries
  /\ pc \in [Workers -> {"idle", "config", "recv", "reply", "offline"}]
  /\ activeNodeId \in [Workers -> Ids]
  /\ reply \in [Workers -> Replies]
  /\ errno \in [Workers -> {"ECONNRESET", "other"}]
  /\ reason \in [Workers -> Reasons]
  /\ cause \in [Workers -> Causes]
  /\ lastReset \in [Workers -> {"none", "own", "earlier"}]
  /\ granted \in [Workers -> SUBSET NodeIds]
  /\ overwritten \in SUBSET NodeIds

Init ==
  /\ m_entries = NoEntries
  /\ pc = [w \in Workers |-> "idle"]
  /\ activeNodeId = [w \in Workers |-> EmptyId]
  /\ reply = [w \in Workers |-> NoReply]
  /\ errno = [w \in Workers |-> "other"]
  /\ reason = [w \in Workers |-> "NONE"]
  /\ cause = [w \in Workers |-> "none"]
  /\ lastReset = [w \in Workers |-> "none"]
  /\ granted = [w \in Workers |-> {}]
  /\ overwritten = {}
-----------------------------------------------------------------------------
GoTo(w, from, to) == pc[w] = from /\ pc' = [pc EXCEPT ![w] = to]

\* Parsing a JSON number sets errno to 0; nothing else a handler does on its
\* success path touches it.
ErrnoKeptOrCleared(w) ==
  \/ UNCHANGED errno
  \/ errno' = [errno EXCEPT ![w] = "other"]

\* A system call of the thread fails and leaves its errno behind; err is
\* ECONNRESET or any other.
CallFails(w, err, whose) ==
  /\ errno' = [errno EXCEPT ![w] = err]
  /\ lastReset' = [lastReset EXCEPT
                    ![w] = IF err = "ECONNRESET" THEN whose ELSE "none"]

\* The welcome cannot be sent: workerLoop closes the connection, which never
\* becomes a session, and takes the next one.
WelcomeFails(w) ==
  /\ pc[w] = "idle"
  /\ \E err \in {"ECONNRESET", "other"} : CallFails(w, err, "earlier")
  /\ UNCHANGED <<m_entries, pc, activeNodeId, reply, reason, cause, granted,
                 overwritten>>

\* workerLoop passes a connection with an empty node id.
BeginSession(w) ==
  /\ GoTo(w, "idle", "config")
  /\ activeNodeId' = [activeNodeId EXCEPT ![w] = EmptyId]
  /\ UNCHANGED <<m_entries, reply, errno, reason, cause, lastReset, granted,
                 overwritten>>

\* Faulty variant: the active node is forgotten before the teardown.
EndSessionForgets(w, from, why, reported) ==
  /\ GoTo(w, from, "offline")
  /\ cause' = [cause EXCEPT ![w] = why]
  /\ reason' = [reason EXCEPT ![w] = reported]
  /\ activeNodeId' = [activeNodeId EXCEPT ![w] = EmptyId]
  /\ UNCHANGED <<m_entries, reply, granted, overwritten>>

\* Leaves the loop: what ended the session, and the reason the code reports.
EndSession(w, from, why, reported) ==
  /\ GoTo(w, from, "offline")
  /\ cause' = [cause EXCEPT ![w] = why]
  /\ reason' = [reason EXCEPT ![w] = reported]
  /\ UNCHANGED <<m_entries, activeNodeId, reply, granted, overwritten>>

applyReceiveTimeout(w) ==
  \/ /\ GoTo(w, "config", "recv")
     /\ UNCHANGED <<m_entries, activeNodeId, reply, errno, reason, cause,
                    lastReset, granted, overwritten>>
  \/ /\ EndSession(w, "config", "setsockopt failed", "SOCKET_CONFIG_ERROR")
     /\ CallFails(w, "other", "own")

\* The handler's registry call is done; the reply is still to be sent.
Respond(w, r) ==
  /\ GoTo(w, "recv", "reply")
  /\ reply' = [reply EXCEPT ![w] = r]
  /\ ErrnoKeptOrCleared(w)
  /\ UNCHANGED <<reason, cause, lastReset>>

\* Every other session loses its claim on an id once the id is OFFLINE.
\* (Used by the history variables only.)
Revoke(id) == [w \in Workers |-> granted[w] \ {id}]

\* REGISTER.  activeNodeId takes the node_id of the payload before the
\* handler validates and registers it, whatever the handler then answers.
HandleRegister(w, f) ==
  LET accepted == f.valid /\ f.id \in NodeIds
      ok == accepted /\ registerResult(m_entries, f.id) = "OK"
      entry == [status |-> "ONLINE", last_seen_at |-> Epoch, meta |-> w]
      newId == IF f.id = NoField THEN activeNodeId[w] ELSE f.id
  IN /\ activeNodeId' = [activeNodeId EXCEPT ![w] = newId]
     /\ m_entries' = IF accepted THEN registerNode(m_entries, f.id, entry)
                                 ELSE m_entries
     /\ Respond(w, IF ok THEN [kind |-> "REGISTERED", id |-> f.id]
                   ELSE IF accepted THEN [kind |-> "ERR_DUPLICATE"]
                   ELSE [kind |-> "ERR_MALFORMED"])
     /\ granted' = IF ok THEN [granted EXCEPT ![w] = @ \cup {f.id}] ELSE granted
     /\ overwritten' =
          (overwritten \cup
             {n \in NodeIds : n = activeNodeId[w] /\ n # newId})
            \ (IF ok THEN {f.id} ELSE {})

\* QUERY_NODE answers from one copy of the entry.
HandleQueryNode(w, id) ==
  /\ Respond(w, IF id = NoField THEN [kind |-> "ERR_MALFORMED"]
                ELSE IF contains(m_entries, id)
                     THEN [kind |-> "NODE", id |-> id, entry |-> m_entries[id]]
                     ELSE [kind |-> "ERR_NOT_FOUND"])
  /\ UNCHANGED <<m_entries, activeNodeId, granted, overwritten>>

HandleListNodes(w) ==
  /\ Respond(w, [kind |-> "LIST"])
  /\ UNCHANGED <<m_entries, activeNodeId, granted, overwritten>>

\* HEARTBEAT refreshes the active node and sends nothing back.
HandleHeartbeat(w) ==
  /\ pc[w] = "recv"
  /\ m_entries' = updateLastSeen(m_entries, activeNodeId[w], Now)
  /\ UNCHANGED <<pc, activeNodeId, reply, errno, reason, cause, lastReset,
                 granted, overwritten>>

\* The default branch of the switch.
HandleUnknownType(w) ==
  /\ Respond(w, [kind |-> "ERR_MALFORMED"])
  /\ UNCHANGED <<m_entries, activeNodeId, granted, overwritten>>

\* sendAll; its result is ignored, a failure only leaves its errno behind.
SendReply(w) ==
  /\ GoTo(w, "reply", "recv")
  /\ reply' = [reply EXCEPT ![w] = NoReply]
  /\ \/ UNCHANGED <<errno, lastReset>>
     \/ \E err \in {"ECONNRESET", "other"} : CallFails(w, err, "own")
  /\ UNCHANGED <<m_entries, activeNodeId, reason, cause, granted, overwritten>>

\* n is always -1 at the only call.
isAbruptDisconnect(err) == err = "ECONNRESET"

IoErrorReason(err) ==
  IF isAbruptDisconnect(err) THEN "ABRUPT_DISCONNECT" ELSE "RECV_ERROR"

\* Faulty variant: the end of the stream is taken for a failed recv.
ReceiveEndsEofError(w) ==
  /\ EndSession(w, "recv", "peer closed", IoErrorReason(errno[w]))
  /\ UNCHANGED <<errno, lastReset>>

\* readFrame did not return OK.  A frame with a bad length is an IO_ERROR
\* like a failed recv, but sets no errno.
ReceiveEnds(w) ==
  \/ /\ EndSession(w, "recv", "peer closed", "CLEAN_DISCONNECT")
     /\ UNCHANGED <<errno, lastReset>>
  \/ /\ EndSession(w, "recv", "timeout", "IDLE_TIMEOUT")
     /\ CallFails(w, "other", "own")
  \/ /\ EndSession(w, "recv", "reset", IoErrorReason("ECONNRESET"))
     /\ CallFails(w, "ECONNRESET", "own")
  \/ /\ EndSession(w, "recv", "recv failed", IoErrorReason("other"))
     /\ CallFails(w, "other", "own")
  \/ /\ EndSession(w, "recv", "bad frame", IoErrorReason(errno[w]))
     /\ UNCHANGED <<errno, lastReset>>

\* The registry's part of the teardown: setOffline of whatever id
\* activeNodeId holds by then.
markOfflineIfKnown(w) ==
  LET id == activeNodeId[w]
  IN /\ GoTo(w, "offline", "idle")
     /\ m_entries' = IF id # EmptyId THEN setOffline(m_entries, id, Now)
                                     ELSE m_entries
     /\ granted' = [Revoke(id) EXCEPT ![w] = {}]
     /\ overwritten' = overwritten \ {id}
     /\ reason' = [reason EXCEPT ![w] = "NONE"]
     /\ cause' = [cause EXCEPT ![w] = "none"]
     /\ lastReset' = [lastReset EXCEPT
                       ![w] = IF @ = "own" THEN "earlier" ELSE @]
     /\ activeNodeId' = [activeNodeId EXCEPT ![w] = EmptyId]
     /\ UNCHANGED <<reply, errno>>

Worker(w) ==
  \/ WelcomeFails(w)
  \/ BeginSession(w)
  \/ applyReceiveTimeout(w)
  \/ \E f \in RegisterFrames : HandleRegister(w, f)
  \/ \E id \in Ids \cup {NoField} : HandleQueryNode(w, id)
  \/ HandleListNodes(w)
  \/ HandleHeartbeat(w)
  \/ HandleUnknownType(w)
  \/ SendReply(w)
  \/ ReceiveEnds(w)
  \/ markOfflineIfKnown(w)

Next == \E w \in Workers : Worker(w)

Spec == Init /\ [][Next]_vars

-----------------------------------------------------------------------------
(***************************************************************************)
(* Properties                                                              *)
(***************************************************************************)
Live(w) == pc[w] # "idle"

\* Of the sessions that race to REGISTER one node_id at most one is told it
\* succeeded, until some session marks the node OFFLINE (registerNode's test
\* and insertion are one critical section).
SingleRegistrant ==
  \A n \in NodeIds : \A v, w \in Workers :
    n \in granted[v] /\ n \in granted[w] => v = w

\* Every ONLINE node is the active node of a live session, whose teardown
\* will mark it OFFLINE; the exception is a node whose session went on to
\* REGISTER another id, which activeNodeId no longer remembers.
OnlineNodeHasSession ==
  \A n \in NodeIds :
    isOnline(m_entries, n) /\ n \notin overwritten
      => \E w \in Workers : Live(w) /\ activeNodeId[w] = n

\* After the ACK of a REGISTER the node is visible to all threads: a session
\* that was told REGISTERED, or is about to be, finds its node in the map
\* with the metadata that it sent, as long as nobody marked it OFFLINE.
RegisteredNodeVisible ==
  \A w \in Workers :
    /\ reply[w].kind = "REGISTERED" => contains(m_entries, reply[w].id)
    /\ \A n \in granted[w] :
         isOnline(m_entries, n) /\ m_entries[n].meta = w

\* "ECONNRESET means the peer was killed (SIGKILL) or the connection was
\* forcibly reset": ABRUPT_DISCONNECT is reported only when the last system
\* call of the thread that failed, failed with ECONNRESET, and on the reported
\* connection.  One session can be blamed for another's reset: a frame of a bad
\* length ends it without a failed call, so that the errno read is the one an
\* earlier connection of the same thread left behind.  Any other failed call in
\* between, or any other end of the session, rules that out.
AbruptFollowsReset ==
  \A w \in Workers :
    reason[w] = "ABRUPT_DISCONNECT" =>
      \/ lastReset[w] = "own"
      \/ lastReset[w] = "earlier" /\ cause[w] = "bad frame"

\* Entries are never removed, and while a node stays ONLINE no REGISTER,
\* by any session, replaces its metadata (ERR_DUPLICATE leaves the entry).
OnlineEntryNotReplaced ==
  [][\A n \in DOMAIN m_entries :
       /\ n \in DOMAIN m_entries'
       /\ isOnline(m_entries, n) /\ isOnline(m_entries', n)
            => m_entries'[n].meta = m_entries[n].meta]_vars

\* A node turns OFFLINE only by the end of a session whose REGISTER of it
\* succeeded ("updated on successful REGISTER", connectionWorker.cpp).
OfflineOnlyByRegistrant ==
  [][\A n \in NodeIds :
       isOnline(m_entries, n) /\ isOffline(m_entries', n)
         => \E w \in Workers : n \in granted[w] /\ pc[w] # pc'[w]]_vars
=============================================================================
