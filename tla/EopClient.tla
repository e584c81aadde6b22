----------------------------- MODULE EopClient ------------------------------
(***************************************************************************)
(* The C client library (client/src/eop_client.c): one handle shared by    *)
(* the threads of an application, its mutex, and the TCP connection to a   *)
(* server that writes a welcome frame first and then one frame for every   *)
(* command except HEARTBEAT.                                               *)
(*                                                                         *)
(* The stream from the server is a sequence of parts: each frame is the    *)
(* length prefix, the header and the payload that eop_send_command reads   *)
(* in three loops.  A part may still be under way when poll() times out,   *)
(* so a time-out is possible at any read, and the rest of the frame stays  *)
(* in the stream.  A frame is named by the request it answers.             *)
(***************************************************************************)
EXTENDS Naturals, Sequences, FiniteSets

CONSTANTS Threads,    \* the threads that share the handle
          Nobody,     \* an unlocked mutex
          Welcome,    \* the name of the welcome frame
          NULL,       \* no response
          IdMod,      \* 2^32, the range of next_msg_id
          MaxCalls    \* bound on the calls of eop_send_command and reconnect

ASSUME ClientAssumption ==
  /\ Nobody \notin Threads
  /\ IdMod \in Nat \ {0}
  /\ MaxCalls \in Nat
  /\ Welcome \notin 0..(IdMod - 1)
  /\ NULL \notin 0..(IdMod - 1) \cup {Welcome}

MsgIds == 0..(IdMod - 1)
Errors == {"EOP_OK", "EOP_ERR_TIMEOUT", "EOP_ERR_DISCONNECTED",
           "EOP_ERR_CONNECT_FAILED", "EOP_ERR_ALLOC", "EOP_ERR_INVALID_MESSAGE_TYPE"}
Types == {"COMMAND", "HEARTBEAT", "UNKNOWN"}
Parts == {"prefix", "header", "payload"}

VARIABLES
  handle,       \* "none" before eop_connect and after eop_disconnect
  mutex,        \* the holder of client->mutex
  next_msg_id,
  last_error,   \* client->last_error
  socket_fd,    \* "none" (-1), "open", or "reset" (the server has closed it)
  outbound,     \* requests the server has not read
  inbound,      \* parts the client has not read
  greeted,      \* the server has sent the welcome on this connection
  tpc,          \* where each thread is
  call,         \* the running or last call of each thread
  result,       \* what it returned: NULL, or the frame's name
  seen,         \* what eop_last_error returned after it
  calls,        \* calls made so far
  \* History, read by no action:
  owed,         \* the reason of the thread's failed call, which eop_last_error
                \* is to return; "overwritten" once another thread's call has
                \* ended before the thread asked
  behind,       \* frames this connection will deliver that no call has taken
  desync        \* a call gave up in the middle of a frame

connVars == <<socket_fd, outbound, inbound, greeted, behind, desync>>
vars == <<handle, mutex, next_msg_id, last_error, connVars, tpc, call, result,
          seen, calls, owed>>

Requests == [type : Types, id : MsgIds]
Frames == MsgIds \cup {Welcome}
NoCall == [op |-> "none", type |-> "COMMAND", id |-> 0, lag |-> 0]

\* Types.
TypeOK ==
  /\ handle \in {"none", "live"}
  /\ mutex \in Threads \cup {Nobody}
  /\ next_msg_id \in MsgIds
  /\ last_error \in Errors
  /\ socket_fd \in {"none", "open", "reset"}
  /\ outbound \in Seq(Requests)
  /\ inbound \in Seq([part : Parts, of : Frames])
  /\ greeted \in BOOLEAN /\ desync \in BOOLEAN
  /\ tpc \in [Threads -> {"idle", "lock", "send", "prefix", "header", "payload",
                          "connect", "failed", "asked"}]
  /\ call \in [Threads -> [op : {"none", "command", "reconnect"}, type : Types,
                           id : MsgIds, lag : Nat]]
  /\ result \in [Threads -> Frames \cup {NULL}]
  /\ seen \in [Threads -> Errors]
  /\ owed \in [Threads -> Errors \cup {"overwritten"}]
  /\ calls \in 0..MaxCalls
  /\ behind \in Nat

Init ==
  /\ handle = "none" /\ mutex = Nobody /\ next_msg_id = 0
  /\ last_error = "EOP_OK"
  /\ socket_fd = "none" /\ outbound = <<>> /\ inbound = <<>> /\ greeted = FALSE
  /\ behind = 0 /\ desync = FALSE
  /\ tpc = [t \in Threads |-> "idle"]
  /\ call = [t \in Threads |-> NoCall]
  /\ result = [t \in Threads |-> NULL]
  /\ seen = [t \in Threads |-> "EOP_OK"]
  /\ owed = [t \in Threads |-> "EOP_OK"]
  /\ calls = 0
-----------------------------------------------------------------------------
\* A connect() that succeeds: nothing of an earlier connection is left.
NewConnection ==
  /\ socket_fd' = "open" /\ outbound' = <<>> /\ inbound' = <<>>
  /\ greeted' = FALSE /\ behind' = 1 /\ desync' = FALSE

NoConnection ==
  /\ socket_fd' = "none" /\ outbound' = <<>> /\ inbound' = <<>>
  /\ greeted' = FALSE /\ behind' = 0 /\ desync' = FALSE

\* eop_connect.  Every failure closes the socket, frees the handle and is
\* reported through a thread-local error, so it leaves this state alone.
eop_connect ==
  /\ handle = "none"
  /\ handle' = "live" /\ next_msg_id' = 0 /\ last_error' = "EOP_OK"
  /\ NewConnection
  /\ UNCHANGED <<mutex, tpc, call, result, seen, calls, owed>>

\* eop_disconnect; the caller must see to it that no thread uses the handle.
eop_disconnect ==
  /\ handle = "live" /\ \A t \in Threads : tpc[t] = "idle"
  /\ handle' = "none"
  /\ NoConnection
  /\ UNCHANGED <<mutex, next_msg_id, last_error, owed, tpc, call, result, seen, calls>>

\* A thread enters eop_send_command or eop_reconnect.
Call(t, op, type) ==
  /\ handle = "live" /\ tpc[t] = "idle" /\ calls < MaxCalls
  /\ calls' = calls + 1
  /\ tpc' = [tpc EXCEPT ![t] = "lock"]
  /\ call' = [call EXCEPT ![t] = [NoCall EXCEPT !.op = op, !.type = type]]
  /\ result' = [result EXCEPT ![t] = NULL]
  /\ UNCHANGED <<handle, mutex, next_msg_id, last_error, owed, connVars, seen>>

\* What is owed to whom once a call of t ends with error and has written
\* last_error.  (Used by the history variable only.)
Owes(t, error) ==
  [u \in Threads |-> IF u = t THEN error
                     ELSE IF tpc[u] = "failed" THEN "overwritten" ELSE owed[u]]

\* Faulty variant: the error is reported and not recorded.
FailSilently(t, error) ==
  /\ UNCHANGED last_error /\ owed' = Owes(t, error)
  /\ mutex' = Nobody
  /\ tpc' = [tpc EXCEPT ![t] = "failed"]
  /\ result' = [result EXCEPT ![t] = NULL]

\* Leaves with set_client_error, or with a response and last_error cleared.
Fail(t, error) ==
  /\ last_error' = error /\ owed' = Owes(t, error)
  /\ mutex' = Nobody
  /\ tpc' = [tpc EXCEPT ![t] = "failed"]
  /\ result' = [result EXCEPT ![t] = NULL]

Succeed(t, frame) ==
  /\ last_error' = "EOP_OK" /\ owed' = Owes(t, "EOP_OK")
  /\ mutex' = Nobody
  /\ tpc' = [tpc EXCEPT ![t] = "idle"]
  /\ result' = [result EXCEPT ![t] = frame]

\* Faulty variants: no wrap at 2^32; no mutex.
NextIdUnbounded(id) == id + 1
LockFreeAlways == TRUE

\* client->next_msg_id++ of a uint32_t.
NextId(id) == (id + 1) % IdMod

\* pthread_mutex_lock returns.
LockFree == mutex = Nobody

\* eop_send_command takes the mutex, its id and a buffer, and serializes.
LockForCommand(t) ==
  /\ tpc[t] = "lock" /\ call[t].op = "command" /\ LockFree
  /\ next_msg_id' = NextId(next_msg_id)
  /\ call' = [call EXCEPT ![t].id = next_msg_id, ![t].lag = behind]
  /\ \/ /\ call[t].type # "UNKNOWN"
        /\ mutex' = t /\ tpc' = [tpc EXCEPT ![t] = "send"]
        /\ UNCHANGED <<last_error, owed, result>>
     \/ call[t].type = "UNKNOWN" /\ Fail(t, "EOP_ERR_INVALID_MESSAGE_TYPE")
     \/ Fail(t, "EOP_ERR_ALLOC")
  /\ UNCHANGED <<handle, connVars, seen, calls>>

\* The send loop.  A connection the server has closed may still take bytes.
SendRequest(t) ==
  /\ tpc[t] = "send"
  /\ \/ /\ socket_fd = "open"
        /\ outbound' = Append(outbound, [type |-> call[t].type, id |-> call[t].id])
        /\ behind' = behind + (IF call[t].type = "HEARTBEAT" THEN 0 ELSE 1)
        /\ tpc' = [tpc EXCEPT ![t] = "prefix"]
        /\ UNCHANGED <<mutex, last_error, owed, result>>
     \/ /\ socket_fd = "reset"
        /\ tpc' = [tpc EXCEPT ![t] = "prefix"]
        /\ UNCHANGED <<outbound, behind, mutex, last_error, owed, result>>
     \/ /\ Fail(t, "EOP_ERR_DISCONNECTED")
        /\ UNCHANGED <<outbound, behind>>
  /\ UNCHANGED <<handle, next_msg_id, socket_fd, inbound, greeted, desync, call,
                 seen, calls>>

\* Where a call that gives up leaves the stream: between two frames only if it
\* has read nothing yet.
GivesUpMidFrame(t) ==
  \/ tpc[t] = "prefix" /\ desync' = desync
  \/ (tpc[t] # "prefix" \/ inbound # <<>>) /\ desync' = TRUE

\* Faulty variant: a recv() without a timeout.
ReceiveGivesUpAtEnd(t, error) ==
  /\ tpc[t] \in Parts /\ socket_fd = "reset"
  /\ Fail(t, error)
  /\ GivesUpMidFrame(t)
  /\ UNCHANGED <<handle, next_msg_id, socket_fd, outbound, inbound, greeted,
                 behind, call, seen, calls>>

\* poll() times out after EOP_COMMAND_TIMEOUT_MS; or it fails, or recv() does,
\* or recv() finds the end of the stream.  The connection is kept.
ReceiveGivesUp(t, error) ==
  /\ tpc[t] \in Parts
  /\ Fail(t, error)
  /\ GivesUpMidFrame(t)
  /\ UNCHANGED <<handle, next_msg_id, socket_fd, outbound, inbound, greeted,
                 behind, call, seen, calls>>

ReceivePart(t, part) ==
  /\ tpc[t] = part /\ ~desync
  /\ inbound # <<>> /\ Head(inbound).part = part
  /\ inbound' = Tail(inbound)
  /\ UNCHANGED <<handle, next_msg_id, socket_fd, outbound, greeted, call, seen,
                 calls>>

ReceivePrefix(t) ==
  /\ ReceivePart(t, "prefix")
  /\ tpc' = [tpc EXCEPT ![t] = "header"]
  /\ UNCHANGED <<mutex, last_error, owed, result, behind, desync>>

\* Faulty variant: the call returns and leaves the payload in the stream.
ReceiveHeaderOnly(t) ==
  /\ ReceivePart(t, "header")
  /\ Succeed(t, Head(inbound).of)
  /\ behind' = behind - 1
  /\ UNCHANGED desync

\* The header says how long the payload is; its buffer may not be available.
ReceiveHeader(t) ==
  /\ ReceivePart(t, "header")
  /\ \/ /\ tpc' = [tpc EXCEPT ![t] = "payload"]
        /\ UNCHANGED <<mutex, last_error, owed, result, desync>>
     \/ Fail(t, "EOP_ERR_ALLOC") /\ desync' = TRUE
  /\ UNCHANGED behind

\* The whole frame is there.  Its id is returned and compared with nothing.
ReceivePayload(t) ==
  /\ ReceivePart(t, "payload")
  /\ \/ Succeed(t, Head(inbound).of)
     \/ Fail(t, "EOP_ERR_ALLOC")
  /\ behind' = behind - 1
  /\ UNCHANGED desync

\* A call on a stream that a former one left inside a frame takes whatever
\* bytes are there for a prefix, a header and a payload.
ReceiveGarbage(t) ==
  /\ tpc[t] = "prefix" /\ desync /\ inbound # <<>>
  /\ \E k \in 1..Len(inbound) : inbound' = SubSeq(inbound, k + 1, Len(inbound))
  /\ \/ \E frame \in Frames : Succeed(t, frame)
     \/ Fail(t, "EOP_ERR_DISCONNECTED")     \* not EOP_PROTOCOL_VERSION
     \/ Fail(t, "EOP_ERR_ALLOC")
  /\ UNCHANGED <<handle, next_msg_id, socket_fd, outbound, greeted, behind,
                 desync, call, seen, calls>>

\* eop_reconnect: the old socket is closed, then connect() and poll() run,
\* all of it under the mutex.
LockForReconnect(t) ==
  /\ tpc[t] = "lock" /\ call[t].op = "reconnect" /\ LockFree
  /\ mutex' = t
  /\ tpc' = [tpc EXCEPT ![t] = "connect"]
  /\ NoConnection
  /\ UNCHANGED <<handle, next_msg_id, last_error, owed, call, result, seen, calls>>

Reconnected(t) ==
  /\ tpc[t] = "connect"
  /\ \/ NewConnection /\ Succeed(t, NULL)
     \/ /\ Fail(t, "EOP_ERR_CONNECT_FAILED") \/ Fail(t, "EOP_ERR_TIMEOUT")
        /\ UNCHANGED connVars
  /\ UNCHANGED <<handle, next_msg_id, call, seen, calls>>

\* A thread whose call failed asks for the reason.
eop_last_error(t) ==
  /\ tpc[t] = "failed" /\ LockFree
  /\ seen' = [seen EXCEPT ![t] = last_error]
  /\ tpc' = [tpc EXCEPT ![t] = "asked"]
  /\ UNCHANGED <<handle, mutex, next_msg_id, last_error, owed, connVars, call, result,
                 calls>>

\* What it was told is used and forgotten.
GoesOn(t) ==
  /\ tpc[t] = "asked"
  /\ tpc' = [tpc EXCEPT ![t] = "idle"]
  /\ seen' = [seen EXCEPT ![t] = "EOP_OK"]
  /\ owed' = [owed EXCEPT ![t] = "EOP_OK"]
  /\ UNCHANGED <<handle, mutex, next_msg_id, last_error, connVars, call, result,
                 calls>>
-----------------------------------------------------------------------------
(***************************************************************************)
(* The server's end of the connection                                      *)
(***************************************************************************)
FrameOf(name) == <<[part |-> "prefix", of |-> name], [part |-> "header", of |-> name],
                   [part |-> "payload", of |-> name]>>

ServerUnchanged == UNCHANGED <<handle, mutex, next_msg_id, last_error, owed, behind,
                               desync, tpc, call, result, seen, calls>>

\* ThreadPool::workerLoop sends the welcome before it reads.
ServerGreets ==
  /\ socket_fd = "open" /\ ~greeted
  /\ greeted' = TRUE
  /\ inbound' = inbound \o FrameOf(Welcome)
  /\ ServerUnchanged /\ UNCHANGED <<socket_fd, outbound>>

\* handleConnection answers in order, with the id of the request, and does
\* not answer a HEARTBEAT.
ServerAnswers ==
  /\ socket_fd = "open" /\ greeted /\ outbound # <<>>
  /\ outbound' = Tail(outbound)
  /\ inbound' = IF Head(outbound).type = "HEARTBEAT" THEN inbound
                ELSE inbound \o FrameOf(Head(outbound).id)
  /\ ServerUnchanged /\ UNCHANGED <<socket_fd, greeted>>

\* Idle timeout, shutdown or crash.
ServerCloses ==
  /\ socket_fd = "open"
  /\ socket_fd' = "reset"
  /\ outbound' = <<>>
  /\ ServerUnchanged /\ UNCHANGED <<inbound, greeted>>
-----------------------------------------------------------------------------
\* The steps of a thread that waits for an answer or for a connection.
Proceed(t) ==
  \/ ReceivePrefix(t) \/ ReceiveHeader(t) \/ ReceivePayload(t)
  \/ ReceiveGarbage(t)
  \/ \E error \in {"EOP_ERR_TIMEOUT", "EOP_ERR_DISCONNECTED"} : ReceiveGivesUp(t, error)
  \/ Reconnected(t)

Next ==
  \/ eop_connect \/ eop_disconnect
  \/ \E t \in Threads :
       \/ \E type \in Types : Call(t, "command", type)
       \/ Call(t, "reconnect", "COMMAND")
       \/ LockForCommand(t) \/ LockForReconnect(t)
       \/ SendRequest(t) \/ Proceed(t)
       \/ eop_last_error(t) \/ GoesOn(t)
  \/ ServerGreets \/ ServerAnswers \/ ServerCloses

Spec == Init /\ [][Next]_vars

\* A thread that waits goes on: every poll() has a timeout.  Nothing is assumed
\* of send(), which has none.
FairSpec == Spec /\ \A t \in Threads : WF_vars(Proceed(t))
-----------------------------------------------------------------------------
\* A command sent when nothing is outstanding (the welcome has been taken, and
\* no earlier call gave up) returns the answer to this very command, however
\* the calls of the threads interleave and whatever they do afterwards.
AnsweredInStep ==
  \A t \in Threads :
    (/\ tpc[t] = "idle" /\ call[t].op = "command" /\ call[t].type = "COMMAND"
     /\ call[t].lag = 0 /\ result[t] # NULL)
      => result[t] = call[t].id

\* What the client has still to read is exactly what is behind: the frames in
\* the stream, the one half read, those the server will send for the requests
\* under way and the welcome.  No frame is skipped or returned twice.
StreamAccounted ==
  socket_fd = "open" /\ ~desync =>
    behind = Cardinality({i \in DOMAIN inbound : inbound[i].part = "payload"})
             + Cardinality({i \in DOMAIN outbound : outbound[i].type # "HEARTBEAT"})
             + (IF greeted THEN 0 ELSE 1)

\* Once its request is sent the holder of the mutex gives it back, whatever
\* the server does: so a thread that calls eop_reconnect while another one
\* waits for an answer inside eop_send_command does not deadlock.
MutexReleased ==
  \A t \in Threads : (mutex = t /\ tpc[t] # "send") ~> mutex # t

\* "On failure, call eop_last_error() to retrieve the reason": every failing
\* path of every call leaves its own reason in the handle before it unlocks, so
\* that eop_last_error tells a thread exactly why its call failed, unless a call
\* of another thread on the same handle ended between the failure and the
\* question.  What other threads did before the failure makes no difference.
ReasonLostOnlyToOthers ==
  \A t \in Threads : tpc[t] = "asked" => owed[t] \in {seen[t], "overwritten"}
=============================================================================
