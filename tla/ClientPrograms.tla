--------------------------- MODULE ClientPrograms ---------------------------
(***************************************************************************)
(* The programs built on the C client library, run against the server:     *)
(* examples/connect_basic.c, examples/eop_demo.c and the reconnection      *)
(* probe tests/integration/eop_reconnect_probe.c (the pattern of ADR-015). *)
(*                                                                         *)
(* EopClient shows what one call of the library does with the bytes of a   *)
(* connection, ServerLifecycle and ConnectionWorker what the server does   *)
(* with its threads and its registry.  Here the two sides are composed at  *)
(* the level of whole frames: a call is a send and a return, a session is  *)
(* the welcome frame, then one step for each request, then the teardown.   *)
(* A session's registry call and the answer it sends are one step, because *)
(* an answer under way is seen by its own client only.                     *)
(*                                                                         *)
(* The server may crash and restart (a deleted pod), which empties the     *)
(* registry; a client whose connection broke leaves its old session to the *)
(* server, which may notice late.                                          *)
(***************************************************************************)
EXTENDS NodeRegistry, Naturals, Sequences, FiniteSets

CONSTANTS Clients,      \* the client processes
          Assignments,  \* which program each of them may run
          NodeOf,       \* the node_id each of them registers
          MenuRequests, \* what the user of a demo may choose
          PoolSize,     \* worker threads
          MaxClients,   \* m_maxClients
          MaxAttempts,  \* MAX_RECONNECT_ATTEMPTS
          MaxCommands,  \* bounds the menu choices of a demo, and the
                        \* heartbeats before a probe gives up waiting
          MaxRestarts   \* crashes of the server

Programs == {"connect_basic", "eop_demo", "probe"}

Commands == {"HEARTBEAT", "REGISTER", "QUERY_NODE", "LIST_NODES"}

\* HEARTBEAT and LIST_NODES have no payload.
Requests ==
  [type : {"REGISTER", "QUERY_NODE"}, id : NodeIds]
    \cup [type : {"HEARTBEAT", "LIST_NODES"}, id : {EmptyId}]

ASSUME ProgramsAssumption ==
  /\ Assignments \subseteq [Clients -> Programs]
  /\ MenuRequests \subseteq Requests
  /\ NodeOf \in [Clients -> NodeIds]
  /\ Metas = Clients
  /\ {PoolSize, MaxClients} \subseteq Nat \ {0}
  /\ {MaxAttempts, MaxCommands, MaxRestarts} \subseteq Nat

VARIABLES
  program,    \* the program of each client
  pc,         \* where each program is
  asked,      \* the command of the call under way, "none" outside a call
  attempt,    \* reconnect attempts made; also numbers the connections
  left,       \* menu choices or heartbeats still to come
  code,       \* how the process ended
  conn,       \* the connections, by client and attempt
  backlog,    \* connections the acceptor has not taken yet
  queue,      \* WorkQueue
  running,    \* the server process is up
  restarts,
  m_entries,
  \* History, read by no action:
  shown,      \* the last command a program had a frame for, and what that
              \* frame was the answer to
  late,       \* a call that has an answer timed out on this connection
  decision,   \* what the server decided on the last REGISTER of each client
  displaced   \* ids a session registered before it sent another id

progVars == <<program, pc, asked, attempt, left, code, shown, late>>
serverVars == <<backlog, queue, running, restarts, m_entries, decision,
                displaced>>
vars == <<progVars, serverVars, conn>>

Conns == Clients \X (0..MaxAttempts)

\* A frame of the server: its type, and what it answers.
Frames == [type : {"ACK", "ERROR"},
           of : Commands \cup {"welcome", "capacity"}]
Welcome == [type |-> "ACK", of |-> "welcome"]
AtCapacity == [type |-> "ERROR", of |-> "capacity"]
NoFrame == [type |-> "none", of |-> "none"]
Nothing == [cmd |-> "none", of |-> "none"]

\* The client's socket.  "fin": the server closed it; "reset": the peer
\* reset an open connection; "broken": reset after that, a send raises
\* SIGPIPE; "closed": by the client.
Links == {"none", "open", "fin", "reset", "broken", "closed"}

\* The server's side: not accepted yet, in the queue, with a worker, in the
\* teardown, closed.
Phases == {"none", "backlog", "queued", "serving", "ending", "done"}

Connections == [link : Links, srv : Phases, up : Seq(Requests), down : Seq(Frames),
                active : NodeIds \cup {EmptyId}]
NoConn == [link |-> "none", srv |-> "none", up |-> <<>>, down |-> <<>>,
           active |-> EmptyId]

\* The one type invariant: every variable holds a value of its type, and no
\* stream holds more frames than the program can have caused.
TypeOK ==
  /\ program \in [Clients -> Programs]
  /\ pc \in [Clients -> {"start", "drain", "register", "query", "heartbeat",
                         "menu", "retry", "exit"}]
  /\ asked \in [Clients -> Commands \cup {"none"}]
  /\ attempt \in [Clients -> 0..MaxAttempts]
  /\ left \in [Clients -> 0..MaxCommands]
  /\ code \in [Clients -> {"running", "success", "failure", "SIGPIPE"}]
  /\ conn \in [Conns -> Connections]
  /\ \A k \in Conns : /\ Len(conn[k].up) <= MaxCommands + 1
                      /\ Len(conn[k].down) <= MaxCommands + 1
  /\ backlog \in Seq(Conns)
  /\ queue \in Seq(Conns)
  /\ running \in BOOLEAN
  /\ restarts \in 0..MaxRestarts
  /\ m_entries \in Registries
  /\ shown \in [Clients -> [cmd : Commands \cup {"none"},
                         of : Commands \cup {"none", "welcome", "capacity"}]]
  /\ late \in [Clients -> BOOLEAN]
  /\ decision \in [Clients -> {"none", "OK", "ERR_DUPLICATE"}]
  /\ displaced \subseteq NodeIds

Init ==
  /\ program \in Assignments
  /\ pc = [c \in Clients |-> "start"]
  /\ asked = [c \in Clients |-> "none"]
  /\ attempt = [c \in Clients |-> 0]
  /\ left \in [Clients -> 1..MaxCommands]
  /\ \A c \in Clients : program[c] # "probe" => left[c] = MaxCommands
  /\ code = [c \in Clients |-> "running"]
  /\ conn = [k \in Conns |-> NoConn]
  /\ backlog = <<>>
  /\ queue = <<>>
  /\ running = TRUE
  /\ restarts = 0
  /\ m_entries = NoEntries
  /\ shown = [c \in Clients |-> Nothing]
  /\ late = [c \in Clients |-> FALSE]
  /\ decision = [c \in Clients |-> "none"]
  /\ displaced = {}
-----------------------------------------------------------------------------
(***************************************************************************)
(* The library, one call at a time                                         *)
(***************************************************************************)
Cur(c) == <<c, attempt[c]>>

Set(f, c, v) == [f EXCEPT ![c] = v]

\* A new connection, to a listening server or (a port forward) to something
\* that accepts for a server that is not there and hangs up.
NewConn ==
  [NoConn EXCEPT !.link = IF running THEN "open" ELSE "fin",
                 !.srv = IF running THEN "backlog" ELSE "done"]

\* eop_disconnect, or the kernel at the end of the process: what the server
\* sent and nobody read is lost.
CloseLink(r) ==
  IF r.link = "none" THEN r ELSE [r EXCEPT !.link = "closed", !.down = <<>>]

Exit(c, how) ==
  /\ pc' = Set(pc, c, "exit")
  /\ code' = Set(code, c, how)
  /\ conn' = [conn EXCEPT ![Cur(c)] = CloseLink(@)]

\* send() of a whole frame.  Data for a closed peer is answered by a reset;
\* the next send() on that socket raises SIGPIPE, since neither the library
\* (flags 0) nor the programs ignore it.
Send(c, cmd, id) ==
  LET k == Cur(c)
      r == conn[k]
      req == [type |-> cmd, id |-> id]
  IN /\ asked[c] = "none"
     /\ shown' = Set(shown, c, Nothing)
     /\ \/ /\ r.link = "open"
           /\ asked' = Set(asked, c, cmd)
           /\ conn' = [conn EXCEPT ![k].up =
                         IF r.srv = "done" THEN @ ELSE Append(@, req)]
           /\ UNCHANGED <<pc, code>>
        \/ /\ r.link = "fin"
           /\ asked' = Set(asked, c, cmd)
           /\ \E l \in {"fin", "broken"} : conn' = [conn EXCEPT ![k].link = l]
           /\ UNCHANGED <<pc, code>>
        \/ /\ r.link = "reset"
           /\ asked' = Set(asked, c, cmd)
           /\ conn' = [conn EXCEPT ![k].link = "broken", ![k].down = <<>>]
           /\ UNCHANGED <<pc, code>>
        \/ r.link = "broken" /\ Exit(c, "SIGPIPE") /\ UNCHANGED asked
     /\ UNCHANGED <<program, attempt, late, serverVars>>

\* Faulty variant: no timeout, the call waits for the server.
ReturnsNoTimeout(c, result, frame) ==
  LET r == conn[Cur(c)]
  IN \/ result = "OK" /\ r.down # <<>> /\ frame = Head(r.down)
     \/ result = "DISCONNECTED" /\ r.down = <<>> /\ r.link # "open"
          /\ frame = NoFrame

\* What the call returns: the next frame, TIMEOUT after a silence of
\* EOP_COMMAND_TIMEOUT_MS, or DISCONNECTED once nothing more can come.
Returns(c, result, frame) ==
  LET r == conn[Cur(c)]
  IN \/ result = "OK" /\ r.down # <<>> /\ frame = Head(r.down)
     \/ result = "TIMEOUT" /\ r.down = <<>> /\ r.link = "open" /\ frame = NoFrame
     \/ result = "DISCONNECTED" /\ r.down = <<>> /\ r.link # "open"
          /\ frame = NoFrame

\* The connection after the call.
Taken(r) ==
  [r EXCEPT !.down = IF @ = <<>> THEN @ ELSE Tail(@),
            !.link = IF @ = "reset" /\ r.down = <<>> THEN "broken" ELSE @]

\* The call is over; the program goes on to a place of its own or exits.
ReturnTo(c, result, frame, to) ==
  LET rest == Taken(conn[Cur(c)])
      exits == to \in {"success", "failure"}
  IN /\ asked' = Set(asked, c, "none")
     /\ shown' = IF frame = NoFrame THEN shown
                 ELSE Set(shown, c, [cmd |-> asked[c], of |-> frame.of])
     /\ late' = Set(late, c, late[c] \/ /\ result = "TIMEOUT"
                                        /\ \/ asked[c] # "HEARTBEAT"
                                           \/ pc[c] = "drain")
     /\ pc' = Set(pc, c, IF exits THEN "exit" ELSE to)
     /\ code' = Set(code, c, IF exits THEN to ELSE code[c])
     /\ conn' = [conn EXCEPT ![Cur(c)] = IF exits THEN CloseLink(rest) ELSE rest]
     /\ UNCHANGED <<program, attempt, left, serverVars>>

\* What the programs take for success: any answer, or an ACK.
Answered == Frames
Acked == {f \in Frames : f.type = "ACK"}

\* The program waits for its call and goes one way or the other.
Return(c, good, yes, no) ==
  /\ asked[c] # "none"
  /\ \E result \in {"OK", "TIMEOUT", "DISCONNECTED"}, f \in Frames \cup {NoFrame} :
       /\ Returns(c, result, f)
       /\ ReturnTo(c, result, f, IF f \in good THEN yes ELSE no)

\* eop_send_command
Call(c, cmd, id, good, yes, no) ==
  \/ Send(c, cmd, id) /\ UNCHANGED left
  \/ Return(c, good, yes, no)

\* eop_connect; without a handle the programs exit at once.
Connect(c, to) ==
  /\ pc[c] = "start"
  /\ \/ /\ pc' = Set(pc, c, to)
        /\ conn' = [conn EXCEPT ![Cur(c)] = NewConn]
        /\ backlog' = IF running THEN Append(backlog, Cur(c)) ELSE backlog
        /\ UNCHANGED code
     \/ Exit(c, "failure") /\ UNCHANGED backlog
  /\ UNCHANGED <<program, asked, attempt, left, shown, late, queue, running,
                 restarts, m_entries, decision, displaced>>

\* Faulty variant: the bound is tested one attempt late.
MayRetryLate(c) == attempt[c] <= MaxAttempts

\* The condition of the probe's retry loop.
MayRetry(c) == attempt[c] < MaxAttempts

\* eop_reconnect: the old socket is closed first, whatever comes of the new.
Reconnect(c) ==
  LET k == <<c, attempt[c] + 1>>
      closed == [conn EXCEPT ![Cur(c)] = CloseLink(@)]
  IN /\ MayRetry(c)
     /\ attempt' = Set(attempt, c, attempt[c] + 1)
     /\ decision' = Set(decision, c, "none")
     /\ \/ /\ pc' = Set(pc, c, "register")
           /\ conn' = [closed EXCEPT ![k] = NewConn]
           /\ backlog' = IF running THEN Append(backlog, k) ELSE backlog
        \/ conn' = closed /\ UNCHANGED <<pc, backlog>>
     /\ UNCHANGED <<program, asked, left, code, shown, late, queue, running,
                    restarts, m_entries, displaced>>
-----------------------------------------------------------------------------
(***************************************************************************)
(* The programs                                                            *)
(***************************************************************************)
\* Faulty variants: the type of the answer to REGISTER is not looked at; the
\* welcome frame is not drained.
connect_basicUnchecked(c) ==
  \/ Connect(c, "drain")
  \/ pc[c] = "drain" /\ Call(c, "HEARTBEAT", EmptyId, Answered, "register", "failure")
  \/ pc[c] = "register" /\ Call(c, "REGISTER", NodeOf[c], Answered, "query", "failure")
  \/ pc[c] = "query" /\ Call(c, "QUERY_NODE", NodeOf[c], Acked, "success", "failure")

connect_basicUndrained(c) ==
  \/ Connect(c, "register")
  \/ pc[c] = "register" /\ Call(c, "REGISTER", NodeOf[c], Acked, "query", "failure")
  \/ pc[c] = "query" /\ Call(c, "QUERY_NODE", NodeOf[c], Acked, "success", "failure")

\* connect_basic.c: a failed step disconnects and exits.
connect_basic(c) ==
  \/ Connect(c, "drain")
  \/ pc[c] = "drain" /\ Call(c, "HEARTBEAT", EmptyId, Answered, "register", "failure")
  \/ pc[c] = "register" /\ Call(c, "REGISTER", NodeOf[c], Acked, "query", "failure")
  \/ pc[c] = "query" /\ Call(c, "QUERY_NODE", NodeOf[c], Acked, "success", "failure")

\* cmd_register, cmd_query_node, cmd_list_nodes, cmd_heartbeat: whatever the
\* call returns is shown, and the menu comes back.
DemoCommand(c) ==
  \/ /\ left[c] > 0
     /\ left' = Set(left, c, left[c] - 1)
     /\ \E req \in MenuRequests : Send(c, req.type, req.id)
  \/ Return(c, Answered, "menu", "menu")

\* eop_disconnect, and the return from main.
Leave(c, how) ==
  /\ asked[c] = "none"
  /\ Exit(c, how)
  /\ UNCHANGED <<program, asked, attempt, left, shown, late, serverVars>>

\* eop_demo.c: the result of the drain is ignored.
eop_demo(c) ==
  \/ Connect(c, "drain")
  \/ pc[c] = "drain" /\ Call(c, "HEARTBEAT", EmptyId, Answered, "menu", "menu")
  \/ pc[c] = "menu" /\ (DemoCommand(c) \/ Leave(c, "success"))

do_register(c, yes, no) == Call(c, "REGISTER", NodeOf[c], Acked, yes, no)

\* eop_reconnect_probe.c.  A heartbeat that is not answered, TIMEOUT
\* included, is taken for a disconnection.
probe(c) ==
  \/ Connect(c, "register")
  \/ /\ pc[c] = "register"
     /\ \/ attempt[c] = 0 /\ do_register(c, "heartbeat", "failure")
        \/ attempt[c] > 0 /\ do_register(c, "success", "retry")
  \/ /\ pc[c] = "heartbeat"
     /\ \/ /\ left[c] > 0
           /\ left' = Set(left, c, left[c] - 1)
           /\ Send(c, "HEARTBEAT", EmptyId)
        \/ Return(c, Answered, "heartbeat", "retry")
        \/ left[c] = 0 /\ Leave(c, "failure")
  \/ pc[c] = "retry" /\ Reconnect(c)
  \/ pc[c] = "retry" /\ ~MayRetry(c) /\ Leave(c, "failure")

Client(c) ==
  \/ program[c] = "connect_basic" /\ connect_basic(c)
  \/ program[c] = "eop_demo" /\ eop_demo(c)
  \/ program[c] = "probe" /\ probe(c)
-----------------------------------------------------------------------------
(***************************************************************************)
(* The server                                                              *)
(***************************************************************************)
Put(r, frame) == IF r.link = "open" THEN [r EXCEPT !.down = Append(@, frame)] ELSE r

\* close(): a reset when the client sent something nobody read.
Hangup(r) ==
  [r EXCEPT !.srv = "done", !.up = <<>>, !.active = EmptyId,
            !.link = IF @ # "open" THEN @
                     ELSE IF r.up = <<>> THEN "fin" ELSE "reset"]

In(phases) == {k \in Conns : conn[k].srv \in phases}

\* acceptLoop: m_activeConnections counts a connection until it is closed.
Accept ==
  LET k == Head(backlog)
      full == Cardinality(In({"queued", "serving", "ending"})) >= MaxClients
  IN /\ backlog # <<>>
     /\ backlog' = Tail(backlog)
     /\ conn' = [conn EXCEPT ![k] = IF full THEN Hangup(Put(@, AtCapacity))
                                            ELSE [@ EXCEPT !.srv = "queued"]]
     /\ queue' = IF full THEN queue ELSE Append(queue, k)
     /\ UNCHANGED <<progVars, running, restarts, m_entries, decision, displaced>>

\* workerLoop takes a connection and welcomes it; when the client is gone
\* sendAll may fail, and the connection is closed.
SendWelcome ==
  LET k == Head(queue)
  IN /\ queue # <<>>
     /\ Cardinality(In({"serving", "ending"})) < PoolSize
     /\ queue' = Tail(queue)
     /\ \/ conn' = [conn EXCEPT ![k] = [Put(@, Welcome) EXCEPT !.srv = "serving"]]
        \/ conn[k].link = "closed" /\ conn' = [conn EXCEPT ![k] = Hangup(@)]
     /\ UNCHANGED <<progVars, backlog, running, restarts, m_entries, decision,
                    displaced>>

\* One turn of handleConnection's loop: the request, its handler, the answer
\* (HEARTBEAT has none).
HandleFrame(k) ==
  LET r == conn[k]
      req == Head(r.up)
      rest == [r EXCEPT !.up = Tail(@)]
      answer(good) == [type |-> IF good THEN "ACK" ELSE "ERROR", of |-> req.type]
      result == registerResult(m_entries, req.id)
      entry == [status |-> "ONLINE", last_seen_at |-> Epoch, meta |-> k[1]]
  IN /\ r.srv = "serving" /\ r.up # <<>>
     /\ \/ /\ req.type = "REGISTER"
           /\ m_entries' = registerNode(m_entries, req.id, entry)
           /\ conn' = [conn EXCEPT ![k] =
                [Put(rest, answer(result = "OK")) EXCEPT !.active = req.id]]
           /\ decision' = IF k = Cur(k[1]) THEN Set(decision, k[1], result)
                                           ELSE decision
           /\ displaced' =
                (displaced \cup {n \in NodeIds : n = r.active /\ n # req.id})
                  \ (IF result = "OK" THEN {req.id} ELSE {})
        \/ /\ req.type = "QUERY_NODE"
           /\ conn' = [conn EXCEPT ![k] = Put(rest, answer(contains(m_entries, req.id)))]
           /\ UNCHANGED <<m_entries, decision, displaced>>
        \/ /\ req.type = "LIST_NODES"
           /\ conn' = [conn EXCEPT ![k] = Put(rest, answer(TRUE))]
           /\ UNCHANGED <<m_entries, decision, displaced>>
        \/ /\ req.type = "HEARTBEAT"
           /\ m_entries' = updateLastSeen(m_entries, r.active, Epoch)
           /\ conn' = [conn EXCEPT ![k] = rest]
           /\ UNCHANGED <<decision, displaced>>
     /\ UNCHANGED <<progVars, backlog, queue, running, restarts>>

\* Faulty variant: the node is marked OFFLINE only after an idle timeout.
EndSessionSilently(k) ==
  /\ conn[k].srv = "serving"
  /\ conn[k].link = "closed"
  /\ conn' = [conn EXCEPT ![k].srv = "ending"]
  /\ UNCHANGED <<progVars, serverVars>>

\* The client closed (a reset may overtake requests still unread), or sat at
\* the menu for the whole idle timeout.
EndSession(k) ==
  /\ conn[k].srv = "serving"
  /\ \/ conn[k].link = "closed"
     \/ conn[k].link = "open" /\ conn[k].up = <<>>
          /\ pc[k[1]] = "menu" /\ asked[k[1]] = "none"
  /\ conn' = [conn EXCEPT ![k].srv = "ending"]
  /\ m_entries' = setOffline(m_entries, conn[k].active, Epoch)
  /\ displaced' = displaced \ {conn[k].active}
  /\ UNCHANGED <<progVars, backlog, queue, running, restarts, decision>>

\* ~Socket and fetch_sub
CloseSession(k) ==
  /\ conn[k].srv = "ending"
  /\ conn' = [conn EXCEPT ![k] = Hangup(@)]
  /\ UNCHANGED <<progVars, serverVars>>

Session(k) == HandleFrame(k) \/ EndSession(k) \/ CloseSession(k)

\* The process dies with its sockets and its registry.  What was under way
\* to a client may still arrive or be lost with a reset.
Crash ==
  /\ running /\ restarts < MaxRestarts
  /\ running' = FALSE
  /\ restarts' = restarts + 1
  /\ m_entries' = NoEntries
  /\ backlog' = <<>> /\ queue' = <<>> /\ displaced' = {}
  /\ \E lost \in SUBSET {k \in In(Phases \ {"none", "done"}) : conn[k].link = "open"} :
       conn' = [k \in Conns |->
         IF k \in lost THEN [Hangup(conn[k]) EXCEPT !.link = "reset", !.down = <<>>]
         ELSE IF conn[k].srv = "none" THEN conn[k] ELSE Hangup(conn[k])]
  /\ UNCHANGED <<progVars, decision>>

\* Kubernetes starts it again.
Restart ==
  /\ ~running
  /\ running' = TRUE
  /\ UNCHANGED <<progVars, conn, backlog, queue, restarts, m_entries, decision,
                 displaced>>

Progress ==
  \/ \E c \in Clients : Client(c)
  \/ \E k \in Conns : Session(k)
  \/ Accept \/ SendWelcome \/ Restart

Next == Progress \/ Crash

Spec == Init /\ [][Next]_vars

\* As long as some process or thread can go on, one of them eventually does: a
\* call returns at the latest by its timeout, a worker reads what its socket
\* holds, the pod is restarted.  Every loop being bounded no thread has to be
\* favoured, and nothing is assumed of crashes.
FairSpec == Spec /\ WF_vars(Progress)
-----------------------------------------------------------------------------
(***************************************************************************)
(* Properties                                                              *)
(***************************************************************************)
\* The programs that drain the welcome frame stay in step: what they show as
\* the result of a command is the server's answer to that command, unless
\* the drain or an earlier command timed out (connect_basic exits then).
\* Only the drain is given a frame that answers no command: the welcome, or
\* the ERROR sent instead of it to a connection above m_maxClients.
InStep ==
  \A c \in Clients :
    program[c] # "probe" /\ ~late[c] =>
      \/ shown[c].cmd = shown[c].of
      \/ shown[c].cmd = "HEARTBEAT" /\ shown[c].of \in {"welcome", "capacity"}

\* connect_basic exits with EXIT_SUCCESS only when the server registered its
\* node on this connection, whatever crashed, was refused or arrived late.
SuccessMeansRegistered ==
  \A c \in Clients :
    program[c] = "connect_basic" /\ code[c] = "success" => decision[c] = "OK"

\* The probe prints RECONNECTED and exits 0 only if the server did not
\* refuse the REGISTER it sent after reconnecting.
ReconnectedMeansRegistered ==
  \A c \in Clients :
    program[c] = "probe" /\ code[c] = "success"
      => decision[c] # "ERR_DUPLICATE"

\* No program hangs: every call of the library returns, and every retry loop
\* ends, while the server crashes, rejects, or leaves the call in its queue.
AllExit == <>(\A c \in Clients : pc[c] = "exit")

\* In the end the server is as it was: every session has been torn down, its
\* slot released, and no node is left ONLINE but those whose session went on
\* to REGISTER another id.
TornDown ==
  <>[](/\ \A k \in Conns : conn[k].srv \in {"none", "done"}
       /\ \A n \in NodeIds : isOnline(m_entries, n) => n \in displaced)
=============================================================================
