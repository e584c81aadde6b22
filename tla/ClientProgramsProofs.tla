------------------------ MODULE ClientProgramsProofs ------------------------
(***************************************************************************)
(* Theorems about ClientPrograms, for any number of clients, programs,     *)
(* attempts, commands and crashes.                                         *)
(***************************************************************************)
EXTENDS ClientPrograms, SequenceLemmas, TLAPS

\* Most steps are first-order logic; those that need arithmetic or records cite SMT.
USE Zenon

\* The arithmetic of the attempts and of the commands left.
LEMMA UpTo ==
  ASSUME NEW n \in Nat, NEW x \in 0..n
  PROVE  /\ x \in Nat /\ x <= n /\ ~(x < 0) /\ ~(x > x) /\ (x = 0 \/ x > 0)
         /\ x + 1 \in Nat /\ x + 1 > x /\ x + 1 # x /\ x + 1 # 0
         /\ x < n => x + 1 \in 0..n
         /\ x <= x /\ (x > 0 => x - 1 \in 0..n /\ x - 1 <= x)
         /\ ~(x > x + 1) /\ ~(x + 1 > x + 1) /\ ~(x + 1 < x + 1)
         /\ \A i \in 0..n : (i > x + 1 => i > x) /\ (i # x /\ i < x + 1 => i < x)
  BY SMT

LEMMA Fresh ==
  /\ ~(0 > 0) /\ 0 <= 0 /\ 0 <= 1 /\ 1 # 0 /\ \A o \in {0, 1} : o <= 1 + 0
  /\ \A n \in Nat : \A x \in 0..n :
       0 + x <= n + 0 /\ \A o \in {0, 1} : o + x <= n + 1
  BY SMT

LEMMA NoMore ==
  ASSUME NEW x \in Nat, NEW y \in Nat, NEW z \in Nat, NEW n \in Nat, y <= x
  PROVE  x + z <= n => y + z <= n
  BY SMT

LEMMA AtMost ==
  ASSUME NEW x \in Nat, NEW y \in Nat, NEW n \in Nat, y <= x, x <= n
  PROVE  y <= n
  BY SMT

LEMMA OneOver ==
  ASSUME NEW x \in Nat, NEW y \in Nat, y <= x + 1
  PROVE  (x <= 1 => y <= 2) /\ (x <= 0 => y <= 1)
  BY SMT

LEMMA Plus == \A n \in Nat : n + 1 \in Nat /\ n + 0 \in Nat /\ 1 + n \in Nat /\ n <= n
                        /\ (n > 0 => n - 1 \in Nat) /\ \A x \in 1..n : n > 0
  BY SMT

LEMMA OneMore ==
  ASSUME NEW x \in Nat, NEW y \in Nat, NEW z \in Nat, NEW n \in Nat, y <= x + 1
  PROVE  /\ x = 0 => y <= 1
         /\ x <= 1 + 0 => y <= 1 + 1
         /\ x + z <= n + 0 => y + z <= n + 1
         /\ z > 0 /\ x + z <= n + 1 => y + (z - 1) <= n + 1
  BY SMT

(***************************************************************************)
(* TypeOK without its bound on the streams, which is part of Budget.       *)
(***************************************************************************)
Types ==
  /\ program \in [Clients -> Programs]
  /\ pc \in [Clients -> {"start", "drain", "register", "query", "heartbeat",
                         "menu", "retry", "exit"}]
  /\ asked \in [Clients -> Commands \cup {"none"}]
  /\ attempt \in [Clients -> 0..MaxAttempts]
  /\ left \in [Clients -> 0..MaxCommands]
  /\ code \in [Clients -> {"running", "success", "failure", "SIGPIPE"}]
  /\ conn \in [Conns -> Connections]
  /\ backlog \in Seq(Conns)
  /\ queue \in Seq(Conns)
  /\ running \in BOOLEAN
  /\ restarts \in 0..MaxRestarts
  /\ m_entries \in Registries
  /\ shown \in [Clients -> [cmd : Commands \cup {"none"},
                            of : Commands \cup {"none", "welcome", "capacity"}]]
  /\ late \in [Clients -> BOOLEAN]
  /\ decision \in [Clients -> {"none", "OK", "ERR_DUPLICATE"}]
  /\ displaced \subseteq NodeIds

(***************************************************************************)
(* The backlog and the queue hold the connections the server has not come  *)
(* to, each of them once.                                                  *)
(***************************************************************************)
Waiting ==
  /\ Injective(backlog) /\ Elements(backlog) = In({"backlog"})
  /\ Injective(queue) /\ Elements(queue) = In({"queued"})

(***************************************************************************)
(* The two ends of a connection.  Nothing is sent to a client whose socket *)
(* is not open, and a server that has hung up has read all there was.      *)
(***************************************************************************)
Ends(r) ==
  /\ r.link = "none" <=> r.srv = "none"
  /\ r.link = "open" => r.srv # "done"
  /\ r.link \in {"fin", "reset", "broken"} => r.srv = "done"
  /\ r.srv \in {"none", "done"} => r.up = <<>>
  /\ r.link \in {"none", "closed"} => r.down = <<>>

(***************************************************************************)
(* Where a program is, and which of its connections is in use.             *)
(***************************************************************************)
PlacesIn(prog) ==
  CASE prog = "connect_basic" -> {"start", "drain", "register", "query", "exit"}
    [] prog = "eop_demo" -> {"start", "drain", "menu", "exit"}
    [] OTHER -> {"start", "register", "heartbeat", "retry", "exit"}

AskedAt(place) ==
  CASE place \in {"drain", "heartbeat"} -> {"none", "HEARTBEAT"}
    [] place = "register" -> {"none", "REGISTER"}
    [] place = "query" -> {"none", "QUERY_NODE"}
    [] place = "menu" -> Commands \cup {"none"}
    [] OTHER -> {"none"}

Shape(c) ==
  /\ pc[c] \in PlacesIn(program[c]) /\ asked[c] \in AskedAt(pc[c])
  /\ code[c] = "running" <=> pc[c] # "exit"
  /\ program[c] # "probe" \/ pc[c] \in {"start", "heartbeat"} => attempt[c] = 0
  /\ \A i \in 0..MaxAttempts :
       /\ Ends(conn[<<c, i>>])
       /\ i > attempt[c] \/ pc[c] = "start" => conn[<<c, i>>] = NoConn
       /\ i < attempt[c] \/ pc[c] = "exit" => conn[<<c, i>>].link \in {"none", "closed"}
  /\ pc[c] \in {"drain", "register", "query", "heartbeat", "menu"} =>
       conn[Cur(c)].link \notin {"none", "closed"}

(***************************************************************************)
(* The frames a connection can still carry.  The demo may send anything,   *)
(* but what it sends first is the HEARTBEAT of the drain, which is not     *)
(* answered.  The probe sends one REGISTER, and then HEARTBEATs.           *)
(***************************************************************************)
Beats(q) == q # <<>> /\ q[1].type = "HEARTBEAT"
Asking(q) == IF Beats(q) THEN Len(q) - 1 ELSE Len(q)
FirstAsks(q) == IF q = <<>> \/ Beats(q) THEN 0 ELSE 1
OnlyFirst(q) == \A i \in DOMAIN q : i # 1 => q[i].type = "HEARTBEAT"

Pending(r) == IF r.srv \in {"backlog", "queued"} THEN 1 ELSE 0

\* The frames that are or may come to be on the way to a demo, to a probe.
Owed(r) == Len(r.down) + Asking(r.up) + Pending(r)
Due(r) == Len(r.down) + FirstAsks(r.up) + Pending(r)

\* The first call, a drain or a REGISTER, has been sent.
Sent(c) == IF pc[c] \in {"start", "drain", "register"} /\ asked[c] = "none" THEN 0 ELSE 1

Demo(c, r) ==
  /\ Len(r.up) + left[c] <= MaxCommands + Sent(c)
  /\ Sent(c) = 0 => Len(r.up) = 0
  /\ r.link = "open" => Owed(r) + left[c] <= MaxCommands + 1

Probe(c, r) ==
  /\ attempt[c] = 0 /\ pc[c] \in {"register", "heartbeat"} =>
       Len(r.up) + left[c] <= MaxCommands + Sent(c)
  /\ attempt[c] > 0 /\ pc[c] = "register" => Len(r.up) <= Sent(c)
  /\ Sent(c) = 0 => Len(r.up) = 0
  /\ r.link = "open" => OnlyFirst(r.up) /\ Due(r) <= 1 + Sent(c)

Fits(r) == Len(r.up) <= MaxCommands + 1 /\ Len(r.down) <= MaxCommands + 1

\* Two empty streams are within any bound.
LEMMA EmptyFits == ASSUME NEW r, Len(r.up) = 0, Len(r.down) = 0 PROVE Fits(r)
<1>1. 0 <= MaxCommands + 1 BY SMT, ProgramsAssumption
<1>2. QED BY <1>1 DEF Fits

\* So is what is left when a client drops what it has not read.
LEMMA DroppedFits == ASSUME NEW r, NEW s, Fits(r), s.up = r.up, s.down = <<>> PROVE Fits(s)
<1>1. Len(<<>>) <= MaxCommands + 1 BY SMT, ProgramsAssumption
<1>2. QED BY <1>1 DEF Fits

Budget(c) ==
  /\ MaxCommands > 0
  /\ program[c] = "eop_demo" => Demo(c, conn[Cur(c)])
  /\ program[c] = "probe" => Probe(c, conn[Cur(c)])
  /\ \A i \in 0..MaxAttempts : Fits(conn[<<c, i>>])

(***************************************************************************)
(* A program that drains the welcome, as long as no call timed out: what   *)
(* is on its way is the answer to the call under way.                      *)
(***************************************************************************)
ShownRight(c) ==
  \/ shown[c].cmd = shown[c].of
  \/ shown[c].cmd = "HEARTBEAT" /\ shown[c].of \in {"welcome", "capacity"}

Draining(r, cmd) ==
  /\ Len(r.down) <= 1 /\ \A i \in DOMAIN r.down : r.down[i].of \in {"welcome", "capacity"}
  /\ Len(r.up) <= 1 /\ \A i \in DOMAIN r.up : r.up[i].type = "HEARTBEAT"
  /\ cmd = "none" => r.up = <<>>
  /\ r.srv \in {"backlog", "queued"} => r.down = <<>>

Drained(r, cmd) ==
  /\ r.srv \notin {"backlog", "queued"}
  /\ Len(r.down) <= 1 /\ \A i \in DOMAIN r.down : r.down[i].of = cmd
  /\ cmd = "HEARTBEAT" => r.down = <<>>
  /\ \A i \in DOMAIN r.up :
       r.up[i].type # "HEARTBEAT" => i = Len(r.up) /\ r.up[i].type = cmd /\ r.down = <<>>
  /\ cmd # "none" /\ r.up # <<>> => r.up[Len(r.up)].type = cmd

Synced(c) ==
  program[c] # "probe" /\ ~late[c] =>
    /\ ShownRight(c)
    /\ pc[c] = "drain" => Draining(conn[Cur(c)], asked[c])
    /\ pc[c] \in {"register", "query", "menu"} => Drained(conn[Cur(c)], asked[c])

(***************************************************************************)
(* connect_basic goes on only with an answer, and past REGISTER only with  *)
(* the ACK of its one REGISTER.                                            *)
(***************************************************************************)
NoRegister(r) == \A i \in DOMAIN r.up : r.up[i].type # "REGISTER"

Registered(c) ==
  LET r == conn[Cur(c)] IN
  program[c] = "connect_basic" =>
    /\ late[c] => pc[c] = "exit" /\ code[c] # "success"
    /\ pc[c] = "register" => Len(r.up) <= (IF asked[c] = "none" THEN 1 ELSE 2)
    /\ pc[c] = "query" => Len(r.up) <= (IF asked[c] = "none" THEN 0 ELSE 1)
    /\ pc[c] = "query" \/ code[c] = "success" => decision[c] = "OK" /\ NoRegister(r)
    /\ pc[c] = "register" /\ (\E i \in DOMAIN r.down : r.down[i].type = "ACK")
         => decision[c] = "OK"

Local(c) == Shape(c) /\ Budget(c) /\ Synced(c) /\ Registered(c)

Inv == Types /\ Waiting /\ \A c \in Clients : Local(c)

(***************************************************************************)
(* The operators on a connection, field by field                           *)
(***************************************************************************)

LEMMA ConnFields ==
  ASSUME NEW r \in Connections
  PROVE  /\ r.link \in Links /\ r.srv \in Phases /\ r.up \in Seq(Requests)
         /\ r.down \in Seq(Frames) /\ r.active \in NodeIds \cup {EmptyId}
BY DEF Connections

LEMMA CloseFields ==
  ASSUME NEW r \in Connections
  PROVE  LET s == CloseLink(r) IN
         /\ s \in Connections
         /\ s.srv = r.srv /\ s.up = r.up /\ s.active = r.active
         /\ r.link = "none" => s = r
         /\ r.link # "none" => s.link = "closed" /\ s.down = <<>>
<1>1. "closed" \in Links /\ <<>> \in Seq(Frames) BY SMT DEF Links
<1>2. CloseLink(r) \in Connections BY <1>1 DEF CloseLink, Connections
<1>3. QED BY <1>2 DEF CloseLink, Connections

LEMMA NewFields ==
  /\ NoConn \in Connections /\ Ends(NoConn) /\ NoConn.link = "none" /\ NoConn.srv = "none"
  /\ NewConn \in Connections /\ Ends(NewConn)
  /\ NewConn.up = <<>> /\ NewConn.down = <<>> /\ NewConn.active = EmptyId
  /\ NewConn.link = (IF running THEN "open" ELSE "fin")
  /\ NewConn.srv = (IF running THEN "backlog" ELSE "done")
<1>1. /\ {"open", "fin", "none"} \subseteq Links /\ {"backlog", "done", "none"} \subseteq Phases
      /\ <<>> \in Seq(Frames) /\ <<>> \in Seq(Requests)
  BY SMT DEF Links, Phases
<1>2. NoConn \in Connections BY <1>1 DEF NoConn, Connections
<1>3. Ends(NoConn) /\ NoConn.link = "none" /\ NoConn.srv = "none" BY DEF NoConn, Ends
<1>4. CASE running
  <2>1. NewConn = [NoConn EXCEPT !.link = "open", !.srv = "backlog"] BY <1>4 DEF NewConn
  <2>2. QED BY <1>1, <1>2, <1>3, <1>4, <2>1 DEF NoConn, Connections, Ends
<1>5. CASE ~running
  <2>1. NewConn = [NoConn EXCEPT !.link = "fin", !.srv = "done"] BY <1>5 DEF NewConn
  <2>2. QED BY <1>1, <1>2, <1>3, <1>5, <2>1 DEF NoConn, Connections, Ends
<1>6. QED BY <1>4, <1>5

(***************************************************************************)
(* What the server does with a connection r, which becomes s.              *)
(***************************************************************************)
Advances(r, s) ==
  /\ \/ r.srv = "backlog" /\ s.srv = "queued"
     \/ r.srv = "serving" /\ s.srv = "ending"
  /\ s.link = r.link /\ s.up = r.up /\ s.down = r.down

Greets(r, s) ==
  /\ r.srv = "queued" /\ s.srv = "serving"
  /\ s.link = r.link /\ s.up = r.up
  /\ s.down = IF r.link = "open" THEN Append(r.down, Welcome) ELSE r.down

HangsUp(r, s) ==
  /\ r.srv # "none" /\ s.srv = "done" /\ s.up = <<>>
  /\ r.link = "open" =>
       /\ s.link \in {"fin", "reset"}
       /\ \/ s.down \in {r.down, <<>>}
          \/ r.srv = "backlog" /\ s.down = Append(r.down, AtCapacity)
  /\ r.link # "open" => s.link = r.link /\ s.down = r.down

Answers(r, s) ==
  /\ r.srv = "serving" /\ s.srv = "serving" /\ s.link = r.link
  /\ r.up # <<>> /\ s.up = Tail(r.up)
  /\ \/ s.down = r.down /\ (Head(r.up).type = "HEARTBEAT" \/ r.link # "open")
     \/ /\ r.link = "open" /\ Head(r.up).type # "HEARTBEAT"
        /\ \E f \in Frames : f.of = Head(r.up).type /\ s.down = Append(r.down, f)

Moves(r, s) == s = r \/ Advances(r, s) \/ Greets(r, s) \/ HangsUp(r, s) \/ Answers(r, s)

\* The decision on a REGISTER and the type of its answer agree.
Decides(c) ==
  LET r == conn[Cur(c)]
      s == conn'[Cur(c)]
      registers == Answers(r, s) /\ Head(r.up).type = "REGISTER"
  IN /\ decision'[c] # decision[c] => registers
     /\ registers /\ r.link = "open" /\ s.down[Len(s.down)].type = "ACK"
          => decision'[c] = "OK"

\* A step of the server as one client sees it.
ServerStep(c) ==
  /\ UNCHANGED progVars
  /\ \A i \in 0..MaxAttempts : Moves(conn[<<c, i>>], conn'[<<c, i>>])
  /\ Decides(c)

LEMMA AskingType ==
  ASSUME NEW q \in Seq(Requests)
  PROVE  /\ Len(q) \in Nat /\ Asking(q) \in Nat /\ Asking(q) <= Len(q) /\ FirstAsks(q) \in {0, 1}
         /\ q = <<>> => Len(q) = 0 /\ Asking(q) = 0 /\ FirstAsks(q) = 0 /\ OnlyFirst(q)
<1>1. Len(q) \in Nat /\ (q # <<>> => Len(q) > 0) /\ (q = <<>> => Len(q) = 0 /\ DOMAIN q = {})
  BY SMT
<1>2. Asking(q) \in Nat /\ Asking(q) <= Len(q) BY SMT, <1>1 DEF Asking, Beats
<1>3. FirstAsks(q) \in {0, 1} BY DEF FirstAsks
<1>4. q = <<>> => Asking(q) = 0 /\ FirstAsks(q) = 0 /\ OnlyFirst(q)
  BY <1>1 DEF Asking, Beats, FirstAsks, OnlyFirst
<1>5. QED BY <1>1, <1>2, <1>3, <1>4

LEMMA OwedType ==
  ASSUME NEW r \in Connections
  PROVE  /\ Len(r.up) \in Nat /\ Len(r.down) \in Nat
         /\ Asking(r.up) \in Nat /\ FirstAsks(r.up) \in {0, 1} /\ Pending(r) \in {0, 1}
         /\ Owed(r) \in Nat /\ Len(r.down) <= Owed(r)
         /\ Due(r) \in Nat /\ Len(r.down) <= Due(r)
<1>1. r.up \in Seq(Requests) /\ Len(r.down) \in Nat BY SMT, ConnFields
<1>2. Len(r.up) \in Nat /\ Asking(r.up) \in Nat /\ FirstAsks(r.up) \in {0, 1} BY <1>1, AskingType
<1>3. Pending(r) \in {0, 1} BY DEF Pending
<1>4. QED BY SMT, <1>1, <1>2, <1>3 DEF Owed, Due

LEMMA ExceptConn ==
  ASSUME NEW f \in [Conns -> Connections], NEW k \in Conns, NEW s \in Connections,
         NEW g, g = [f EXCEPT ![k] = s]
  PROVE  g \in [Conns -> Connections] /\ g[k] = s /\ \A j \in Conns : j # k => g[j] = f[j]
OBVIOUS

\* One connection changes.
LEMMA OneConn ==
  ASSUME Types, NEW k \in Conns, NEW s \in Connections, conn' = [conn EXCEPT ![k] = s]
  PROVE  /\ conn' \in [Conns -> Connections] /\ conn'[k] = s
         /\ \A j \in Conns : j # k => conn'[j] = conn[j]
         /\ \A p : In({p})' = IF s.srv = p THEN In({p}) \cup {k} ELSE In({p}) \ {k}
<1>1. /\ conn' \in [Conns -> Connections] /\ conn'[k] = s
      /\ \A j \in Conns : j # k => conn'[j] = conn[j]
  BY DEF Types
<1>2. QED BY <1>1 DEF In

LEMMA Enqueue ==
  ASSUME NEW q \in Seq(Conns), NEW k \in Conns, Injective(q), k \notin Elements(q)
  PROVE  /\ Append(q, k) \in Seq(Conns) /\ Injective(Append(q, k))
         /\ Elements(Append(q, k)) = Elements(q) \cup {k}
<1>1. Append(q, k) \in Seq(Conns) BY SMT
<1>2. QED BY ZenonT(30), <1>1, AppendElements

\* A step of the server keeps what is said of one client.
LEMMA ServerLocal ==
  \A c \in Clients : Types /\ Types' /\ Local(c) /\ ServerStep(c) => Local(c)'

<1>MoveEnds.
  ASSUME NEW r \in Connections, NEW s \in Connections, Ends(r), Moves(r, s)
  PROVE  /\ Ends(s)
         /\ r.link = "none" => s = r
         /\ r.link \in {"none", "closed"} <=> s.link \in {"none", "closed"}
  <2> USE <1>MoveEnds
  <2>1. CASE s = r BY <2>1
  <2>2. CASE Advances(r, s) BY <2>2 DEF Advances, Ends
  <2>3. CASE Greets(r, s) BY <2>3 DEF Greets, Ends
  <2>4. CASE HangsUp(r, s) BY <2>4 DEF HangsUp, Ends
  <2>5. CASE Answers(r, s) BY <2>5 DEF Answers, Ends
  <2>6. QED BY <2>1, <2>2, <2>3, <2>4, <2>5 DEF Moves

<1>ServerShape.
  ASSUME Types, Types', NEW c \in Clients, Shape(c), ServerStep(c)
  PROVE  Shape(c)'
  <2> USE <1>ServerShape
  <2>1. UNCHANGED <<program, pc, asked, attempt, code>> BY DEF ServerStep, progVars
  <2>2. attempt[c] \in 0..MaxAttempts BY DEF Types
  <2>3. ASSUME NEW i \in 0..MaxAttempts
        PROVE  LET r == conn[<<c, i>>]
                   s == conn'[<<c, i>>]
               IN /\ Ends(s)
                  /\ r = NoConn => s = NoConn
                  /\ r.link \in {"none", "closed"} <=> s.link \in {"none", "closed"}
    <3>1. <<c, i>> \in Conns BY DEF Conns
    <3>2. conn[<<c, i>>] \in Connections /\ conn'[<<c, i>>] \in Connections BY <3>1 DEF Types
    <3>3. Ends(conn[<<c, i>>]) /\ Moves(conn[<<c, i>>], conn'[<<c, i>>])
      BY DEF Shape, ServerStep
    <3>4. conn[<<c, i>>] = NoConn => conn[<<c, i>>].link = "none" BY SMT DEF NoConn
    <3>5. QED BY <3>2, <3>3, <3>4, <1>MoveEnds
  <2>4. QED BY <2>1, <2>2, <2>3 DEF Shape, Cur

<1>MoveDraining.
  ASSUME NEW r \in Connections, NEW s \in Connections, NEW cmd, Moves(r, s), Draining(r, cmd)
  PROVE  Draining(s, cmd)
  <2> USE <1>MoveDraining
  <2>1. /\ r.down \in Seq(Frames) /\ r.up \in Seq(Requests) BY ConnFields
  <2>2. /\ Welcome \in Frames /\ AtCapacity \in Frames
        /\ Welcome.of = "welcome" /\ AtCapacity.of = "capacity"
    BY DEF Welcome, AtCapacity, Frames
  <2>3. ASSUME NEW f \in {Welcome, AtCapacity}
        PROVE  /\ Len(Append(<<>>, f)) <= 1
               /\ \A i \in DOMAIN Append(<<>>, f) : Append(<<>>, f)[i].of \in {"welcome", "capacity"}
    BY SMT, <2>2
  <2>4. CASE s = r \/ Advances(r, s) BY <2>4 DEF Advances, Draining
  <2>5. CASE Greets(r, s)
    <3>1. r.down = <<>> BY <2>5 DEF Greets, Draining
    <3>2. CASE r.link = "open" BY <2>3, <2>5, <3>1, <3>2 DEF Greets, Draining
    <3>3. CASE r.link # "open" BY <2>5, <3>3 DEF Greets, Draining
    <3>4. QED BY <3>2, <3>3
  <2>6. CASE HangsUp(r, s)
    <3>1. s.up = <<>> /\ s.srv = "done" BY <2>6 DEF HangsUp
    <3>2. s.down \in {r.down, <<>>} \/ s.down = Append(<<>>, AtCapacity)
      BY <2>6 DEF HangsUp, Draining
    <3>3. CASE s.down = r.down BY SMT, <3>1, <3>3 DEF Draining
    <3>4. CASE s.down = <<>> BY SMT, <3>1, <3>4 DEF Draining
    <3>5. CASE s.down = Append(<<>>, AtCapacity) BY SMT, <2>3, <3>1, <3>5 DEF Draining
    <3>6. QED BY <3>2, <3>3, <3>4, <3>5
  <2>7. CASE Answers(r, s)
    <3>1. r.up # <<>> /\ s.up = Tail(r.up) /\ s.srv = "serving" BY <2>7 DEF Answers
    <3>2. Head(r.up).type = "HEARTBEAT" BY ZenonT(30), <2>1, <3>1, StreamRest DEF Draining
    <3>3. s.down = r.down BY <2>7, <3>2 DEF Answers
    <3>4. Len(r.up) = 1 BY SMT, <2>1, <3>1, StreamRest DEF Draining
    <3>5. s.up = <<>> BY <2>1, <3>1, <3>4, StreamRest
    <3>6. QED BY SMT, <3>1, <3>3, <3>5 DEF Draining
  <2>8. QED BY <2>4, <2>5, <2>6, <2>7 DEF Moves

<1>MoveDrained.
  ASSUME NEW r \in Connections, NEW s \in Connections, NEW cmd, Moves(r, s), Drained(r, cmd)
  PROVE  Drained(s, cmd)
  <2> USE <1>MoveDrained
  <2>1. /\ r.down \in Seq(Frames) /\ r.up \in Seq(Requests) BY ConnFields
  <2>2. CASE s = r \/ Advances(r, s) BY <2>2 DEF Advances, Drained
  <2>3. ~Greets(r, s) BY DEF Greets, Drained
  <2>4. CASE HangsUp(r, s)
    <3>1. s.up = <<>> /\ s.srv = "done" /\ s.down \in {r.down, <<>>}
      BY <2>4 DEF HangsUp, Drained
    <3>2. QED BY SMT, <3>1 DEF Drained
  <2>5. CASE Answers(r, s)
    <3>1. r.up # <<>> /\ s.up = Tail(r.up) /\ s.srv = "serving" BY <2>5 DEF Answers
    <3>2. /\ Len(r.up) \in Nat /\ Len(r.up) > 0 /\ 1 \in DOMAIN r.up /\ Head(r.up) = r.up[1]
          /\ Len(s.up) = Len(r.up) - 1
          /\ \A i \in DOMAIN s.up : i + 1 \in DOMAIN r.up /\ s.up[i] = r.up[i + 1]
          /\ s.up # <<>> => Len(r.up) - 1 \in DOMAIN s.up
          /\ s.up = <<>> <=> Len(r.up) = 1
      BY SMT, <2>1, <3>1, StreamRest
    <3>3. s.up # <<>> => s.up[Len(s.up)] = r.up[Len(r.up)] BY SMT, <3>2
    <3>4. CASE s.down = r.down
      <4>1. ASSUME NEW i \in DOMAIN s.up, s.up[i].type # "HEARTBEAT"
            PROVE  i = Len(s.up) /\ s.up[i].type = cmd /\ s.down = <<>>
        <5>1. i + 1 \in DOMAIN r.up /\ s.up[i] = r.up[i + 1] BY <3>2
        <5>2. i + 1 = Len(r.up) /\ s.up[i].type = cmd /\ r.down = <<>>
          BY <4>1, <5>1 DEF Drained
        <5>3. i \in Nat BY SMT, ConnFields
        <5>4. QED BY SMT, <3>2, <3>4, <5>2, <5>3
      <4>2. cmd # "none" /\ s.up # <<>> => s.up[Len(s.up)].type = cmd
        BY <3>1, <3>3 DEF Drained
      <4>3. QED BY <3>1, <3>4, <4>1, <4>2 DEF Drained
    <3>5. CASE s.down # r.down
      <4>1. PICK f \in Frames : f.of = Head(r.up).type /\ s.down = Append(r.down, f)
        BY <2>5, <3>5 DEF Answers
      <4>2. Head(r.up).type # "HEARTBEAT" BY <2>5, <3>5 DEF Answers
      <4>3. 1 = Len(r.up) /\ Head(r.up).type = cmd /\ r.down = <<>> BY <3>2, <4>2 DEF Drained
      <4>4. s.up = <<>> BY <3>2, <4>3
      <4>5. Len(s.down) = 1 /\ \A i \in DOMAIN s.down : s.down[i].of = cmd
        BY SMT, <4>1, <4>3
      <4>6. QED BY SMT, <3>1, <4>2, <4>3, <4>4, <4>5 DEF Drained
    <3>6. QED BY <3>4, <3>5
  <2>6. QED BY <2>2, <2>3, <2>4, <2>5 DEF Moves

<1>ServerSynced.
  ASSUME Types, Types', NEW c \in Clients, Synced(c), ServerStep(c)
  PROVE  Synced(c)'
  <2> USE <1>ServerSynced
  <2>1. UNCHANGED <<program, pc, asked, attempt, shown, late>> BY DEF ServerStep, progVars
  <2>2. Cur(c) \in Conns /\ Cur(c)' = Cur(c) /\ attempt[c] \in 0..MaxAttempts
    BY <2>1 DEF Types, Cur, Conns
  <2>3. conn[Cur(c)] \in Connections /\ conn'[Cur(c)] \in Connections BY <2>2 DEF Types
  <2>4. Moves(conn[Cur(c)], conn'[Cur(c)]) BY <2>2 DEF ServerStep, Cur
  <2>5. ASSUME NEW cmd PROVE /\ Draining(conn[Cur(c)], cmd) => Draining(conn'[Cur(c)], cmd)
                             /\ Drained(conn[Cur(c)], cmd) => Drained(conn'[Cur(c)], cmd)
    BY <2>3, <2>4, <1>MoveDraining, <1>MoveDrained
  <2>6. QED BY <2>1, <2>2, <2>5 DEF Synced, ShownRight

\* Taking the first request.
<1>AskingTail.
  ASSUME NEW q \in Seq(Requests), q # <<>>
  PROVE  /\ Len(Tail(q)) = Len(q) - 1
         /\ Asking(Tail(q)) <= Asking(q) /\ FirstAsks(q) \in {0, 1}
         /\ Head(q).type # "HEARTBEAT" => Asking(Tail(q)) < Asking(q) /\ FirstAsks(q) = 1
         /\ OnlyFirst(q) => OnlyFirst(Tail(q)) /\ FirstAsks(Tail(q)) = 0
  <2> USE <1>AskingTail
  <2>1. /\ Len(q) \in Nat /\ Len(q) > 0 /\ Head(q) = q[1] /\ Tail(q) \in Seq(Requests)
        /\ Len(Tail(q)) = Len(q) - 1
        /\ \A i \in DOMAIN Tail(q) : i + 1 \in DOMAIN q /\ Tail(q)[i] = q[i + 1] /\ i + 1 # 1
    BY SMT, StreamRest
  <2>2. /\ Asking(Tail(q)) \in Nat /\ Asking(Tail(q)) <= Len(Tail(q)) /\ FirstAsks(q) \in {0, 1}
    BY <2>1, AskingType
  <2>3. Beats(q) <=> Head(q).type = "HEARTBEAT" BY <2>1 DEF Beats
  <2>4. Asking(Tail(q)) <= Asking(q)
    <3>1. Asking(q) = Len(q) \/ Asking(q) = Len(q) - 1 BY DEF Asking
    <3>2. Len(q) \in Nat /\ Len(Tail(q)) = Len(q) - 1 BY <2>1
    <3>3. QED BY SMT, <2>2, <3>1, <3>2
  <2>5. ASSUME ~Beats(q) PROVE Asking(Tail(q)) < Asking(q) /\ FirstAsks(q) = 1
    <3>1. Asking(q) = Len(q) /\ FirstAsks(q) = 1 BY <2>5 DEF Asking, FirstAsks
    <3>2. Len(q) \in Nat /\ Len(Tail(q)) = Len(q) - 1 BY <2>1
    <3>3. QED BY SMT, <2>2, <3>1, <3>2
  <2>6. ASSUME OnlyFirst(q) PROVE OnlyFirst(Tail(q)) /\ FirstAsks(Tail(q)) = 0
    <3>1. \A i \in DOMAIN Tail(q) : Tail(q)[i].type = "HEARTBEAT" BY <2>1, <2>6 DEF OnlyFirst
    <3>2. Tail(q) # <<>> => 1 \in DOMAIN Tail(q) BY SMT, <2>1
    <3>3. QED BY <3>1, <3>2 DEF OnlyFirst, FirstAsks, Beats
  <2>7. QED BY <2>1, <2>2, <2>3, <2>4, <2>5, <2>6

\* The server only uses up what is owed to the client.
<1>MoveCounts.
  ASSUME NEW r \in Connections, NEW s \in Connections, Moves(r, s)
  PROVE  /\ Len(s.up) <= Len(r.up)
         /\ s.link = "open" => r.link = "open" /\ Owed(s) <= Owed(r)
         /\ s.link = "open" /\ OnlyFirst(r.up) => OnlyFirst(s.up) /\ Due(s) <= Due(r)
         /\ r.link = "open" => Len(s.down) <= Owed(r) /\ Len(s.down) <= Due(r)
         /\ r.link # "open" => s.down = r.down
  <2> USE <1>MoveCounts
  <2>1. /\ r.down \in Seq(Frames) /\ r.up \in Seq(Requests)
        /\ s.down \in Seq(Frames) /\ s.up \in Seq(Requests)
    BY ConnFields
  <2>2. /\ Len(r.up) \in Nat /\ Len(r.down) \in Nat /\ Len(s.up) \in Nat /\ Len(s.down) \in Nat
        /\ Asking(r.up) \in Nat /\ FirstAsks(r.up) \in {0, 1} /\ Pending(r) \in {0, 1}
        /\ Asking(s.up) \in Nat /\ FirstAsks(s.up) \in {0, 1}
        /\ Len(r.down) <= Owed(r) /\ Len(r.down) <= Due(r) /\ Owed(r) \in Nat /\ Due(r) \in Nat
    BY OwedType
  <2>3. ASSUME NEW f \in Frames PROVE Len(Append(r.down, f)) = Len(r.down) + 1 BY SMT, <2>1
  <2>4. Welcome \in Frames /\ AtCapacity \in Frames BY DEF Welcome, AtCapacity, Frames
  <2>5. Len(<<>>) = 0 OBVIOUS
  <2>6. CASE s = r BY SMT, <2>2, <2>6
  <2>7. CASE Advances(r, s)
    <3>1. s.up = r.up /\ s.down = r.down /\ s.link = r.link /\ Pending(s) = Pending(r)
      BY <2>7 DEF Advances, Pending
    <3>2. Owed(s) = Owed(r) /\ Due(s) = Due(r) BY <3>1 DEF Owed, Due
    <3>3. QED BY SMT, <2>2, <3>1, <3>2
  <2>8. CASE Greets(r, s)
    <3>1. s.up = r.up /\ s.link = r.link BY <2>8 DEF Greets
    <3>2. CASE r.link = "open"
      <4>1. Len(s.down) = Len(r.down) + 1 BY <2>3, <2>4, <2>8, <3>2 DEF Greets
      <4>2. Pending(r) = 1 /\ Pending(s) = 0 BY <2>8 DEF Greets, Pending
      <4>3. Owed(s) = Owed(r) /\ Due(s) = Due(r) /\ Len(s.down) <= Owed(r) /\ Len(s.down) <= Due(r)
        BY SMTT(30), <2>2, <3>1, <4>1, <4>2 DEF Owed, Due
      <4>4. QED BY SMT, <2>2, <3>1, <3>2, <4>3
    <3>3. CASE r.link # "open" BY SMT, <2>2, <2>8, <3>1, <3>3 DEF Greets
    <3>4. QED BY <3>2, <3>3
  <2>9. CASE HangsUp(r, s)
    <3>1. s.link # "open" /\ Len(s.up) = 0 BY <2>5, <2>9 DEF HangsUp
    <3>2. CASE r.link = "open"
      <4>1. \/ Len(s.down) <= Len(r.down)
            \/ r.srv = "backlog" /\ Len(s.down) = Len(r.down) + 1
        BY SMT, <2>2, <2>3, <2>4, <2>5, <2>9, <3>2 DEF HangsUp
      <4>2. r.srv = "backlog" => Pending(r) = 1 BY DEF Pending
      <4>3. Len(s.down) <= Owed(r) /\ Len(s.down) <= Due(r)
        BY SMTT(30), <2>2, <4>1, <4>2 DEF Owed, Due
      <4>4. QED BY SMT, <2>2, <3>1, <3>2, <4>3
    <3>3. CASE r.link # "open" BY SMT, <2>2, <2>9, <3>1, <3>3 DEF HangsUp
    <3>4. QED BY <3>2, <3>3
  <2>10. CASE Answers(r, s)
    <3>1. r.up # <<>> /\ s.up = Tail(r.up) /\ s.srv = r.srv /\ s.link = r.link
      BY <2>10 DEF Answers
    <3>2. /\ Len(s.up) <= Len(r.up) /\ Asking(s.up) <= Asking(r.up)
          /\ Head(r.up).type # "HEARTBEAT" => Asking(s.up) < Asking(r.up) /\ FirstAsks(r.up) = 1
          /\ OnlyFirst(r.up) => OnlyFirst(s.up) /\ FirstAsks(s.up) = 0
      BY SMT, <2>1, <2>2, <3>1, <1>AskingTail
    <3>3. Pending(s) = Pending(r) BY <3>1 DEF Pending
    <3>4. CASE s.down = r.down
      <4>1. Owed(s) <= Owed(r) BY SMT, <2>2, <3>2, <3>3, <3>4 DEF Owed
      <4>2. OnlyFirst(r.up) => Due(s) <= Due(r) BY SMT, <2>2, <3>2, <3>3, <3>4 DEF Due
      <4>3. QED BY <2>2, <3>1, <3>2, <3>4, <4>1, <4>2
    <3>5. CASE s.down # r.down
      <4>1. r.link = "open" /\ Head(r.up).type # "HEARTBEAT" /\ Len(s.down) = Len(r.down) + 1
        BY <2>3, <2>10, <3>5 DEF Answers
      <4>2. Owed(s) <= Owed(r) /\ Len(s.down) <= Owed(r)
        BY SMTT(30), <2>2, <3>2, <3>3, <4>1 DEF Owed
      <4>3. Len(s.down) <= Due(r) /\ (OnlyFirst(r.up) => Due(s) <= Due(r))
        BY SMT, <2>2, <3>2, <3>3, <4>1 DEF Due
      <4>4. QED BY <3>1, <3>2, <4>1, <4>2, <4>3
    <3>6. QED BY <3>4, <3>5
  <2>11. QED BY <2>6, <2>7, <2>8, <2>9, <2>10 DEF Moves

\* Requests are only taken from the front, one at a time, or dropped.
<1>MoveRegister.
  ASSUME NEW r \in Connections, NEW s \in Connections, Moves(r, s), NoRegister(r)
  PROVE  NoRegister(s)
  <2> USE <1>MoveRegister
  <2>1. s.up = r.up \/ s.up = <<>> \/ (r.up # <<>> /\ s.up = Tail(r.up))
    BY DEF Moves, Advances, Greets, HangsUp, Answers
  <2>2. r.up # <<>> => \A i \in DOMAIN Tail(r.up) :
                         i + 1 \in DOMAIN r.up /\ Tail(r.up)[i] = r.up[i + 1]
    BY ConnFields, StreamRest
  <2>3. CASE s.up = r.up BY <2>3 DEF NoRegister
  <2>4. CASE s.up = <<>> BY SMT, <2>4 DEF NoRegister
  <2>5. CASE r.up # <<>> /\ s.up = Tail(r.up) BY <2>2, <2>5 DEF NoRegister
  <2>6. QED BY <2>1, <2>3, <2>4, <2>5

<1>ServerRegistered.
  ASSUME Types, Types', NEW c \in Clients, Shape(c), Synced(c), Registered(c), ServerStep(c)
  PROVE  Registered(c)'
  <2> USE <1>ServerRegistered
  <2> DEFINE r == conn[Cur(c)]
             s == conn'[Cur(c)]
  <2>1. UNCHANGED <<program, pc, asked, attempt, code, late>> BY DEF ServerStep, progVars
  <2>2. Cur(c) \in Conns /\ Cur(c)' = Cur(c) /\ attempt[c] \in 0..MaxAttempts
    BY <2>1 DEF Types, Cur, Conns
  <2>3. r \in Connections /\ s \in Connections /\ conn'[Cur(c)'] = s BY <2>2 DEF Types
  <2>4. Moves(r, s) /\ Ends(r) /\ Decides(c) BY <2>2 DEF ServerStep, Shape, Cur
  <2>5. SUFFICES ASSUME program[c] = "connect_basic"
                 PROVE  /\ late[c] => pc[c] = "exit" /\ code[c] # "success"
                        /\ pc[c] = "register" => Len(s.up) <= (IF asked[c] = "none" THEN 1 ELSE 2)
                        /\ pc[c] = "query" => Len(s.up) <= (IF asked[c] = "none" THEN 0 ELSE 1)
                        /\ pc[c] = "query" \/ code[c] = "success" =>
                             decision'[c] = "OK" /\ NoRegister(s)
                        /\ pc[c] = "register" /\ (\E i \in DOMAIN s.down : s.down[i].type = "ACK")
                             => decision'[c] = "OK"
    BY <2>1, <2>3 DEF Registered
  <2>6. /\ Len(r.up) \in Nat /\ Len(s.up) \in Nat /\ Len(s.up) <= Len(r.up)
    BY <2>3, <2>4, <1>MoveCounts, OwedType
  <2>7. /\ late[c] => pc[c] = "exit" /\ code[c] # "success"
        /\ pc[c] = "register" => Len(r.up) <= (IF asked[c] = "none" THEN 1 ELSE 2)
        /\ pc[c] = "query" => Len(r.up) <= (IF asked[c] = "none" THEN 0 ELSE 1)
        /\ pc[c] = "query" \/ code[c] = "success" => decision[c] = "OK" /\ NoRegister(r)
        /\ pc[c] = "register" /\ (\E i \in DOMAIN r.down : r.down[i].type = "ACK")
             => decision[c] = "OK"
    BY <2>5 DEF Registered
  <2>8. decision'[c] # decision[c] => Answers(r, s) /\ Head(r.up).type = "REGISTER"
    BY <2>4 DEF Decides
  <2> HIDE DEF r, s
  <2>9. ASSUME pc[c] = "query" \/ code[c] = "success"
        PROVE  decision'[c] = "OK" /\ NoRegister(s)
    <3>1. r.up # <<>> => Head(r.up).type # "REGISTER"
      BY <2>3, <2>7, <2>9, ConnFields, StreamRest DEF NoRegister
    <3>2. ~(Answers(r, s) /\ Head(r.up).type = "REGISTER") BY <3>1 DEF Answers
    <3>3. QED BY <2>3, <2>4, <2>7, <2>8, <2>9, <3>2, <1>MoveRegister
  <2>10. ASSUME pc[c] = "register", NEW i \in DOMAIN s.down, s.down[i].type = "ACK"
         PROVE  decision'[c] = "OK"
    <3>1. Drained(r, asked[c]) BY <2>5, <2>7, <2>10 DEF Synced, r
    <3>2. asked[c] \in {"none", "REGISTER"} BY <2>10 DEF Shape, AskedAt
    <3>3. r.srv \notin {"none", "done"} => r.link = "open"
      <4>1. r.link \notin {"none", "closed"} BY <2>10 DEF Shape, r
      <4>2. r.link \in Links BY <2>3, ConnFields
      <4>3. QED BY <2>4, <4>1, <4>2 DEF Ends, Links
    <3>4. CASE ~Answers(r, s)
      <4>1. s.down = r.down \/ s.down = <<>>
        BY <2>4, <3>1, <3>4 DEF Moves, Advances, Greets, HangsUp, Drained
      <4>2. s.down = r.down BY SMT, <2>10, <4>1
      <4>3. QED BY <2>7, <2>8, <2>10, <3>4, <4>2
    <3>5. CASE Answers(r, s) /\ Head(r.up).type = "HEARTBEAT"
      <4>1. s.down = r.down BY <3>5 DEF Answers
      <4>2. QED BY <2>7, <2>8, <2>10, <3>5, <4>1
    <3>6. CASE Answers(r, s) /\ Head(r.up).type # "HEARTBEAT"
      <4>1. r.up # <<>> /\ r.link = "open" BY <3>3, <3>6 DEF Answers
      <4>2. 1 \in DOMAIN r.up /\ Head(r.up) = r.up[1] /\ Head(r.up) \in Requests
        BY <2>3, <4>1, ConnFields, StreamRest
      <4>3. r.down = <<>> /\ Head(r.up).type = asked[c] BY <3>1, <3>6, <4>2 DEF Drained
      <4>4. Head(r.up).type = "REGISTER" BY <3>2, <4>2, <4>3 DEF Requests
      <4>5. PICK f \in Frames : s.down = Append(<<>>, f) BY <3>6, <4>1, <4>3 DEF Answers
      <4>6. i = 1 /\ Len(s.down) = 1 BY SMT, <2>10, <4>5
      <4>7. s.down[Len(s.down)].type = "ACK" BY <2>10, <4>6
      <4>8. QED BY <2>4, <3>6, <4>1, <4>4, <4>7 DEF Decides, r, s
    <3>7. QED BY <3>4, <3>5, <3>6
  <2>11. QED BY SMT, <2>6, <2>7, <2>9, <2>10

<1>ServerBudget.
  ASSUME Types, Types', NEW c \in Clients, Shape(c), Budget(c), ServerStep(c),
         Synced(c)', Registered(c)'
  PROVE  Budget(c)'
  <2> USE <1>ServerBudget
  <2> DEFINE r == conn[Cur(c)]
             s == conn'[Cur(c)]
  <2>1. UNCHANGED <<program, pc, asked, attempt, left, late>> BY DEF ServerStep, progVars
  <2>2. Cur(c) \in Conns /\ Cur(c)' = Cur(c) /\ attempt[c] \in 0..MaxAttempts
        /\ Sent(c)' = Sent(c) /\ Sent(c) \in {0, 1}
    BY <2>1 DEF Types, Cur, Conns, Sent
  <2>3. r \in Connections /\ s \in Connections /\ conn'[Cur(c)'] = s BY <2>2 DEF Types
  <2>4. Moves(r, s) BY <2>2 DEF ServerStep, Cur
  <2>5. /\ Len(s.up) <= Len(r.up)
        /\ s.link = "open" => r.link = "open" /\ Owed(s) <= Owed(r)
        /\ s.link = "open" /\ OnlyFirst(r.up) => OnlyFirst(s.up) /\ Due(s) <= Due(r)
        /\ r.link = "open" => Len(s.down) <= Owed(r) /\ Len(s.down) <= Due(r)
        /\ r.link # "open" => s.down = r.down
    BY <2>3, <2>4, <1>MoveCounts
  <2>6. /\ Len(r.up) \in Nat /\ Len(s.up) \in Nat /\ Len(s.down) \in Nat
        /\ Owed(r) \in Nat /\ Owed(s) \in Nat /\ Due(r) \in Nat /\ Due(s) \in Nat
    BY <2>3, OwedType
  <2>7. left[c] \in Nat /\ MaxCommands \in Nat /\ MaxCommands > 0
    BY SMT, ProgramsAssumption DEF Types, Budget
  <2>8. /\ program[c] = "eop_demo" => Demo(c, r)
        /\ program[c] = "probe" => Probe(c, r)
        /\ \A i \in 0..MaxAttempts : Fits(conn[<<c, i>>])
    BY DEF Budget
  <2>9. program[c] = "connect_basic" /\ pc[c] # "exit" /\ r.link = "open" => Len(s.down) <= 1
    <3> SUFFICES ASSUME program[c] = "connect_basic", pc[c] # "exit", r.link = "open"
                 PROVE  Len(s.down) <= 1
      OBVIOUS
    <3>1. pc[c] \in {"start", "drain", "register", "query"} BY DEF Shape, PlacesIn
    <3>2. pc[c] # "start" BY SMT, <2>2 DEF Shape, Cur, NoConn
    <3>3. ~late'[c] BY <2>1 DEF Registered
    <3>4. Draining(s, asked[c]) \/ Drained(s, asked[c])
      BY <2>1, <2>3, <3>1, <3>2, <3>3 DEF Synced
    <3>5. QED BY <3>4 DEF Draining, Drained
  <2> HIDE DEF r, s
  <2> DEFINE n == MaxCommands + Sent(c)
             m == MaxCommands + 1
  <2>s. n \in Nat /\ m \in Nat /\ 1 + Sent(c) \in Nat BY SMT, <2>2, <2>7
  <2> HIDE DEF n, m
  <2>10. ASSUME Demo(c, r) PROVE Demo(c, s)
    <3>1. /\ Len(s.up) <= Len(r.up) /\ Len(r.up) + left[c] <= n /\ (Sent(c) = 0 => Len(r.up) = 0)
          /\ s.link = "open" => Owed(s) <= Owed(r) /\ Owed(r) + left[c] <= m
      BY <2>5, <2>10 DEF Demo, n, m
    <3>2. Len(s.up) + left[c] <= n /\ (Sent(c) = 0 => Len(s.up) = 0)
      BY SMTT(30), <2>6, <2>7, <2>s, <3>1
    <3>3. s.link = "open" => Owed(s) + left[c] <= m BY SMTT(30), <2>6, <2>7, <2>s, <3>1
    <3>4. QED BY <3>2, <3>3 DEF Demo, n, m
  <2>11. ASSUME Probe(c, r) PROVE Probe(c, s)
    <3>1. /\ Len(s.up) <= Len(r.up)
          /\ attempt[c] = 0 /\ pc[c] \in {"register", "heartbeat"} => Len(r.up) + left[c] <= n
          /\ attempt[c] > 0 /\ pc[c] = "register" => Len(r.up) <= Sent(c)
          /\ Sent(c) = 0 => Len(r.up) = 0
          /\ s.link = "open" =>
               OnlyFirst(s.up) /\ Due(s) <= Due(r) /\ Due(r) <= 1 + Sent(c)
      BY <2>5, <2>11 DEF Probe, n
    <3>2. /\ attempt[c] = 0 /\ pc[c] \in {"register", "heartbeat"} => Len(s.up) + left[c] <= n
          /\ Sent(c) = 0 => Len(s.up) = 0
      BY SMTT(30), <2>6, <2>7, <2>s, <3>1
    <3>3. Sent(c) \in Nat BY SMT, <2>2
    <3>4. attempt[c] > 0 /\ pc[c] = "register" => Len(s.up) <= Sent(c)
      BY <2>6, <3>1, <3>3, AtMost
    <3>5. s.link = "open" => Due(s) <= 1 + Sent(c) BY <2>6, <2>s, <3>1, AtMost
    <3>6. QED BY <3>1, <3>2, <3>4, <3>5 DEF Probe, n
  <2>12. /\ Demo(c, s) => Demo(c, conn[Cur(c)])'
         /\ Probe(c, s) => Probe(c, conn[Cur(c)])'
    BY <2>1, <2>2, <2>3 DEF Demo, Probe, s
  <2>13. ASSUME NEW i \in 0..MaxAttempts PROVE Fits(conn[<<c, i>>])'
    <3> DEFINE q == conn[<<c, i>>]
               t == conn'[<<c, i>>]
    <3>1. q \in Connections /\ t \in Connections /\ Moves(q, t)
      BY ZenonT(30) DEF Types, Conns, ServerStep
    <3>2. /\ Len(q.up) \in Nat /\ Len(t.up) \in Nat /\ Len(t.down) \in Nat
          /\ Len(t.up) <= Len(q.up) /\ (q.link # "open" => t.down = q.down)
      BY <3>1, <1>MoveCounts, OwedType
    <3>3. Len(q.up) <= MaxCommands + 1 /\ Len(q.down) <= MaxCommands + 1 BY <2>8 DEF Fits
    <3>4. q.link = "open" => Len(t.down) <= MaxCommands + 1
      <4> SUFFICES ASSUME q.link = "open" PROVE Len(t.down) <= MaxCommands + 1
        OBVIOUS
      <4>1. i = attempt[c] /\ pc[c] # "exit" BY SMT, <2>2 DEF Shape, NoConn
      <4>2. q = r /\ t = s BY <4>1 DEF Cur, r, s
      <4> HIDE DEF q, t
      <4>3. CASE program[c] = "connect_basic" BY SMT, <2>6, <2>7, <2>9, <4>1, <4>2, <4>3
      <4>4. CASE program[c] = "eop_demo"
        <5>1. Len(s.down) <= Owed(r) /\ Owed(r) + left[c] <= MaxCommands + 1
          BY <2>5, <2>8, <4>2, <4>4 DEF Demo
        <5>2. QED BY SMT, <2>6, <2>7, <4>2, <5>1
      <4>5. CASE program[c] = "probe"
        BY SMT, <2>2, <2>5, <2>6, <2>7, <2>8, <4>2, <4>5 DEF Probe
      <4>6. QED BY SMT, <4>3, <4>4, <4>5 DEF Types, Programs
    <3> HIDE DEF q, t
    <3>5. Len(t.up) <= MaxCommands + 1 /\ Len(t.down) <= MaxCommands + 1
      BY SMT, <2>7, <3>2, <3>3, <3>4
    <3>6. QED BY <3>5 DEF Fits, t
  <2>14. QED BY <2>1, <2>7, <2>8, <2>10, <2>11, <2>12, <2>13 DEF Budget

<1> SUFFICES ASSUME Types, Types', NEW c \in Clients, Local(c), ServerStep(c)
             PROVE  Local(c)'
  OBVIOUS
<1>1. Shape(c) /\ Budget(c) /\ Synced(c) /\ Registered(c) BY DEF Local
<1>2. Shape(c)' /\ Synced(c)' /\ Registered(c)'
  BY <1>1, <1>ServerShape, <1>ServerSynced, <1>ServerRegistered
<1>3. Budget(c)' BY <1>1, <1>2, <1>ServerBudget
<1>4. QED BY <1>2, <1>3 DEF Local

(***************************************************************************)
(* The actions of the server                                               *)
(***************************************************************************)
\* A move that takes no REGISTER.
Quiet(r, s) ==
  \/ s = r \/ Advances(r, s) \/ Greets(r, s) \/ HangsUp(r, s)
  \/ Answers(r, s) /\ Head(r.up).type # "REGISTER"

(***************************************************************************)
(* The methods of the registry keep its type.                              *)
(***************************************************************************)

\* What the server does is, for each client, a step of its server.
LEMMA ServerActions ==
  /\ Types /\ Waiting
  /\ Accept \/ SendWelcome \/ Restart \/ Crash \/ \E k \in Conns : Session(k)
  => Types' /\ Waiting' /\ \A c \in Clients : ServerStep(c)

<1>PutFields.
  ASSUME NEW r \in Connections, NEW f \in Frames
  PROVE  LET s == Put(r, f) IN
         /\ s \in Connections
         /\ s.link = r.link /\ s.srv = r.srv /\ s.up = r.up /\ s.active = r.active
         /\ s.down = IF r.link = "open" THEN Append(r.down, f) ELSE r.down
  <2>1. Append(r.down, f) \in Seq(Frames) BY SMT, ConnFields
  <2>2. Put(r, f) \in Connections BY <2>1 DEF Put, Connections
  <2>3. QED BY <2>2 DEF Put, Connections

<1>HangupFields.
  ASSUME NEW r \in Connections
  PROVE  LET s == Hangup(r) IN
         /\ s \in Connections
         /\ s.srv = "done" /\ s.up = <<>> /\ s.active = EmptyId /\ s.down = r.down
         /\ r.link = "open" => s.link \in {"fin", "reset"}
         /\ r.link # "open" => s.link = r.link
  <2>1. /\ "done" \in Phases /\ "fin" \in Links /\ "reset" \in Links
        /\ <<>> \in Seq(Requests)
    BY SMT DEF Phases, Links
  <2>2. Hangup(r) \in Connections BY <2>1 DEF Hangup, Connections
  <2>3. QED BY <2>2 DEF Hangup, Connections

<1>QuietMoves.
  ASSUME NEW r \in Connections, NEW s, Quiet(r, s)
  PROVE  Moves(r, s) /\ ~(Answers(r, s) /\ Head(r.up).type = "REGISTER")
  <2> USE <1>QuietMoves
  <2>1. r.up # <<>> => Len(Tail(r.up)) # Len(r.up) BY SMT, ConnFields, StreamRest
  <2>2. CASE s = r BY <2>1, <2>2 DEF Moves, Answers
  <2>3. CASE Advances(r, s) BY <2>3 DEF Moves, Answers, Advances
  <2>4. CASE Greets(r, s) BY <2>4 DEF Moves, Answers, Greets
  <2>5. CASE HangsUp(r, s) BY <2>5 DEF Moves, Answers, HangsUp
  <2>6. CASE Answers(r, s) /\ Head(r.up).type # "REGISTER" BY <2>6 DEF Moves
  <2>7. QED BY <2>2, <2>3, <2>4, <2>5, <2>6 DEF Quiet

<1>QuietStep.
  ASSUME Types, UNCHANGED progVars, decision' = decision,
         \A k \in Conns : Quiet(conn[k], conn'[k])
  PROVE  \A c \in Clients : ServerStep(c)
  <2> USE <1>QuietStep
  <2> SUFFICES ASSUME NEW c \in Clients PROVE ServerStep(c)
    OBVIOUS
  <2>1. ASSUME NEW i \in 0..MaxAttempts
        PROVE  LET r == conn[<<c, i>>]
                   s == conn'[<<c, i>>]
               IN Moves(r, s) /\ ~(Answers(r, s) /\ Head(r.up).type = "REGISTER")
    <3>1. <<c, i>> \in Conns BY DEF Conns
    <3>2. conn[<<c, i>>] \in Connections /\ Quiet(conn[<<c, i>>], conn'[<<c, i>>])
      BY <3>1 DEF Types
    <3>3. QED BY <3>2, <1>QuietMoves
  <2>2. attempt[c] \in 0..MaxAttempts BY DEF Types
  <2>3. Decides(c) BY <2>1, <2>2 DEF Decides, Cur
  <2>4. QED BY <2>1, <2>3 DEF ServerStep

<1>OneQuiet.
  ASSUME Types, NEW k \in Conns, NEW s \in Connections, conn' = [conn EXCEPT ![k] = s],
         Quiet(conn[k], s), UNCHANGED progVars, decision' = decision
  PROVE  \A c \in Clients : ServerStep(c)
  <2> USE <1>OneQuiet
  <2>1. \A j \in Conns : Quiet(conn[j], conn'[j])
    <3> SUFFICES ASSUME NEW j \in Conns PROVE Quiet(conn[j], conn'[j])
      OBVIOUS
    <3>1. conn'[k] = s /\ (j # k => conn'[j] = conn[j]) BY OneConn
    <3>2. QED BY <3>1 DEF Quiet
  <2>2. QED BY <2>1, <1>QuietStep

\* The variables of the programs keep their types.
<1>ServerTypes.
  ASSUME Types, UNCHANGED progVars
  PROVE  /\ program' \in [Clients -> Programs]
         /\ pc' \in [Clients -> {"start", "drain", "register", "query", "heartbeat",
                                 "menu", "retry", "exit"}]
         /\ asked' \in [Clients -> Commands \cup {"none"}]
         /\ attempt' \in [Clients -> 0..MaxAttempts]
         /\ left' \in [Clients -> 0..MaxCommands]
         /\ code' \in [Clients -> {"running", "success", "failure", "SIGPIPE"}]
         /\ shown' \in [Clients -> [cmd : Commands \cup {"none"},
                                    of : Commands \cup {"none", "welcome", "capacity"}]]
         /\ late' \in [Clients -> BOOLEAN]
  BY <1>ServerTypes DEF Types, progVars

<1>PhaseFields.
  ASSUME NEW r \in Connections, NEW p \in Phases
  PROVE  LET s == [r EXCEPT !.srv = p] IN
         /\ s \in Connections /\ s.srv = p
         /\ s.link = r.link /\ s.up = r.up /\ s.down = r.down /\ s.active = r.active
  <2>1. [r EXCEPT !.srv = p] \in Connections BY DEF Connections
  <2>2. QED BY <2>1 DEF Connections

\* A connection above m_maxClients: the ERROR, and the socket is closed.
<1>RefusedFields.
  ASSUME NEW r \in Connections, r.srv = "backlog"
  PROVE  LET s == Hangup(Put(r, AtCapacity)) IN
         s \in Connections /\ s.srv = "done" /\ HangsUp(r, s)
  <2> USE <1>RefusedFields
  <2> DEFINE t == Put(r, AtCapacity)
             s == Hangup(t)
  <2>1. AtCapacity \in Frames BY DEF AtCapacity, Frames
  <2>2. /\ t \in Connections /\ t.link = r.link
        /\ t.down = IF r.link = "open" THEN Append(r.down, AtCapacity) ELSE r.down
    BY <2>1, <1>PutFields
  <2> HIDE DEF t
  <2>3. /\ s \in Connections /\ s.srv = "done" /\ s.up = <<>> /\ s.down = t.down
        /\ t.link = "open" => s.link \in {"fin", "reset"}
        /\ t.link # "open" => s.link = t.link
    BY <2>2, <1>HangupFields
  <2> HIDE DEF s
  <2>4. HangsUp(r, s) BY <2>2, <2>3 DEF HangsUp
  <2>5. QED BY <2>3, <2>4 DEF s, t

\* The acceptor takes the first of the backlog.
<1>AcceptStep.
  ASSUME Types, Waiting, Accept
  PROVE  Types' /\ Waiting' /\ \A c \in Clients : ServerStep(c)
  <2> USE <1>AcceptStep
  <2> DEFINE k == Head(backlog)
             r == conn[k]
             full == Cardinality(In({"queued", "serving", "ending"})) >= MaxClients
             s == IF full THEN Hangup(Put(r, AtCapacity)) ELSE [r EXCEPT !.srv = "queued"]
  <2>1. /\ backlog # <<>> /\ backlog' = Tail(backlog)
        /\ conn' = [conn EXCEPT ![k] = s]
        /\ queue' = IF full THEN queue ELSE Append(queue, k)
        /\ UNCHANGED progVars /\ UNCHANGED <<running, restarts, m_entries, decision, displaced>>
    BY DEF Accept
  <2>2. backlog \in Seq(Conns) /\ queue \in Seq(Conns) BY DEF Types
  <2>3. k \in Elements(backlog) /\ Tail(backlog) \in Seq(Conns)
        /\ Elements(Tail(backlog)) = Elements(backlog) \ {k} /\ Injective(Tail(backlog))
    BY SMT, <2>1, <2>2, TailElements DEF Waiting
  <2>4. k \in Conns /\ r.srv = "backlog" BY <2>3 DEF Waiting, In
  <2>5. r \in Connections BY <2>4 DEF Types
  <2>6. s \in Connections /\ Quiet(r, s) /\ s.srv = IF full THEN "done" ELSE "queued"
    <3>1. CASE full
      <4>1. s = Hangup(Put(r, AtCapacity)) BY <3>1
      <4>2. s \in Connections /\ s.srv = "done" /\ HangsUp(r, s) BY <2>4, <2>5, <4>1, <1>RefusedFields
      <4>3. QED BY <3>1, <4>2 DEF Quiet
    <3>2. CASE ~full
      <4>1. s = [r EXCEPT !.srv = "queued"] BY <3>2
      <4> HIDE DEF s, full, r
      <4>2. s \in Connections /\ s.srv = "queued" /\ Advances(r, s)
        BY <2>4, <2>5, <4>1, <1>PhaseFields DEF Advances, Phases
      <4>3. QED BY <3>2, <4>2 DEF Quiet
    <3>3. QED BY <3>1, <3>2
  <2> HIDE DEF s, full, r, k
  <2>7. /\ conn' \in [Conns -> Connections]
        /\ In({"backlog"})' = In({"backlog"}) \ {k}
        /\ In({"queued"})' = IF full THEN In({"queued"}) \ {k} ELSE In({"queued"}) \cup {k}
    <3>1. /\ conn' \in [Conns -> Connections]
          /\ \A p : In({p})' = IF s.srv = p THEN In({p}) \cup {k} ELSE In({p}) \ {k}
      BY <2>1, <2>4, <2>6, OneConn
    <3>2. s.srv # "backlog" /\ (full => s.srv # "queued") /\ (~full => s.srv = "queued") BY <2>6
    <3>3. In({"backlog"})' = In({"backlog"}) \ {k} BY <3>1, <3>2
    <3>4. In({"queued"})' = IF full THEN In({"queued"}) \ {k} ELSE In({"queued"}) \cup {k}
      BY <3>1, <3>2
    <3>5. QED BY <3>1, <3>3, <3>4
  <2>8. k \notin In({"queued"}) BY <2>4 DEF In, r
  <2>9. queue' \in Seq(Conns) /\ Injective(queue') /\ Elements(queue') = In({"queued"})'
    <3>1. CASE full
      <4>1. queue' = queue /\ In({"queued"})' = In({"queued"}) \ {k} BY <2>1, <2>7, <3>1
      <4>2. In({"queued"})' = In({"queued"}) BY <2>8, <4>1
      <4>3. QED BY <2>2, <4>1, <4>2 DEF Waiting
    <3>2. CASE ~full
      <4>1. queue' = Append(queue, k) BY <2>1, <3>2
      <4>2. In({"queued"})' = In({"queued"}) \cup {k} BY <2>7, <3>2
      <4>3. Injective(queue) /\ Elements(queue) = In({"queued"}) BY DEF Waiting
      <4>4. QED BY <2>2, <2>4, <2>8, <4>1, <4>2, <4>3, Enqueue
    <3>3. QED BY <3>1, <3>2
  <2>10. Waiting' BY <2>1, <2>3, <2>7, <2>9 DEF Waiting
  <2>11. Types' BY <2>1, <2>3, <2>7, <2>9, <1>ServerTypes DEF Types
  <2>12. \A c \in Clients : ServerStep(c) BY <2>1, <2>4, <2>6, <1>OneQuiet DEF r
  <2>13. QED BY <2>10, <2>11, <2>12

<1>WaitingKept.
  ASSUME Types, Waiting, NEW k \in Conns, NEW s \in Connections,
         conn' = [conn EXCEPT ![k] = s], UNCHANGED <<backlog, queue>>,
         conn[k].srv \notin {"backlog", "queued"}, s.srv \notin {"backlog", "queued"}
  PROVE  Waiting'
  <2> USE <1>WaitingKept
  <2>1. ASSUME NEW p \in {"backlog", "queued"} PROVE In({p})' = In({p})
    <3>1. In({p})' = In({p}) \ {k} BY OneConn
    <3>2. k \notin In({p}) BY DEF In
    <3>3. QED BY <3>1, <3>2
  <2>2. QED BY <2>1 DEF Waiting

\* A worker takes the first of the queue and welcomes it, or finds it gone.
<1>SendWelcomeStep.
  ASSUME Types, Waiting, SendWelcome
  PROVE  Types' /\ Waiting' /\ \A c \in Clients : ServerStep(c)
  <2> USE <1>SendWelcomeStep
  <2> DEFINE k == Head(queue)
             r == conn[k]
  <2>1. /\ queue # <<>> /\ queue' = Tail(queue)
        /\ UNCHANGED progVars
        /\ UNCHANGED <<backlog, running, restarts, m_entries, decision, displaced>>
    BY DEF SendWelcome
  <2>2. queue \in Seq(Conns) BY DEF Types
  <2>3. k \in Elements(queue) /\ Tail(queue) \in Seq(Conns)
        /\ Elements(Tail(queue)) = Elements(queue) \ {k} /\ Injective(Tail(queue))
    BY SMT, <2>1, <2>2, TailElements DEF Waiting
  <2>4. k \in Conns /\ r.srv = "queued" BY <2>3 DEF Waiting, In
  <2>5. r \in Connections BY <2>4 DEF Types
  <2>6. PICK s \in Connections : /\ conn' = [conn EXCEPT ![k] = s] /\ Quiet(r, s)
                                 /\ s.srv \notin {"backlog", "queued"}
    <3>1. CASE conn' = [conn EXCEPT ![k] = [Put(@, Welcome) EXCEPT !.srv = "serving"]]
      <4> DEFINE t == Put(r, Welcome)
                 s == [t EXCEPT !.srv = "serving"]
      <4>1. conn' = [conn EXCEPT ![k] = s] BY <3>1
      <4>2. Welcome \in Frames BY DEF Welcome, Frames
      <4>3. /\ t \in Connections /\ t.link = r.link /\ t.up = r.up
            /\ t.down = IF r.link = "open" THEN Append(r.down, Welcome) ELSE r.down
        BY <2>5, <4>2, <1>PutFields
      <4> HIDE DEF t, r
      <4>4. /\ s \in Connections /\ s.srv = "serving"
            /\ s.link = t.link /\ s.up = t.up /\ s.down = t.down
        BY <4>3, <1>PhaseFields DEF Phases
      <4> HIDE DEF s
      <4>5. Greets(r, s) BY <2>4, <4>3, <4>4 DEF Greets
      <4>6. QED BY <4>1, <4>4, <4>5 DEF Quiet
    <3>2. CASE conn' = [conn EXCEPT ![k] = Hangup(@)]
      <4>1. conn' = [conn EXCEPT ![k] = Hangup(r)] BY <3>2
      <4>2. Hangup(r) \in Connections /\ Hangup(r).srv = "done" /\ HangsUp(r, Hangup(r))
        BY <2>4, <2>5, <1>HangupFields DEF HangsUp
      <4>3. QED BY <4>1, <4>2 DEF Quiet
    <3>3. QED BY <3>1, <3>2 DEF SendWelcome
  <2> HIDE DEF r, k
  <2>7. /\ conn' \in [Conns -> Connections]
        /\ In({"backlog"})' = In({"backlog"}) \ {k}
        /\ In({"queued"})' = In({"queued"}) \ {k}
    BY <2>4, <2>6, OneConn
  <2>8. k \notin In({"backlog"}) BY <2>4 DEF In, r
  <2>9. In({"backlog"})' = In({"backlog"}) BY <2>7, <2>8
  <2>10. Waiting' BY <2>1, <2>3, <2>7, <2>9 DEF Waiting
  <2>11. Types' BY <2>1, <2>3, <2>7, <1>ServerTypes DEF Types
  <2>12. \A c \in Clients : ServerStep(c) BY <2>1, <2>4, <2>6, <1>OneQuiet DEF r
  <2>13. QED BY <2>10, <2>11, <2>12

<1>RegistryTypes.
  ASSUME NEW entries \in Registries
  PROVE  /\ \A id \in NodeIds, entry \in NodeEntry :
              registerNode(entries, id, entry) \in Registries
         /\ \A id : setOffline(entries, id, Epoch) \in Registries
         /\ \A id : updateLastSeen(entries, id, Epoch) \in Registries
         /\ NoEntries \in Registries
  <2>1. DOMAIN entries \in SUBSET NodeIds /\ \A n \in DOMAIN entries : entries[n] \in NodeEntry
    BY DEF Registries
  <2>2. ASSUME NEW id \in NodeIds, NEW entry \in NodeEntry
        PROVE  registerNode(entries, id, entry) \in Registries
    <3> DEFINE new == [entry EXCEPT !.status = "ONLINE"]
               D == DOMAIN entries \cup {id}
    <3>1. new \in NodeEntry BY DEF NodeEntry, Status
    <3> HIDE DEF new
    <3>2. WithEntry(entries, id, new) \in [D -> NodeEntry] BY <2>1, <3>1 DEF WithEntry
    <3>3. D \in SUBSET NodeIds BY <2>1
    <3>4. WithEntry(entries, id, new) \in Registries BY <3>2, <3>3 DEF Registries
    <3>5. QED BY <3>4 DEF registerNode, new
  <2>3. ASSUME NEW id
        PROVE  /\ setOffline(entries, id, Epoch) \in Registries
               /\ updateLastSeen(entries, id, Epoch) \in Registries
    BY <2>1, RegistryAssumption
       DEF setOffline, updateLastSeen, updateLastSeenResult, contains, isOnline,
           Registries, NodeEntry, Status
  <2>4. NoEntries \in [{} -> NodeEntry] BY DEF NoEntries
  <2>5. NoEntries \in Registries BY <2>4 DEF Registries
  <2>6. QED BY <2>2, <2>3, <2>5

<1>EndSessionStep.
  ASSUME Types, Waiting, NEW k \in Conns, EndSession(k)
  PROVE  Types' /\ Waiting' /\ \A c \in Clients : ServerStep(c)
  <2> USE <1>EndSessionStep
  <2> DEFINE r == conn[k]
             s == [r EXCEPT !.srv = "ending"]
  <2>1. /\ r.srv = "serving" /\ conn' = [conn EXCEPT ![k] = s]
        /\ m_entries' = setOffline(m_entries, r.active, Epoch)
        /\ displaced' = displaced \ {r.active}
        /\ UNCHANGED progVars /\ UNCHANGED <<backlog, queue, running, restarts, decision>>
    BY DEF EndSession
  <2>2. r \in Connections BY DEF Types
  <2> HIDE DEF r
  <2>3. /\ s \in Connections /\ s.srv = "ending"
        /\ s.link = r.link /\ s.up = r.up /\ s.down = r.down
    BY <2>2, <1>PhaseFields DEF Phases
  <2> HIDE DEF s
  <2>4. Quiet(r, s) BY <2>1, <2>3 DEF Quiet, Advances
  <2>5. Waiting' BY <2>1, <2>3, <1>WaitingKept DEF r
  <2>6. conn' \in [Conns -> Connections] BY <2>1, <2>3, OneConn
  <2>7. m_entries' \in Registries BY <2>1, <1>RegistryTypes DEF Types
  <2>8. Types' BY <2>1, <2>6, <2>7, <1>ServerTypes DEF Types
  <2>9. QED BY <2>1, <2>3, <2>4, <2>5, <2>8, <1>OneQuiet DEF r

<1>CloseSessionStep.
  ASSUME Types, Waiting, NEW k \in Conns, CloseSession(k)
  PROVE  Types' /\ Waiting' /\ \A c \in Clients : ServerStep(c)
  <2> USE <1>CloseSessionStep
  <2> DEFINE r == conn[k]
             s == Hangup(r)
  <2>1. /\ r.srv = "ending" /\ conn' = [conn EXCEPT ![k] = s]
        /\ UNCHANGED progVars
        /\ UNCHANGED <<backlog, queue, running, restarts, m_entries, decision, displaced>>
    BY DEF CloseSession, serverVars
  <2>2. r \in Connections BY DEF Types
  <2>3. s \in Connections /\ s.srv = "done" /\ HangsUp(r, s)
    BY <2>1, <2>2, <1>HangupFields DEF HangsUp
  <2> HIDE DEF r, s
  <2>4. Quiet(r, s) BY <2>3 DEF Quiet
  <2>5. Waiting' BY <2>1, <2>3, <1>WaitingKept DEF r
  <2>6. conn' \in [Conns -> Connections] BY <2>1, <2>3, OneConn
  <2>7. Types' BY <2>1, <2>6, <1>ServerTypes DEF Types
  <2>8. QED BY <2>1, <2>3, <2>4, <2>5, <2>7, <1>OneQuiet DEF r

<1>RestartStep.
  ASSUME Types, Waiting, Restart
  PROVE  Types' /\ Waiting' /\ \A c \in Clients : ServerStep(c)
  <2> USE <1>RestartStep
  <2>1. /\ running' = TRUE /\ UNCHANGED progVars
        /\ UNCHANGED <<conn, backlog, queue, restarts, m_entries, decision, displaced>>
    BY DEF Restart
  <2>2. Types' BY <2>1, <1>ServerTypes DEF Types
  <2>3. Waiting' BY <2>1 DEF Waiting, In
  <2>4. \A k \in Conns : Quiet(conn[k], conn'[k]) BY <2>1 DEF Quiet
  <2>5. QED BY <2>1, <2>2, <2>3, <2>4, <1>QuietStep

\* The process dies: every connection it had is closed.
<1>CrashStep.
  ASSUME Types, Waiting, Crash
  PROVE  Types' /\ Waiting' /\ \A c \in Clients : ServerStep(c)
  <2> USE <1>CrashStep
  <2>1. /\ running' = FALSE /\ restarts < MaxRestarts /\ restarts' = restarts + 1
        /\ m_entries' = NoEntries /\ backlog' = <<>> /\ queue' = <<>> /\ displaced' = {}
        /\ UNCHANGED progVars /\ decision' = decision
    BY DEF Crash
  <2>2. PICK lost \in SUBSET {k \in In(Phases \ {"none", "done"}) : conn[k].link = "open"} :
          conn' = [k \in Conns |->
            IF k \in lost THEN [Hangup(conn[k]) EXCEPT !.link = "reset", !.down = <<>>]
            ELSE IF conn[k].srv = "none" THEN conn[k] ELSE Hangup(conn[k])]
    BY DEF Crash
  <2>3. ASSUME NEW k \in Conns
        PROVE  /\ conn'[k] \in Connections /\ Quiet(conn[k], conn'[k])
               /\ conn'[k].srv \notin {"backlog", "queued"}
    <3> DEFINE r == conn[k]
               t == Hangup(r)
    <3>1. r \in Connections BY DEF Types
    <3>2. conn'[k] = IF k \in lost THEN [t EXCEPT !.link = "reset", !.down = <<>>]
                     ELSE IF r.srv = "none" THEN r ELSE t
      BY <2>2
    <3>3. k \in lost => r.link = "open" /\ r.srv \in Phases \ {"none", "done"}
      BY <2>2 DEF In
    <3> HIDE DEF r
    <3>4. /\ t \in Connections
          /\ t.srv = "done" /\ t.up = <<>> /\ t.down = r.down
          /\ r.link = "open" => t.link \in {"fin", "reset"}
          /\ r.link # "open" => t.link = r.link
      BY <3>1, <1>HangupFields
    <3> HIDE DEF t
    <3>5. CASE k \in lost
      <4> DEFINE s == [t EXCEPT !.link = "reset", !.down = <<>>]
      <4>1. "reset" \in Links /\ <<>> \in Seq(Frames) BY SMT DEF Links
      <4>2. s \in Connections BY <3>4, <4>1 DEF Connections
      <4>3. s.srv = "done" /\ s.up = <<>> /\ s.link = "reset" /\ s.down = <<>>
        BY <3>4 DEF Connections
      <4>4. conn'[k] = s BY <3>2, <3>5
      <4> HIDE DEF s
      <4>5. HangsUp(r, s) BY <3>3, <3>5, <4>3 DEF HangsUp
      <4>6. QED BY <4>2, <4>3, <4>4, <4>5 DEF Quiet, r
    <3>6. CASE k \notin lost /\ r.srv = "none" BY <3>1, <3>2, <3>6 DEF Quiet, r
    <3>7. CASE k \notin lost /\ r.srv # "none"
      <4>1. HangsUp(r, t) BY <3>4, <3>7 DEF HangsUp
      <4>2. QED BY <3>2, <3>4, <3>7, <4>1 DEF Quiet, r
    <3>8. QED BY <3>5, <3>6, <3>7
  <2>4. conn' \in [Conns -> Connections] BY <2>2, <2>3
  <2>5. <<>> \in Seq(Conns) /\ Injective(<<>>) /\ Elements(<<>>) = {}
    BY SMT DEF Injective, Elements
  <2>6. In({"backlog"})' = {} /\ In({"queued"})' = {} BY <2>3 DEF In
  <2>7. Waiting' BY <2>1, <2>5, <2>6 DEF Waiting
  <2>8. restarts' \in 0..MaxRestarts BY SMT, <2>1, ProgramsAssumption DEF Types
  <2>9. m_entries' \in Registries BY <2>1, <1>RegistryTypes DEF Types
  <2>10. Types' BY <2>1, <2>4, <2>5, <2>8, <2>9, <1>ServerTypes DEF Types
  <2>11. QED BY <2>1, <2>3, <2>7, <2>10, <1>QuietStep

\* A request is taken off the stream and its answer put on the other.
<1>AnsweredFields.
  ASSUME NEW r \in Connections, r.srv = "serving", r.up # <<>>,
         NEW f \in Frames, f.of = Head(r.up).type, Head(r.up).type # "HEARTBEAT"
  PROVE  LET s == Put([r EXCEPT !.up = Tail(@)], f) IN
         /\ s \in Connections /\ s.srv = "serving" /\ Answers(r, s)
         /\ r.link = "open" => s.down[Len(s.down)] = f
  <2> USE <1>AnsweredFields
  <2> DEFINE t == [r EXCEPT !.up = Tail(@)]
             s == Put(t, f)
  <2>1. Tail(r.up) \in Seq(Requests) /\ r.down \in Seq(Frames) BY ConnFields, StreamRest
  <2>2. t \in Connections BY <2>1 DEF Connections
  <2>3. /\ t.link = r.link /\ t.srv = r.srv /\ t.up = Tail(r.up) /\ t.down = r.down
    BY <2>1 DEF Connections
  <2> HIDE DEF t
  <2>4. /\ s \in Connections /\ s.link = t.link /\ s.srv = t.srv /\ s.up = t.up
        /\ s.down = IF t.link = "open" THEN Append(t.down, f) ELSE t.down
    BY <2>2, <1>PutFields
  <2> HIDE DEF s
  <2>5. Answers(r, s) BY <2>3, <2>4 DEF Answers
  <2>6. r.link = "open" => s.down[Len(s.down)] = f BY SMT, <2>1, <2>3, <2>4, StreamAppend
  <2>7. QED BY <2>3, <2>4, <2>5, <2>6 DEF s, t

<1>ActiveFields.
  ASSUME NEW r \in Connections, NEW id \in NodeIds
  PROVE  LET s == [r EXCEPT !.active = id] IN
         /\ s \in Connections
         /\ s.link = r.link /\ s.srv = r.srv /\ s.up = r.up /\ s.down = r.down
  <2>1. [r EXCEPT !.active = id] \in Connections BY DEF Connections
  <2>2. QED BY <2>1 DEF Connections

\* A REGISTER: the registry decides, the answer says what it decided.
<1>RegisterStep.
  ASSUME Types, UNCHANGED progVars, NEW k \in Conns, NEW s \in Connections,
         conn' = [conn EXCEPT ![k] = s],
         Answers(conn[k], s), Head(conn[k].up).type = "REGISTER", NEW result,
         conn[k].link = "open" =>
           s.down[Len(s.down)].type = IF result = "OK" THEN "ACK" ELSE "ERROR",
         decision' = IF k = Cur(k[1]) THEN Set(decision, k[1], result) ELSE decision
  PROVE  \A c \in Clients : ServerStep(c)
  <2> USE <1>RegisterStep
  <2> SUFFICES ASSUME NEW c \in Clients PROVE ServerStep(c)
    OBVIOUS
  <2>1. conn'[k] = s /\ \A j \in Conns : j # k => conn'[j] = conn[j] BY OneConn
  <2>2. Cur(c) \in Conns /\ attempt[c] \in 0..MaxAttempts /\ Cur(c)[1] = c /\ k[1] \in Clients
    BY DEF Types, Cur, Conns
  <2>3. \A i \in 0..MaxAttempts : Moves(conn[<<c, i>>], conn'[<<c, i>>])
    <3> SUFFICES ASSUME NEW i \in 0..MaxAttempts PROVE Moves(conn[<<c, i>>], conn'[<<c, i>>])
      OBVIOUS
    <3>1. <<c, i>> \in Conns BY DEF Conns
    <3>2. QED BY <2>1, <3>1 DEF Moves
  <2>4. CASE k = Cur(c)
    <3>1. decision'[c] = result BY <2>2, <2>4 DEF Types, Set
    <3>2. Decides(c) BY <2>1, <2>4, <3>1 DEF Decides
    <3>3. QED BY <2>3, <3>2 DEF ServerStep
  <2>5. CASE k # Cur(c)
    <3>1. decision'[c] = decision[c] BY <2>2, <2>5 DEF Types, Set
    <3>2. conn[Cur(c)] \in Connections /\ conn'[Cur(c)] = conn[Cur(c)] BY <2>1, <2>2, <2>5 DEF Types
    <3>3. ~(Answers(conn[Cur(c)], conn'[Cur(c)]) /\ Head(conn[Cur(c)].up).type = "REGISTER")
      BY <3>2, <1>QuietMoves DEF Quiet
    <3>4. Decides(c) BY <3>1, <3>3 DEF Decides
    <3>5. QED BY <2>3, <3>4 DEF ServerStep
  <2>6. QED BY <2>4, <2>5

<1>HandleFrameStep.
  ASSUME Types, Waiting, NEW k \in Conns, HandleFrame(k)
  PROVE  Types' /\ Waiting' /\ \A c \in Clients : ServerStep(c)
  <2> USE <1>HandleFrameStep
  <2> DEFINE r == conn[k]
             req == Head(r.up)
             rest == [r EXCEPT !.up = Tail(@)]
             answer(good) == [type |-> IF good THEN "ACK" ELSE "ERROR", of |-> req.type]
             result == registerResult(m_entries, req.id)
             entry == [status |-> "ONLINE", last_seen_at |-> Epoch, meta |-> k[1]]
  <2>1. /\ r.srv = "serving" /\ r.up # <<>>
        /\ UNCHANGED progVars /\ UNCHANGED <<backlog, queue, running, restarts>>
    BY DEF HandleFrame
  <2>2. r \in Connections /\ k[1] \in Clients BY DEF Types, Conns
  <2>3. req \in Requests BY <2>1, <2>2, ConnFields, StreamRest
  <2>4. req.type \in Commands BY <2>3 DEF Requests, Commands
  <2>5. \A good \in BOOLEAN : answer(good) \in Frames /\ answer(good).of = req.type
    BY <2>4 DEF Frames
  <2>6. /\ r.link \in Links /\ displaced \subseteq NodeIds /\ m_entries \in Registries
        /\ decision \in [Clients -> {"none", "OK", "ERR_DUPLICATE"}]
    BY <2>2, ConnFields DEF Types
  <2> DEFINE Fine(s) == /\ s \in Connections /\ conn' = [conn EXCEPT ![k] = s]
                        /\ s.srv = "serving" /\ m_entries' \in Registries
                        /\ decision' \in [Clients -> {"none", "OK", "ERR_DUPLICATE"}]
                        /\ displaced' \subseteq NodeIds
                        /\ \A c \in Clients : ServerStep(c)
  <2>7. ASSUME NEW s, Fine(s)
        PROVE  Types' /\ Waiting' /\ \A c \in Clients : ServerStep(c)
    <3>1. conn' \in [Conns -> Connections] BY <2>7, OneConn
    <3>2. Types' BY <2>1, <2>7, <3>1, <1>ServerTypes DEF Types
    <3>3. Waiting' BY <2>1, <2>7, <1>WaitingKept
    <3>4. QED BY <2>7, <3>2, <3>3
  <2>8. ASSUME NEW f \in Frames, f.of = req.type, req.type # "HEARTBEAT",
               req.type # "REGISTER",
               conn' = [conn EXCEPT ![k] = Put(rest, f)],
               UNCHANGED <<m_entries, decision, displaced>>
        PROVE  Types' /\ Waiting' /\ \A c \in Clients : ServerStep(c)
    <3> DEFINE s == Put(rest, f)
    <3>1. s \in Connections /\ s.srv = "serving" /\ Answers(r, s)
      BY <2>1, <2>2, <2>8, <1>AnsweredFields
    <3> HIDE DEF s
    <3>2. Quiet(r, s) BY <2>8, <3>1 DEF Quiet
    <3>3. conn' = [conn EXCEPT ![k] = s] BY <2>8 DEF s
    <3>4. \A c \in Clients : ServerStep(c) BY <2>1, <2>8, <3>1, <3>2, <3>3, <1>OneQuiet
    <3>5. Fine(s) BY <2>6, <2>8, <3>1, <3>3, <3>4
    <3>6. QED BY <2>7, <3>5
  <2>9. CASE /\ req.type = "REGISTER"
             /\ m_entries' = registerNode(m_entries, req.id, entry)
             /\ conn' = [conn EXCEPT ![k] =
                  [Put(rest, answer(result = "OK")) EXCEPT !.active = req.id]]
             /\ decision' = IF k = Cur(k[1]) THEN Set(decision, k[1], result) ELSE decision
             /\ displaced' = (displaced \cup {n \in NodeIds : n = r.active /\ n # req.id})
                               \ (IF result = "OK" THEN {req.id} ELSE {})
    <3> DEFINE f == answer(result = "OK")
               t == Put(rest, f)
               s == [t EXCEPT !.active = req.id]
    <3>1. req.id \in NodeIds BY <2>3, <2>9 DEF Requests
    <3>2. entry \in NodeEntry
      BY <2>2, ProgramsAssumption, RegistryAssumption DEF NodeEntry, Status
    <3>3. m_entries' \in Registries BY <2>6, <2>9, <3>1, <3>2, <1>RegistryTypes
    <3>4. result \in {"OK", "ERR_DUPLICATE"} BY DEF registerResult
    <3>5. decision' \in [Clients -> {"none", "OK", "ERR_DUPLICATE"}]
      BY <2>2, <2>6, <2>9, <3>4 DEF Set
    <3>6. displaced' \subseteq NodeIds BY <2>6, <2>9
    <3>7. f \in Frames /\ f.of = req.type /\ f.type = IF result = "OK" THEN "ACK" ELSE "ERROR"
      BY <2>5
    <3> HIDE DEF f, result
    <3>8. /\ t \in Connections /\ t.srv = "serving" /\ Answers(r, t)
          /\ r.link = "open" => t.down[Len(t.down)] = f
      BY <2>1, <2>2, <2>9, <3>7, <1>AnsweredFields
    <3> HIDE DEF t
    <3>9. /\ s \in Connections
          /\ s.link = t.link /\ s.srv = t.srv /\ s.up = t.up /\ s.down = t.down
      BY <3>1, <3>8, <1>ActiveFields
    <3>10. conn' = [conn EXCEPT ![k] = s] BY <2>9 DEF t, f
    <3> HIDE DEF s
    <3>11. Answers(r, s) BY <3>8, <3>9 DEF Answers
    <3>12. r.link = "open" => s.down[Len(s.down)].type = IF result = "OK" THEN "ACK" ELSE "ERROR"
      BY <3>7, <3>8, <3>9
    <3>13. \A c \in Clients : ServerStep(c)
      BY <2>1, <2>9, <3>9, <3>10, <3>11, <3>12, <1>RegisterStep
    <3>14. Fine(s) BY <3>3, <3>5, <3>6, <3>8, <3>9, <3>10, <3>13
    <3>15. QED BY <2>7, <3>14
  <2>10. CASE /\ req.type = "QUERY_NODE"
             /\ conn' = [conn EXCEPT ![k] = Put(rest, answer(contains(m_entries, req.id)))]
             /\ UNCHANGED <<m_entries, decision, displaced>>
    <3>1. contains(m_entries, req.id) \in BOOLEAN BY SMT DEF contains
    <3>2. QED BY <2>5, <2>8, <2>10, <3>1
  <2>11. CASE /\ req.type = "LIST_NODES"
              /\ conn' = [conn EXCEPT ![k] = Put(rest, answer(TRUE))]
              /\ UNCHANGED <<m_entries, decision, displaced>>
    BY <2>5, <2>8, <2>11
  <2>12. CASE /\ req.type = "HEARTBEAT"
              /\ m_entries' = updateLastSeen(m_entries, r.active, Epoch)
              /\ conn' = [conn EXCEPT ![k] = rest]
              /\ UNCHANGED <<decision, displaced>>
    <3>1. Tail(r.up) \in Seq(Requests) BY <2>1, <2>2, ConnFields, StreamRest
    <3>2. rest \in Connections BY <2>2, <3>1 DEF Connections
    <3>3. rest.link = r.link /\ rest.srv = r.srv /\ rest.up = Tail(r.up) /\ rest.down = r.down
      BY <2>2, <3>1 DEF Connections
    <3>4. m_entries' \in Registries BY <2>6, <2>12, <1>RegistryTypes
    <3> HIDE DEF rest
    <3>5. Quiet(r, rest) BY <2>1, <2>12, <3>3 DEF Quiet, Answers
    <3>6. \A c \in Clients : ServerStep(c) BY <2>1, <2>12, <3>2, <3>5, <1>OneQuiet
    <3>7. Fine(rest) BY <2>1, <2>6, <2>12, <3>2, <3>3, <3>4, <3>6
    <3>8. QED BY <2>7, <3>7
  <2>13. QED BY <2>9, <2>10, <2>11, <2>12 DEF HandleFrame

<1>q. QED
  BY <1>AcceptStep, <1>SendWelcomeStep, <1>RestartStep, <1>CrashStep, <1>HandleFrameStep, <1>EndSessionStep,
     <1>CloseSessionStep DEF Session

(***************************************************************************)
(* The steps of a program change nothing of the other clients.             *)
(***************************************************************************)
Kept(d) ==
  /\ program'[d] = program[d] /\ pc'[d] = pc[d] /\ asked'[d] = asked[d]
  /\ attempt'[d] = attempt[d] /\ left'[d] = left[d] /\ code'[d] = code[d]
  /\ shown'[d] = shown[d] /\ late'[d] = late[d] /\ decision'[d] = decision[d]
  /\ \A i \in 0..MaxAttempts : conn'[<<d, i>>] = conn[<<d, i>>]

\* A step of the program of client c.
Steps(c) == Types' /\ Waiting' /\ Local(c)' /\ \A d \in Clients : d # c => Kept(d)

LEMMA KeptLocal ==
  ASSUME Types, NEW d \in Clients, Local(d), Kept(d)
  PROVE  Local(d)'
<1>1. attempt[d] \in 0..MaxAttempts BY DEF Types
<1>2. Cur(d)' = Cur(d) /\ conn'[Cur(d)'] = conn[Cur(d)] BY SMT, <1>1 DEF Cur, Kept
<1>3. Shape(d)' BY <1>2 DEF Local, Shape, Kept
<1>4. Budget(d)' BY <1>2 DEF Local, Budget, Demo, Probe, Sent, Kept
<1>5. Synced(d)' BY <1>2 DEF Local, Synced, ShownRight, Kept
<1>6. Registered(d)' BY <1>2 DEF Local, Registered, Kept
<1>7. QED BY <1>3, <1>4, <1>5, <1>6 DEF Local

LEMMA SetFields ==
  ASSUME NEW S, NEW f \in [Clients -> S], NEW c \in Clients, NEW v \in S
  PROVE  /\ Set(f, c, v) \in [Clients -> S] /\ Set(f, c, v)[c] = v
         /\ \A d \in Clients : d # c => Set(f, c, v)[d] = f[d]
BY DEF Set

\* The program's own connection changes.
LEMMA OwnConn ==
  ASSUME Types, NEW c \in Clients, NEW s \in Connections, conn' = [conn EXCEPT ![Cur(c)] = s]
  PROVE  /\ conn' \in [Conns -> Connections] /\ conn'[Cur(c)] = s
         /\ \A i \in 0..MaxAttempts : i # attempt[c] => conn'[<<c, i>>] = conn[<<c, i>>]
         /\ \A d \in Clients, i \in 0..MaxAttempts :
              d # c => conn'[<<d, i>>] = conn[<<d, i>>]
<1>1. Cur(c) \in Conns BY DEF Types, Cur, Conns
<1>2. conn' \in [Conns -> Connections] /\ conn'[Cur(c)] = s
      /\ \A j \in Conns : j # Cur(c) => conn'[j] = conn[j]
  BY <1>1, OneConn
<1>3. \A d \in Clients, i \in 0..MaxAttempts :
        <<d, i>> \in Conns /\ (d # c \/ i # attempt[c] => <<d, i>> # Cur(c))
  BY DEF Conns, Cur
<1>4. QED BY <1>2, <1>3

LEMMA WaitingSame ==
  ASSUME Types, Waiting, NEW k \in Conns, NEW s \in Connections,
         conn' = [conn EXCEPT ![k] = s], s.srv = conn[k].srv, UNCHANGED <<backlog, queue>>
  PROVE  Waiting'
<1>1. \A j \in Conns : conn'[j].srv = conn[j].srv BY OneConn
<1>2. In({"backlog"})' = In({"backlog"}) /\ In({"queued"})' = In({"queued"})
  BY <1>1 DEF In
<1>3. QED BY <1>2 DEF Waiting

LEMMA OwnCur ==
  ASSUME Types, NEW c \in Clients, Shape(c)
  PROVE  /\ attempt[c] \in 0..MaxAttempts /\ Cur(c) = <<c, attempt[c]>> /\ Cur(c) \in Conns
         /\ conn[Cur(c)] \in Connections /\ Ends(conn[Cur(c)])
         /\ Sent(c) \in {0, 1} /\ left[c] \in Nat /\ MaxCommands \in Nat
<1>1. attempt[c] \in 0..MaxAttempts /\ Cur(c) = <<c, attempt[c]>> /\ Cur(c) \in Conns
      /\ left[c] \in Nat /\ MaxCommands \in Nat
  BY SMT, ProgramsAssumption DEF Types, Cur, Conns
<1>2. QED BY <1>1 DEF Types, Shape, Sent

\* A program that ends closes its connection.
Ended(c) ==
  /\ pc'[c] = "exit" /\ asked'[c] = "none" /\ code'[c] # "running"
  /\ program'[c] = program[c] /\ attempt'[c] = attempt[c]
  /\ left'[c] \in Nat /\ left'[c] <= left[c]
  /\ conn'[Cur(c)] \in Connections
  /\ \A i \in 0..MaxAttempts : i # attempt[c] => conn'[<<c, i>>] = conn[<<c, i>>]
  /\ conn'[Cur(c)].srv = conn[Cur(c)].srv /\ conn'[Cur(c)].up = conn[Cur(c)].up
  /\ conn'[Cur(c)].link = IF conn[Cur(c)].link = "none" THEN "none" ELSE "closed"
  /\ conn'[Cur(c)].down = <<>>

LEMMA EndedLocal ==
  ASSUME Types, NEW c \in Clients, Local(c), Ended(c)
  PROVE  Shape(c)' /\ Budget(c)'
<1> DEFINE r == conn[Cur(c)]
           s == conn'[Cur(c)]
<1>1. Shape(c) /\ Budget(c) BY DEF Local
<1>2. /\ attempt[c] \in 0..MaxAttempts /\ Cur(c) = <<c, attempt[c]>> /\ Cur(c) \in Conns
      /\ r \in Connections /\ Ends(r)
      /\ Sent(c) \in {0, 1} /\ left[c] \in Nat /\ MaxCommands \in Nat
  BY <1>1, OwnCur
<1>3. /\ pc'[c] = "exit" /\ asked'[c] = "none" /\ code'[c] # "running"
      /\ program'[c] = program[c] /\ attempt'[c] = attempt[c]
      /\ left'[c] \in Nat /\ left'[c] <= left[c]
      /\ \A i \in 0..MaxAttempts : i # attempt[c] => conn'[<<c, i>>] = conn[<<c, i>>]
      /\ s \in Connections
      /\ s.srv = r.srv /\ s.up = r.up /\ s.down = <<>>
      /\ s.link = IF r.link = "none" THEN "none" ELSE "closed"
  BY DEF Ended
<1>4. Cur(c)' = Cur(c) /\ conn'[Cur(c)'] = s BY <1>3 DEF Cur
<1>5. Ends(s) BY <1>2, <1>3 DEF Ends
<1>6. ASSUME NEW i \in 0..MaxAttempts
      PROVE  /\ Ends(conn'[<<c, i>>])
             /\ conn'[<<c, i>>].link \in {"none", "closed"}
             /\ i > attempt[c] => conn'[<<c, i>>] = NoConn
             /\ Fits(conn'[<<c, i>>])
  <2>1. CASE i = attempt[c]
    <3>1. conn'[<<c, i>>] = s BY <1>2, <2>1
    <3>2. Fits(r) BY <1>1, <1>2 DEF Budget
    <3>3. Fits(s) BY <1>3, <3>2, DroppedFits
    <3>4. ~(i > attempt[c]) BY <2>1, UpTo, ProgramsAssumption
    <3>5. QED BY <1>3, <1>5, <3>1, <3>3, <3>4
  <2>2. CASE i # attempt[c]
    <3>1. conn'[<<c, i>>] = conn[<<c, i>>] BY <1>3, <2>2
    <3>2. i > attempt[c] \/ i < attempt[c] BY SMT, <1>2, <2>2
    <3>3. QED BY SMT, <1>1, <3>1, <3>2 DEF Shape, Budget, NoConn
  <2>3. QED BY <2>1, <2>2
<1>7. pc'[c] \in PlacesIn(program'[c]) /\ asked'[c] \in AskedAt(pc'[c])
  BY <1>3 DEF PlacesIn, AskedAt
<1>8. Shape(c)'
  BY <1>1, <1>3, <1>4, <1>6, <1>7 DEF Shape
<1>9. Sent(c)' = 1 BY <1>3 DEF Sent
<1>10. s.link # "open" BY <1>3
<1>11. Len(r.up) \in Nat BY <1>2, OwedType
<1>12. program[c] = "eop_demo" => Demo(c, r) BY <1>1 DEF Budget
<1> HIDE DEF r, s
<1>13. program[c] = "eop_demo" => Demo(c, conn[Cur(c)])'
  <2>1. program[c] = "eop_demo" => Len(r.up) + left[c] <= MaxCommands + Sent(c)
    BY <1>12 DEF Demo
  <2>2. program[c] = "eop_demo" => Len(r.up) + left'[c] <= MaxCommands + 1
    BY SMT, <1>2, <1>3, <1>11, <2>1
  <2>3. QED BY <1>3, <1>4, <1>9, <1>10, <2>2, Fresh DEF Demo
<1>14. Probe(c, conn[Cur(c)])' BY <1>3, <1>4, <1>9, <1>10, Fresh DEF Probe
<1>15. Budget(c)' BY <1>1, <1>3, <1>6, <1>13, <1>14 DEF Budget
<1>16. QED BY <1>8, <1>15

LEMMA ExitStep ==
  ASSUME Types, Waiting, NEW c \in Clients, Local(c), asked[c] = "none",
         NEW how \in {"success", "failure", "SIGPIPE"}, Exit(c, how),
         program[c] = "connect_basic" => how # "success",
         UNCHANGED <<program, asked, attempt, late>>,
         left' \in [Clients -> 0..MaxCommands], left'[c] <= left[c],
         \A d \in Clients : d # c => left'[d] = left[d],
         shown' = shown \/ shown' = Set(shown, c, Nothing),
         UNCHANGED serverVars
  PROVE  Steps(c)
<1> DEFINE r == conn[Cur(c)]
           s == CloseLink(r)
<1>1. Shape(c) /\ Synced(c) /\ Registered(c) BY DEF Local
<1>2. /\ Cur(c) = <<c, attempt[c]>> /\ Cur(c) \in Conns /\ r \in Connections /\ Ends(r)
  BY <1>1, OwnCur
<1>3. /\ pc' = Set(pc, c, "exit") /\ code' = Set(code, c, how)
      /\ conn' = [conn EXCEPT ![Cur(c)] = s]
  BY DEF Exit
<1>4. /\ s \in Connections /\ s.srv = r.srv /\ s.up = r.up
      /\ r.link = "none" => s = r
      /\ r.link # "none" => s.link = "closed" /\ s.down = <<>>
  BY <1>2, CloseFields
<1> HIDE DEF s
<1>5. /\ pc' \in [Clients -> {"start", "drain", "register", "query", "heartbeat",
                              "menu", "retry", "exit"}]
      /\ pc'[c] = "exit" /\ \A d \in Clients : d # c => pc'[d] = pc[d]
  BY <1>3 DEF Types, Set
<1>6. /\ code' \in [Clients -> {"running", "success", "failure", "SIGPIPE"}]
      /\ code'[c] = how /\ \A d \in Clients : d # c => code'[d] = code[d]
  BY <1>3 DEF Types, Set
<1>7. /\ shown' \in [Clients -> [cmd : Commands \cup {"none"},
                                 of : Commands \cup {"none", "welcome", "capacity"}]]
      /\ shown'[c] \in {shown[c], Nothing} /\ \A d \in Clients : d # c => shown'[d] = shown[d]
  <2> DEFINE Shows == [cmd : Commands \cup {"none"},
                       of : Commands \cup {"none", "welcome", "capacity"}]
  <2>1. Nothing \in Shows /\ shown \in [Clients -> Shows] BY DEF Nothing, Types
  <2> HIDE DEF Shows
  <2>2. /\ Set(shown, c, Nothing) \in [Clients -> Shows] /\ Set(shown, c, Nothing)[c] = Nothing
        /\ \A d \in Clients : d # c => Set(shown, c, Nothing)[d] = shown[d]
    BY <2>1 DEF Set
  <2>3. QED BY <2>1, <2>2 DEF Shows
<1>8. /\ conn' \in [Conns -> Connections] /\ conn'[Cur(c)] = s
      /\ \A i \in 0..MaxAttempts : i # attempt[c] => conn'[<<c, i>>] = conn[<<c, i>>]
      /\ \A d \in Clients, i \in 0..MaxAttempts : d # c => conn'[<<d, i>>] = conn[<<d, i>>]
  BY <1>3, <1>4, OwnConn
<1>9. UNCHANGED <<backlog, queue, running, restarts, m_entries, decision, displaced>>
  BY DEF serverVars
<1>10. Types' BY <1>5, <1>6, <1>7, <1>8, <1>9 DEF Types
<1>11. Waiting' BY <1>2, <1>3, <1>4, <1>9, WaitingSame
<1>12. Ended(c)
  <2>1. left'[c] \in Nat BY SMT, ProgramsAssumption
  <2>2. QED BY <1>2, <1>4, <1>5, <1>6, <1>8, <2>1 DEF Ended, Ends
<1>13. Shape(c)' /\ Budget(c)' BY <1>12, EndedLocal
<1>14. Synced(c)'
  <2>1. program[c] # "probe" /\ ~late[c] => ShownRight(c)'
    <3>1. Nothing.cmd = Nothing.of BY DEF Nothing
    <3>2. QED BY <1>1, <1>7, <3>1 DEF Synced, ShownRight
  <2>2. QED BY ZenonT(30), <1>5, <2>1 DEF Synced
<1>15. Registered(c)' BY <1>5, <1>6 DEF Registered
<1>16. ASSUME NEW d \in Clients, d # c PROVE Kept(d)
  BY <1>5, <1>6, <1>7, <1>8, <1>9, <1>16 DEF Kept
<1>17. QED BY <1>10, <1>11, <1>13, <1>14, <1>15, <1>16 DEF Local, Steps

(***************************************************************************)
(* A call is sent: req goes onto the connection r, which becomes s.        *)
(***************************************************************************)
Sends(r, s, req) ==
  /\ s.srv = r.srv
  /\ \/ r.link = "open" /\ s.link = "open" /\ s.up = Append(r.up, req) /\ s.down = r.down
     \/ r.link = "fin" /\ s.link \in {"fin", "broken"} /\ s.up = r.up /\ s.down = r.down
     \/ r.link = "reset" /\ s.link = "broken" /\ s.up = r.up /\ s.down = <<>>

\* What changes of client c.
Asks(c, req) ==
  /\ req \in Requests /\ asked[c] = "none" /\ asked'[c] = req.type
  /\ pc[c] \in {"drain", "register", "query", "menu", "heartbeat"}
  /\ req.type \in AskedAt(pc[c])
  /\ IF pc[c] \in {"menu", "heartbeat"} THEN left[c] > 0 /\ left'[c] = left[c] - 1
                                        ELSE left'[c] = left[c]
  /\ shown'[c] = Nothing
  /\ program'[c] = program[c] /\ pc'[c] = pc[c] /\ attempt'[c] = attempt[c]
  /\ code'[c] = code[c] /\ late'[c] = late[c] /\ decision'[c] = decision[c]
  /\ conn'[Cur(c)] \in Connections /\ Sends(conn[Cur(c)], conn'[Cur(c)], req)
  /\ \A i \in 0..MaxAttempts : i # attempt[c] => conn'[<<c, i>>] = conn[<<c, i>>]

\* A program sends its next call, or dies of it.
LEMMA SendStep ==
  \A c \in Clients : \A cmd, id :
    /\ Types /\ Waiting /\ Local(c) /\ [type |-> cmd, id |-> id] \in Requests /\ Send(c, cmd, id)
    /\ pc[c] \in {"drain", "register", "query", "menu", "heartbeat"} /\ cmd \in AskedAt(pc[c])
    /\ IF pc[c] \in {"menu", "heartbeat"}
       THEN left[c] > 0 /\ left' = Set(left, c, left[c] - 1) ELSE left' = left
    => Steps(c)

<1>SendShape.
  ASSUME Types, NEW c \in Clients, Shape(c), NEW req, Asks(c, req)
  PROVE  Shape(c)'
  <2> USE <1>SendShape
  <2> DEFINE r == conn[Cur(c)]
             s == conn'[Cur(c)]
  <2>1. /\ attempt[c] \in 0..MaxAttempts /\ Cur(c) = <<c, attempt[c]>>
        /\ r \in Connections /\ Ends(r)
    BY OwnCur
  <2>2. s \in Connections /\ Sends(r, s, req) BY DEF Asks
  <2>3. /\ Cur(c)' = Cur(c) /\ conn'[Cur(c)'] = s BY DEF Asks, Cur
  <2> HIDE DEF r, s
  <2>4. Ends(s) /\ s.link \notin {"none", "closed"} BY <2>1, <2>2 DEF Sends, Ends
  <2>5. ASSUME NEW i \in 0..MaxAttempts
        PROVE  /\ Ends(conn'[<<c, i>>])
               /\ i > attempt[c] => conn'[<<c, i>>] = NoConn
               /\ i < attempt[c] => conn'[<<c, i>>].link \in {"none", "closed"}
    <3>1. CASE i = attempt[c] BY SMT, <2>1, <2>4, <3>1 DEF s
    <3>2. CASE i # attempt[c] BY <3>2 DEF Asks, Shape
    <3>3. QED BY <3>1, <3>2
  <2>6. /\ pc'[c] \in PlacesIn(program'[c]) /\ asked'[c] \in AskedAt(pc'[c])
        /\ code'[c] = "running" /\ pc'[c] \notin {"exit", "start"}
        /\ program'[c] # "probe" \/ pc'[c] = "heartbeat" => attempt'[c] = 0
    BY DEF Asks, Shape
  <2>7. QED BY <2>3, <2>4, <2>5, <2>6 DEF Shape, Asks

\* A request more in the stream.
<1>AskingAppend.
  ASSUME NEW q \in Seq(Requests), NEW req \in Requests
  PROVE  LET s == Append(q, req) IN
         /\ Len(s) = Len(q) + 1 /\ Asking(s) <= Asking(q) + 1
         /\ q = <<>> => OnlyFirst(s) /\ FirstAsks(s) <= 1
         /\ q = <<>> /\ req.type = "HEARTBEAT" => Asking(s) = 0
         /\ OnlyFirst(q) /\ req.type = "HEARTBEAT" => OnlyFirst(s) /\ FirstAsks(s) = FirstAsks(q)
  <2> DEFINE s == Append(q, req)
  <2>1. /\ Len(q) \in Nat /\ (Len(q) = 0 <=> q = <<>>) /\ s # <<>> /\ Len(s) = Len(q) + 1
        /\ DOMAIN q = 1..Len(q) /\ s[Len(q) + 1] = req
        /\ \A i \in DOMAIN s : (i = Len(q) + 1 /\ s[i] = req) \/ (i \in DOMAIN q /\ s[i] = q[i])
        /\ s \in Seq(Requests)
    BY SMT, StreamAppend
  <2>2. 1 \in DOMAIN s BY SMT, <2>1
  <2> HIDE DEF s
  <2>3. s[1] = IF q = <<>> THEN req ELSE q[1] BY SMT, <2>1, <2>2
  <2>4. Beats(s) <=> IF q = <<>> THEN req.type = "HEARTBEAT" ELSE Beats(q)
    BY <2>1, <2>3 DEF Beats
  <2>5. FirstAsks(s) \in {0, 1} BY DEF FirstAsks
  <2>6. CASE q = <<>>
    <3>1. \A i \in DOMAIN s : i = 1 BY SMT, <2>1, <2>6
    <3>2. Len(q) = 0 /\ Len(s) = 1 /\ OnlyFirst(s) BY SMT, <2>1, <2>6, <3>1 DEF OnlyFirst
    <3>3. ~Beats(q) /\ Asking(q) = 0 BY <2>6, <3>2 DEF Beats, Asking
    <3>4. Asking(s) = (IF req.type = "HEARTBEAT" THEN 0 ELSE 1) BY SMT, <2>4, <2>6, <3>2 DEF Asking
    <3>5. req.type = "HEARTBEAT" => FirstAsks(s) = FirstAsks(q) BY <2>4, <2>6 DEF FirstAsks
    <3>6. QED BY SMT, <2>5, <2>6, <3>2, <3>3, <3>4, <3>5 DEF s
  <2>7. CASE q # <<>>
    <3>1. Beats(s) <=> Beats(q) BY <2>4, <2>7
    <3>2. Asking(s) = Asking(q) + 1 /\ Asking(q) + 1 <= Asking(q) + 1
      BY SMT, <2>1, <2>7, <3>1 DEF Asking
    <3>3. FirstAsks(s) = FirstAsks(q) BY <2>1, <2>7, <3>1 DEF FirstAsks
    <3>4. OnlyFirst(q) /\ req.type = "HEARTBEAT" => OnlyFirst(s) BY <2>1 DEF OnlyFirst
    <3>5. QED BY <2>1, <2>7, <3>2, <3>3, <3>4 DEF s
  <2>8. QED BY <2>6, <2>7

\* The frames of a request just sent.
<1>SendCounts.
  ASSUME NEW r \in Connections, NEW s \in Connections, NEW req \in Requests,
         Sends(r, s, req)
  PROVE  /\ Len(s.up) <= Len(r.up) + 1 /\ Len(s.down) <= Len(r.down)
         /\ s.link = "open" =>
              /\ r.link = "open" /\ Owed(s) <= Owed(r) + 1
              /\ Len(r.up) = 0 => OnlyFirst(s.up) /\ Due(s) <= Due(r) + 1
              /\ Len(r.up) = 0 /\ req.type = "HEARTBEAT" => Owed(s) = Owed(r)
              /\ OnlyFirst(r.up) /\ req.type = "HEARTBEAT" => OnlyFirst(s.up) /\ Due(s) = Due(r)
  <2> USE <1>SendCounts
  <2>1. r.up \in Seq(Requests) BY ConnFields
  <2>2. /\ Len(r.up) \in Nat /\ Len(r.down) \in Nat /\ Pending(r) \in {0, 1}
        /\ Asking(r.up) \in Nat /\ FirstAsks(r.up) \in {0, 1}
        /\ Asking(s.up) \in Nat /\ FirstAsks(s.up) \in {0, 1}
    BY OwedType
  <2>3. CASE r.link = "open"
    <3>1. s.up = Append(r.up, req) /\ s.down = r.down /\ s.srv = r.srv BY <2>3 DEF Sends
    <3>2. r.up = <<>> <=> Len(r.up) = 0 BY SMT, <2>1
    <3>3. Len(r.up) = 0 => Asking(r.up) = 0 /\ FirstAsks(r.up) = 0 BY <2>1, <3>2, AskingType
    <3>4. /\ Len(s.up) = Len(r.up) + 1 /\ Asking(s.up) <= Asking(r.up) + 1
          /\ Len(r.up) = 0 => OnlyFirst(s.up) /\ FirstAsks(s.up) <= 1
          /\ Len(r.up) = 0 /\ req.type = "HEARTBEAT" => Asking(s.up) = 0
          /\ OnlyFirst(r.up) /\ req.type = "HEARTBEAT" =>
               OnlyFirst(s.up) /\ FirstAsks(s.up) = FirstAsks(r.up)
      BY <2>1, <3>1, <3>2, <1>AskingAppend
    <3>5. Pending(s) = Pending(r) BY <3>1 DEF Pending
    <3>6. Owed(s) <= Owed(r) + 1 BY SMT, <2>2, <3>1, <3>4, <3>5 DEF Owed
    <3>7. Len(r.up) = 0 /\ req.type = "HEARTBEAT" => Owed(s) = Owed(r)
      BY <3>1, <3>3, <3>4, <3>5 DEF Owed
    <3>8. Len(r.up) = 0 => Due(s) <= Due(r) + 1 BY SMT, <2>2, <3>1, <3>3, <3>4, <3>5 DEF Due
    <3>9. OnlyFirst(r.up) /\ req.type = "HEARTBEAT" => Due(s) = Due(r)
      BY <3>1, <3>4, <3>5 DEF Due
    <3>10. Len(s.up) <= Len(r.up) + 1 /\ Len(s.down) <= Len(r.down) BY SMT, <2>2, <3>1, <3>4
    <3>11. QED BY <2>3, <3>4, <3>6, <3>7, <3>8, <3>9, <3>10
  <2>4. CASE r.link # "open"
    <3>1. s.link # "open" /\ s.up = r.up /\ s.down \in {r.down, <<>>} BY <2>4 DEF Sends
    <3>2. QED BY SMT, <2>2, <3>1
  <2>5. QED BY <2>3, <2>4

<1>SendBudget.
  ASSUME Types, NEW c \in Clients, Local(c), NEW req, Asks(c, req)
  PROVE  Budget(c)'
  <2> USE <1>SendBudget
  <2> DEFINE r == conn[Cur(c)]
             s == conn'[Cur(c)]
  <2>1. Shape(c) /\ Budget(c) /\ Synced(c) /\ Registered(c) BY DEF Local
  <2>2. /\ attempt[c] \in 0..MaxAttempts /\ Cur(c) = <<c, attempt[c]>>
        /\ r \in Connections
        /\ Sent(c) \in {0, 1} /\ left[c] \in Nat /\ MaxCommands \in Nat /\ MaxCommands > 0
    BY <2>1, OwnCur DEF Budget
  <2>3. s \in Connections /\ Sends(r, s, req) /\ req \in Requests BY DEF Asks
  <2>4. Cur(c)' = Cur(c) /\ conn'[Cur(c)'] = s BY DEF Asks, Cur
  <2>5. Sent(c)' = 1 BY <2>3 DEF Asks, Sent, Requests
  <2>6. Sent(c) = IF pc[c] \in {"drain", "register"} THEN 0 ELSE 1 BY DEF Asks, Sent
  <2>7. /\ Len(r.up) \in Nat /\ Len(s.up) \in Nat /\ Len(s.down) \in Nat /\ Len(r.down) \in Nat
        /\ Owed(r) \in Nat /\ Owed(s) \in Nat /\ Due(r) \in Nat /\ Due(s) \in Nat
    BY <2>2, <2>3, OwedType
  <2>8. /\ Len(s.up) <= Len(r.up) + 1 /\ Len(s.down) <= Len(r.down)
        /\ s.link = "open" =>
             /\ r.link = "open" /\ Owed(s) <= Owed(r) + 1
             /\ Len(r.up) = 0 => OnlyFirst(s.up) /\ Due(s) <= Due(r) + 1
             /\ Len(r.up) = 0 /\ req.type = "HEARTBEAT" => Owed(s) = Owed(r)
             /\ OnlyFirst(r.up) /\ req.type = "HEARTBEAT" => OnlyFirst(s.up) /\ Due(s) = Due(r)
    BY <2>2, <2>3, <1>SendCounts
  <2>9. /\ program[c] = "eop_demo" => Demo(c, r)
        /\ program[c] = "probe" => Probe(c, r)
        /\ \A i \in 0..MaxAttempts : Fits(conn[<<c, i>>])
    BY <2>1 DEF Budget
  <2>10. Fits(r) BY <2>2, <2>9
  <2>11. program[c] = "connect_basic" => Len(r.up) <= 1
    <3> SUFFICES ASSUME program[c] = "connect_basic" PROVE Len(r.up) <= 1
      OBVIOUS
    <3>1. pc[c] \in {"drain", "register", "query"} /\ asked[c] = "none"
      BY <2>1 DEF Asks, Shape, PlacesIn
    <3>2. CASE pc[c] = "drain" BY <2>1, <3>1, <3>2 DEF Registered, Synced, Draining
    <3>3. CASE pc[c] = "register" BY <2>1, <3>1, <3>3 DEF Registered
    <3>4. CASE pc[c] = "query" BY SMT, <2>1, <2>7, <3>1, <3>4 DEF Registered
    <3>5. QED BY <3>1, <3>2, <3>3, <3>4
  <2> HIDE DEF r, s
  <2>12. program[c] = "eop_demo" => Demo(c, conn[Cur(c)])'
    <3> SUFFICES ASSUME program[c] = "eop_demo" PROVE Demo(c, conn[Cur(c)])'
      OBVIOUS
    <3>1. pc[c] \in {"drain", "menu"} BY <2>1 DEF Asks, Shape, PlacesIn
    <3>2. Demo(c, r) BY <2>9
    <3>3. CASE pc[c] = "drain"
      <4>1. left'[c] = left[c] /\ req.type = "HEARTBEAT" /\ Sent(c) = 0
        BY <2>3, <2>6, <3>3 DEF Asks, AskedAt, Requests
      <4>2. /\ Len(s.up) <= Len(r.up) + 1 /\ Len(r.up) = 0
            /\ Len(r.up) + left[c] <= MaxCommands + Sent(c)
            /\ s.link = "open" => Owed(s) = Owed(r) /\ Owed(r) + left[c] <= MaxCommands + 1
        BY <2>8, <3>2, <4>1 DEF Demo
      <4>3. Len(s.up) + left'[c] <= MaxCommands + 1
        BY <2>2, <2>7, <4>1, <4>2, OneMore
      <4>4. s.link = "open" => Owed(s) + left'[c] <= MaxCommands + 1 BY <4>1, <4>2
      <4>5. QED BY <2>4, <2>5, <4>3, <4>4, Fresh DEF Demo
    <3>4. CASE pc[c] = "menu"
      <4>1. left'[c] = left[c] - 1 /\ left[c] > 0 /\ Sent(c) = 1 BY <2>6, <3>4 DEF Asks
      <4>2. /\ Len(s.up) <= Len(r.up) + 1 /\ Len(r.up) + left[c] <= MaxCommands + Sent(c)
            /\ s.link = "open" => Owed(s) <= Owed(r) + 1 /\ Owed(r) + left[c] <= MaxCommands + 1
        BY <2>8, <3>2 DEF Demo
      <4>3. Len(s.up) + left'[c] <= MaxCommands + 1
        BY <2>2, <2>7, <4>1, <4>2, OneMore
      <4>4. s.link = "open" => Owed(s) + left'[c] <= MaxCommands + 1
        BY <2>2, <2>7, <4>1, <4>2, OneMore
      <4>5. QED BY <2>4, <2>5, <4>3, <4>4, Fresh DEF Demo
    <3>5. QED BY <3>1, <3>3, <3>4
  <2>13. program[c] = "probe" => Probe(c, conn[Cur(c)])'
    <3> SUFFICES ASSUME program[c] = "probe" PROVE Probe(c, conn[Cur(c)])'
      OBVIOUS
    <3>1. pc[c] \in {"register", "heartbeat"} BY <2>1 DEF Asks, Shape, PlacesIn
    <3>2. Probe(c, r) /\ pc'[c] = pc[c] /\ attempt'[c] = attempt[c] BY <2>9 DEF Asks
    <3>3. CASE pc[c] = "register"
      <4>1. left'[c] = left[c] /\ Sent(c) = 0 BY <2>6, <3>3 DEF Asks
      <4>2. /\ Len(s.up) <= Len(r.up) + 1 /\ Len(r.up) = 0
            /\ attempt[c] = 0 => Len(r.up) + left[c] <= MaxCommands + Sent(c)
            /\ s.link = "open" => OnlyFirst(s.up) /\ Due(s) <= Due(r) + 1 /\ Due(r) <= 1 + Sent(c)
        BY <2>8, <3>2, <3>3, <4>1 DEF Probe
      <4>3. Len(s.up) <= 1 /\ (attempt[c] = 0 => Len(s.up) + left'[c] <= MaxCommands + 1)
        BY <2>2, <2>7, <4>1, <4>2, OneMore
      <4>4. s.link = "open" => Due(s) <= 1 + 1 BY <2>7, <4>1, <4>2, OneMore
      <4>5. QED BY <2>4, <2>5, <3>2, <4>2, <4>3, <4>4, Fresh DEF Probe
    <3>4. CASE pc[c] = "heartbeat"
      <4>1. left'[c] = left[c] - 1 /\ left[c] > 0 /\ req.type = "HEARTBEAT" /\ Sent(c) = 1
        BY <2>3, <2>6, <3>4 DEF Asks, AskedAt, Requests
      <4>2. /\ Len(s.up) <= Len(r.up) + 1
            /\ attempt[c] = 0 => Len(r.up) + left[c] <= MaxCommands + Sent(c)
            /\ s.link = "open" => OnlyFirst(s.up) /\ Due(s) <= 1 + 1
        BY <2>8, <3>2, <3>4, <4>1 DEF Probe
      <4>3. attempt[c] = 0 => Len(s.up) + left'[c] <= MaxCommands + 1
        BY <2>2, <2>7, <4>1, <4>2, OneMore
      <4>4. QED BY <2>4, <2>5, <3>2, <3>4, <4>2, <4>3, Fresh DEF Probe
    <3>5. QED BY <3>1, <3>3, <3>4
  <2>14. left'[c] \in Nat BY <2>2, Plus DEF Asks
  <2>15. program'[c] = program[c] /\ pc'[c] = pc[c] /\ attempt'[c] = attempt[c] BY DEF Asks
  <2>16. Fits(s)
    <3>1. Len(s.down) <= MaxCommands + 1 BY SMT, <2>2, <2>7, <2>8, <2>10 DEF Fits
    <3>2. Len(s.up) <= MaxCommands + 1
      <4>1. CASE program[c] = "connect_basic"
        <5>1. Len(s.up) <= Len(r.up) + 1 /\ Len(r.up) <= 1 BY <2>8, <2>11, <4>1
        <5>2. QED BY SMT, <2>2, <2>7, <5>1
      <4>2. CASE program[c] = "eop_demo"
        <5>1. Len(s.up) + left'[c] <= MaxCommands + 1 BY <2>4, <2>5, <2>12, <4>2 DEF Demo
        <5>2. QED BY SMT, <2>2, <2>7, <2>14, <5>1
      <4>3. CASE program[c] = "probe"
        <5>1. pc[c] \in {"register", "heartbeat"} BY <2>1, <4>3 DEF Asks, Shape, PlacesIn
        <5>2. pc[c] = "heartbeat" => attempt[c] = 0 BY <2>1 DEF Shape
        <5>3. CASE attempt[c] = 0
          <6>1. Len(s.up) + left'[c] <= MaxCommands + 1
            BY <2>4, <2>5, <2>13, <2>15, <4>3, <5>1, <5>3 DEF Probe
          <6>2. QED BY SMT, <2>2, <2>7, <2>14, <6>1
        <5>4. CASE attempt[c] > 0 /\ pc[c] = "register"
          <6>1. Len(s.up) <= 1 BY <2>4, <2>5, <2>13, <2>15, <4>3, <5>4 DEF Probe
          <6>2. QED BY SMT, <2>2, <2>7, <6>1
        <5>5. attempt[c] = 0 \/ attempt[c] > 0 BY <2>2, UpTo, ProgramsAssumption
        <5>6. QED BY <5>1, <5>2, <5>3, <5>4, <5>5
      <4>4. QED BY <4>1, <4>2, <4>3 DEF Types, Programs
    <3>3. QED BY <3>1, <3>2 DEF Fits
  <2>17. ASSUME NEW i \in 0..MaxAttempts PROVE Fits(conn[<<c, i>>])'
    <3>1. CASE i = attempt[c] BY <2>2, <2>16, <3>1 DEF s, Fits
    <3>2. CASE i # attempt[c] BY <2>9, <3>2 DEF Asks, Fits
    <3>3. QED BY <3>1, <3>2
  <2>18. QED BY <2>2, <2>12, <2>13, <2>15, <2>17 DEF Budget

<1>SendDraining.
  ASSUME NEW r \in Connections, NEW s \in Connections, NEW req \in Requests,
         Ends(r), Sends(r, s, req), Draining(r, "none"), req.type = "HEARTBEAT"
  PROVE  Draining(s, req.type)
  <2> USE <1>SendDraining
  <2>1. r.up = <<>> /\ s.srv = r.srv /\ s.down \in {r.down, <<>>} BY DEF Draining, Sends
  <2>2. CASE s.up = r.up BY SMT, <2>1, <2>2 DEF Draining
  <2>3. CASE s.up = Append(<<>>, req)
    <3>1. Len(s.up) = 1 /\ \A i \in DOMAIN s.up : s.up[i] = req BY SMT, <2>3
    <3>2. QED BY SMT, <2>1, <3>1 DEF Draining
  <2>4. QED BY <2>1, <2>2, <2>3 DEF Sends

\* Between two calls of a program in step only heartbeats are on the way.
<1>Idle.
  ASSUME NEW r \in Connections, Drained(r, "none")
  PROVE  r.down = <<>> /\ \A i \in DOMAIN r.up : r.up[i].type = "HEARTBEAT"
  <2> USE <1>Idle
  <2> DEFINE down == r.down
             up == r.up
  <2>1. down \in Seq(Frames) /\ up \in Seq(Requests) BY ConnFields
  <2>2. \A i \in DOMAIN down : down[i].of = "none" BY DEF Drained
  <2>3. \A i \in DOMAIN up : up[i].type # "HEARTBEAT" => up[i].type = "none" BY DEF Drained
  <2> HIDE DEF down, up
  <2>4. /\ Len(down) \in Nat /\ DOMAIN down = 1..Len(down) /\ (Len(down) = 0 <=> down = <<>>)
        /\ \A i \in DOMAIN down : down[i] \in Frames
        /\ \A i \in DOMAIN up : up[i] \in Requests
    BY SMT, <2>1
  <2>5. \A f \in Frames : f.of # "none" BY DEF Frames, Commands
  <2>6. \A req \in Requests : req.type # "none" BY DEF Requests
  <2>7. down # <<>> => 1 \in DOMAIN down BY SMT, <2>4
  <2>8. down = <<>> BY <2>2, <2>4, <2>5, <2>7
  <2>9. QED BY <2>3, <2>4, <2>6, <2>8 DEF down, up

<1>SendDrained.
  ASSUME NEW r \in Connections, NEW s \in Connections, NEW req \in Requests,
         Ends(r), Sends(r, s, req), Drained(r, "none")
  PROVE  Drained(s, req.type)
  <2> USE <1>SendDrained
  <2>1. /\ r.down = <<>> /\ s.down = <<>> /\ s.srv = r.srv
        /\ \A i \in DOMAIN r.up : r.up[i].type = "HEARTBEAT"
    BY <1>Idle DEF Sends
  <2>2. r.up \in Seq(Requests) BY ConnFields
  <2>3. CASE r.link # "open"
    <3>1. r.link \in {"fin", "reset"} /\ s.up = r.up BY <2>3 DEF Sends
    <3>2. s.up = <<>> BY <3>1 DEF Ends
    <3>3. QED BY SMT, <2>1, <3>2 DEF Drained
  <2>4. CASE r.link = "open"
    <3>1. s.up = Append(r.up, req) BY <2>4 DEF Sends
    <3>2. /\ Len(s.up) = Len(r.up) + 1 /\ s.up[Len(s.up)] = req
          /\ \A i \in DOMAIN s.up : i = Len(s.up) \/ (i \in DOMAIN r.up /\ s.up[i] = r.up[i])
      BY SMT, <2>2, <3>1, StreamAppend
    <3>3. \A i \in DOMAIN s.up :
            s.up[i].type # "HEARTBEAT" => i = Len(s.up) /\ s.up[i].type = req.type
      BY <2>1, <3>2
    <3>4. QED BY SMT, <2>1, <3>2, <3>3 DEF Drained
  <2>5. QED BY <2>3, <2>4

<1>SendSynced.
  ASSUME Types, NEW c \in Clients, Local(c), NEW req, Asks(c, req)
  PROVE  Synced(c)'
  <2> USE <1>SendSynced
  <2> DEFINE r == conn[Cur(c)]
             s == conn'[Cur(c)]
  <2>1. Shape(c) /\ Synced(c) BY DEF Local
  <2>2. r \in Connections /\ Ends(r) BY <2>1, OwnCur
  <2>3. /\ s \in Connections /\ Sends(r, s, req) /\ req \in Requests
        /\ asked[c] = "none" /\ asked'[c] = req.type
        /\ program'[c] = program[c] /\ pc'[c] = pc[c] /\ late'[c] = late[c]
        /\ req.type \in AskedAt(pc[c])
    BY DEF Asks
  <2>4. Cur(c)' = Cur(c) /\ conn'[Cur(c)'] = s BY DEF Asks, Cur
  <2>5. ShownRight(c)' BY SMT DEF Asks, ShownRight, Nothing
  <2>6. SUFFICES ASSUME program[c] # "probe", ~late[c]
                 PROVE  /\ pc[c] = "drain" => Draining(s, req.type)
                        /\ pc[c] \in {"register", "query", "menu"} => Drained(s, req.type)
    BY <2>3, <2>4, <2>5 DEF Synced
  <2>7. /\ pc[c] = "drain" => Draining(r, "none")
        /\ pc[c] \in {"register", "query", "menu"} => Drained(r, "none")
    BY <2>1, <2>3, <2>6 DEF Synced
  <2>8. pc[c] = "drain" => req.type = "HEARTBEAT" BY <2>3 DEF AskedAt, Requests
  <2>9. QED BY <2>2, <2>3, <2>7, <2>8, <1>SendDraining, <1>SendDrained

<1>SendRegistered.
  ASSUME Types, NEW c \in Clients, Local(c), NEW req, Asks(c, req)
  PROVE  Registered(c)'
  <2> USE <1>SendRegistered
  <2> DEFINE r == conn[Cur(c)]
             s == conn'[Cur(c)]
  <2>1. Shape(c) /\ Registered(c) BY DEF Local
  <2>2. r \in Connections BY <2>1, OwnCur
  <2>3. /\ s \in Connections /\ Sends(r, s, req) /\ req \in Requests
        /\ asked[c] = "none" /\ asked'[c] = req.type /\ req.type # "none"
        /\ program'[c] = program[c] /\ pc'[c] = pc[c] /\ late'[c] = late[c]
        /\ code'[c] = code[c] /\ decision'[c] = decision[c]
        /\ req.type \in AskedAt(pc[c]) /\ pc[c] # "exit"
    BY DEF Asks, Requests
  <2>4. Cur(c)' = Cur(c) /\ conn'[Cur(c)'] = s BY DEF Asks, Cur
  <2>5. Len(r.up) \in Nat /\ Len(s.up) \in Nat /\ Len(s.up) <= Len(r.up) + 1
    BY <2>2, <2>3, OwedType, <1>SendCounts
  <2>6. code[c] # "success" BY <2>1, <2>3 DEF Shape
  <2>7. SUFFICES ASSUME program[c] = "connect_basic"
                 PROVE  /\ pc[c] = "register" => Len(s.up) <= 2
                        /\ pc[c] = "query" => Len(s.up) <= 1 /\ decision[c] = "OK" /\ NoRegister(s)
                        /\ pc[c] = "register" /\ (\E i \in DOMAIN s.down : s.down[i].type = "ACK")
                             => decision[c] = "OK"
    BY <2>1, <2>3, <2>4, <2>6 DEF Registered
  <2>8. /\ pc[c] = "register" => Len(r.up) <= 1
        /\ pc[c] = "query" => Len(r.up) <= 0 /\ decision[c] = "OK" /\ NoRegister(r)
        /\ pc[c] = "register" /\ (\E i \in DOMAIN r.down : r.down[i].type = "ACK")
             => decision[c] = "OK"
    BY <2>1, <2>3, <2>7 DEF Registered
  <2>9. s.down = r.down \/ s.down = <<>> BY <2>3 DEF Sends
  <2> HIDE DEF r, s
  <2>10. ASSUME pc[c] = "query" PROVE NoRegister(s)
    <3>1. req.type # "REGISTER" BY <2>3, <2>10 DEF AskedAt
    <3>2. CASE s.up = r.up BY <2>8, <2>10, <3>2 DEF NoRegister
    <3>3. CASE s.up = Append(r.up, req)
      <4>1. \A i \in DOMAIN s.up : s.up[i] = req \/ (i \in DOMAIN r.up /\ s.up[i] = r.up[i])
        <5>1. r.up \in Seq(Requests) BY <2>2, ConnFields
        <5>2. \A i \in DOMAIN Append(r.up, req) :
                \/ Append(r.up, req)[i] = req
                \/ i \in DOMAIN r.up /\ Append(r.up, req)[i] = r.up[i]
          <6>1. req \in Requests BY <2>3
          <6>2. QED BY SMTT(30), <5>1, <6>1, StreamAppend
        <5>3. QED BY <3>3, <5>2
      <4>2. QED BY ZenonT(30), <2>8, <2>10, <3>1, <4>1 DEF NoRegister
    <3>4. QED BY <2>3, <3>2, <3>3 DEF Sends
  <2>11. pc[c] = "register" /\ (\E i \in DOMAIN s.down : s.down[i].type = "ACK")
           => decision[c] = "OK"
    BY SMT, <2>8, <2>9
  <2>12. (Len(r.up) <= 1 => Len(s.up) <= 2) /\ (Len(r.up) <= 0 => Len(s.up) <= 1)
    BY <2>5, OneOver
  <2>13. QED BY <2>8, <2>10, <2>11, <2>12

<1>SendLocal.
  ASSUME Types, NEW c \in Clients, Local(c), NEW req, Asks(c, req)
  PROVE  Local(c)'
  BY <1>SendLocal, <1>SendShape, <1>SendBudget, <1>SendSynced, <1>SendRegistered DEF Local

\* What send() does to the connection.
<1>SendFields.
  ASSUME Types, NEW c \in Clients, Shape(c), NEW cmd, NEW id,
         [type |-> cmd, id |-> id] \in Requests, Send(c, cmd, id), conn[Cur(c)].link # "broken"
  PROVE  \E s \in Connections :
           /\ conn' = [conn EXCEPT ![Cur(c)] = s]
           /\ Sends(conn[Cur(c)], s, [type |-> cmd, id |-> id])
           /\ asked' = Set(asked, c, cmd) /\ UNCHANGED <<pc, code>>
  <2> USE <1>SendFields
  <2> DEFINE k == Cur(c)
             r == conn[k]
             req == [type |-> cmd, id |-> id]
  <2>1. k \in Conns /\ r \in Connections /\ Ends(r) BY OwnCur
  <2>2. r.up \in Seq(Requests) /\ r.down \in Seq(Frames) BY <2>1, ConnFields
  <2>3. {"open", "fin", "broken", "reset"} \subseteq Links /\ <<>> \in Seq(Frames) BY SMT DEF Links
  <2>4. CASE /\ r.link = "open" /\ asked' = Set(asked, c, cmd) /\ UNCHANGED <<pc, code>>
             /\ conn' = [conn EXCEPT ![k].up = IF r.srv = "done" THEN @ ELSE Append(@, req)]
    <3> DEFINE s == [r EXCEPT !.up = Append(r.up, req)]
    <3>1. r.srv # "done" BY <2>1, <2>4 DEF Ends
    <3>2. conn' = [conn EXCEPT ![k] = s] BY <2>4, <3>1
    <3>3. Append(r.up, req) \in Seq(Requests) BY SMT, <2>2
    <3> HIDE DEF r, req
    <3>4. s \in Connections BY <2>1, <3>3 DEF Connections
    <3>5. s.srv = r.srv /\ s.link = r.link /\ s.up = Append(r.up, req) /\ s.down = r.down
      BY <2>1, <3>3 DEF Connections
    <3>6. Sends(r, s, req) BY <2>4, <3>5 DEF Sends
    <3>7. QED BY <2>4, <3>2, <3>4, <3>6 DEF r, req
  <2>5. CASE /\ r.link = "fin" /\ asked' = Set(asked, c, cmd) /\ UNCHANGED <<pc, code>>
             /\ \E l \in {"fin", "broken"} : conn' = [conn EXCEPT ![k].link = l]
    <3>1. PICK l \in {"fin", "broken"} : conn' = [conn EXCEPT ![k].link = l] BY <2>5
    <3> DEFINE s == [r EXCEPT !.link = l]
    <3>2. conn' = [conn EXCEPT ![k] = s] BY <3>1
    <3> HIDE DEF r, req
    <3>3. s \in Connections BY <2>1, <2>3 DEF Connections
    <3>4. s.srv = r.srv /\ s.link = l /\ s.up = r.up /\ s.down = r.down
      BY <2>1 DEF Connections
    <3>5. Sends(r, s, req) BY <2>5, <3>4 DEF Sends
    <3>6. QED BY <2>5, <3>2, <3>3, <3>5 DEF r, req
  <2>6. CASE /\ r.link = "reset" /\ asked' = Set(asked, c, cmd) /\ UNCHANGED <<pc, code>>
             /\ conn' = [conn EXCEPT ![k].link = "broken", ![k].down = <<>>]
    <3> DEFINE s == [r EXCEPT !.link = "broken", !.down = <<>>]
    <3>1. conn' = [conn EXCEPT ![k] = s] BY <2>1, <2>6 DEF Types
    <3> HIDE DEF r, req
    <3>2. s \in Connections BY <2>1, <2>3 DEF Connections
    <3>3. s.srv = r.srv /\ s.link = "broken" /\ s.up = r.up /\ s.down = <<>>
      BY <2>1 DEF Connections
    <3>4. Sends(r, s, req) BY <2>6, <3>3 DEF Sends
    <3>5. QED BY <2>6, <3>1, <3>2, <3>4 DEF r, req
  <2>7. QED BY <2>4, <2>5, <2>6 DEF Send

<1> SUFFICES ASSUME Types, Waiting, NEW c \in Clients, Local(c), NEW cmd, NEW id,
         [type |-> cmd, id |-> id] \in Requests, Send(c, cmd, id),
         pc[c] \in {"drain", "register", "query", "menu", "heartbeat"}, cmd \in AskedAt(pc[c]),
         IF pc[c] \in {"menu", "heartbeat"}
         THEN left[c] > 0 /\ left' = Set(left, c, left[c] - 1) ELSE left' = left
       PROVE Steps(c)
  OBVIOUS
<1> DEFINE req == [type |-> cmd, id |-> id]
           r == conn[Cur(c)]
           Shows == [cmd : Commands \cup {"none"},
                     of : Commands \cup {"none", "welcome", "capacity"}]
<1>1. Shape(c) BY DEF Local
<1>2. /\ asked[c] = "none" /\ shown' = Set(shown, c, Nothing)
      /\ UNCHANGED <<program, attempt, late>> /\ UNCHANGED serverVars
  BY DEF Send
<1>3. UNCHANGED <<backlog, queue, running, restarts, m_entries, decision, displaced>>
  BY <1>2 DEF serverVars
<1>4. Nothing \in Shows /\ shown \in [Clients -> Shows] BY DEF Nothing, Types
<1> HIDE DEF Shows
<1>5. /\ shown' \in [Clients -> Shows] /\ shown'[c] = Nothing
      /\ \A d \in Clients : d # c => shown'[d] = shown[d]
  <2>1. shown' = Set(shown, c, Nothing) BY <1>2
  <2>2. QED BY <1>4, <2>1 DEF Set
<1>6. Cur(c) \in Conns /\ Cur(c) = <<c, attempt[c]>> BY <1>1, OwnCur
<1>7. /\ left' \in [Clients -> 0..MaxCommands] /\ left'[c] <= left[c]
      /\ IF pc[c] \in {"menu", "heartbeat"} THEN left[c] > 0 /\ left'[c] = left[c] - 1
                                            ELSE left'[c] = left[c]
      /\ \A d \in Clients : d # c => left'[d] = left[d]
  <2>1. left \in [Clients -> 0..MaxCommands] /\ left[c] \in 0..MaxCommands BY DEF Types
  <2>2. /\ left[c] <= left[c]
        /\ left[c] > 0 => left[c] - 1 \in 0..MaxCommands /\ left[c] - 1 <= left[c]
    BY <2>1, UpTo, ProgramsAssumption
  <2>3. CASE pc[c] \in {"menu", "heartbeat"} BY <2>1, <2>2, <2>3 DEF Set
  <2>4. CASE pc[c] \notin {"menu", "heartbeat"} BY <2>1, <2>2, <2>4
  <2>5. QED BY <2>3, <2>4
<1>8. CASE r.link = "broken"
  <2>1. Exit(c, "SIGPIPE") /\ asked' = asked BY <1>8 DEF Send
  <2>2. UNCHANGED <<program, asked, attempt, late>> BY <1>2, <2>1
  <2>3. QED BY <1>2, <1>7, <2>1, <2>2, ExitStep
<1>9. CASE r.link # "broken"
  <2>1. PICK s \in Connections :
           /\ conn' = [conn EXCEPT ![Cur(c)] = s] /\ Sends(r, s, req)
           /\ asked' = Set(asked, c, cmd) /\ UNCHANGED <<pc, code>>
    BY <1>1, <1>9, <1>SendFields
  <2>2. cmd \in Commands BY DEF Requests, Commands
  <2>3. /\ asked' \in [Clients -> Commands \cup {"none"}] /\ asked'[c] = cmd
        /\ \A d \in Clients : d # c => asked'[d] = asked[d]
    BY <2>1, <2>2 DEF Types, Set
  <2>4. /\ conn' \in [Conns -> Connections] /\ conn'[Cur(c)] = s
        /\ \A i \in 0..MaxAttempts : i # attempt[c] => conn'[<<c, i>>] = conn[<<c, i>>]
        /\ \A d \in Clients, i \in 0..MaxAttempts : d # c => conn'[<<d, i>>] = conn[<<d, i>>]
    BY <2>1, OwnConn
  <2>5. Types' BY <1>2, <1>3, <1>5, <1>7, <2>1, <2>3, <2>4 DEF Types, Shows
  <2>6. s.srv = r.srv BY <2>1 DEF Sends
  <2>7. Waiting' BY <1>3, <1>6, <2>1, <2>6, WaitingSame
  <2>8. req \in Requests /\ req.type = cmd OBVIOUS
  <2> HIDE DEF req
  <2>9. Asks(c, req) BY <1>2, <1>3, <1>5, <1>7, <2>1, <2>3, <2>4, <2>8 DEF Asks
  <2>10. Local(c)' BY <2>9, <1>SendLocal
  <2>11. ASSUME NEW d \in Clients, d # c PROVE Kept(d)
    BY <1>2, <1>3, <1>5, <1>7, <2>1, <2>3, <2>4, <2>11 DEF Kept
  <2>12. QED BY <2>5, <2>7, <2>10, <2>11 DEF Steps
<1>10. QED BY <1>8, <1>9

(***************************************************************************)
(* A call returns.                                                         *)
(***************************************************************************)
\* Where a program goes with frame f, or without one.
GoesTo(c, f) ==
  CASE program[c] = "connect_basic" /\ pc[c] = "drain" ->
         IF f \in Answered THEN "register" ELSE "failure"
    [] program[c] = "connect_basic" /\ pc[c] = "register" ->
         IF f \in Acked THEN "query" ELSE "failure"
    [] program[c] = "connect_basic" /\ pc[c] = "query" ->
         IF f \in Acked THEN "success" ELSE "failure"
    [] program[c] = "eop_demo" /\ pc[c] \in {"drain", "menu"} -> "menu"
    [] program[c] = "probe" /\ pc[c] = "register" /\ attempt[c] = 0 ->
         IF f \in Acked THEN "heartbeat" ELSE "failure"
    [] program[c] = "probe" /\ pc[c] = "register" /\ attempt[c] > 0 ->
         IF f \in Acked THEN "success" ELSE "retry"
    [] program[c] = "probe" /\ pc[c] = "heartbeat" ->
         IF f \in Answered THEN "heartbeat" ELSE "retry"

\* What changes of client c, but for its connection.
Returned(c, result, f) ==
  /\ asked[c] # "none" /\ asked'[c] = "none"
  /\ f \in Frames \cup {NoFrame} /\ Returns(c, result, f)
  /\ shown'[c] = IF f = NoFrame THEN shown[c] ELSE [cmd |-> asked[c], of |-> f.of]
  /\ late'[c] <=> \/ late[c]
                  \/ result = "TIMEOUT" /\ (asked[c] # "HEARTBEAT" \/ pc[c] = "drain")
  /\ program'[c] = program[c] /\ attempt'[c] = attempt[c] /\ left'[c] = left[c]
  /\ decision'[c] = decision[c]
  /\ \A i \in 0..MaxAttempts : i # attempt[c] => conn'[<<c, i>>] = conn[<<c, i>>]
  /\ conn'[Cur(c)] \in Connections
  /\ pc'[c] = (IF GoesTo(c, f) \in {"success", "failure"} THEN "exit" ELSE GoesTo(c, f))
  /\ code'[c] = (IF GoesTo(c, f) \in {"success", "failure"} THEN GoesTo(c, f) ELSE code[c])

\* The connection when the program goes on, and when it ends.
Takes(r, s) ==
  /\ s.srv = r.srv /\ s.up = r.up
  /\ s.down = IF r.down = <<>> THEN <<>> ELSE Tail(r.down)
  /\ s.link = IF r.link = "reset" /\ r.down = <<>> THEN "broken" ELSE r.link

Closes(r, s) == s.srv = r.srv /\ s.up = r.up /\ s.down = <<>> /\ s.link = "closed"

LEMMA ReturnStep ==
  \A c \in Clients : \A good, yes, no :
    /\ Types /\ Waiting /\ Local(c) /\ Return(c, good, yes, no)
    /\ \A f \in Frames \cup {NoFrame} : GoesTo(c, f) = IF f \in good THEN yes ELSE no
    => Steps(c)

<1>TakenFields.
  ASSUME NEW r \in Connections
  PROVE  LET s == Taken(r) IN
         /\ s \in Connections
         /\ s.srv = r.srv /\ s.up = r.up /\ s.active = r.active
         /\ s.down = IF r.down = <<>> THEN <<>> ELSE Tail(r.down)
         /\ s.link = IF r.link = "reset" /\ r.down = <<>> THEN "broken" ELSE r.link
  <2>1. "broken" \in Links /\ (r.down # <<>> => Tail(r.down) \in Seq(Frames))
    BY SMT, ConnFields DEF Links
  <2>2. Taken(r) \in Connections BY <2>1 DEF Taken, Connections
  <2>3. QED BY <2>2 DEF Taken, Connections

\* There is a frame, or there is none because of the time or of the peer.
<1>ReturnCases.
  ASSUME NEW c, NEW result, NEW f \in Frames \cup {NoFrame}, Returns(c, result, f),
         conn[Cur(c)] \in Connections
  PROVE  LET r == conn[Cur(c)] IN
         \/ f \in Frames /\ f # NoFrame /\ result = "OK" /\ r.down # <<>> /\ f = Head(r.down)
         \/ f = NoFrame /\ f \notin Frames /\ result = "TIMEOUT" /\ r.down = <<>> /\ r.link = "open"
         \/ f = NoFrame /\ f \notin Frames /\ result = "DISCONNECTED" /\ r.down = <<>>
              /\ r.link # "open"
  <2> USE <1>ReturnCases
  <2>1. NoFrame \notin Frames BY DEF NoFrame, Frames
  <2>2. conn[Cur(c)].down # <<>> => Head(conn[Cur(c)].down) \in Frames BY ConnFields, StreamRest
  <2>3. QED BY <2>1, <2>2 DEF Returns

\* What a program in step shows is the answer to its call.
<1>ReturnShown.
  ASSUME Types, NEW c \in Clients, Shape(c), Synced(c), NEW result, NEW f,
         Returned(c, result, f), program[c] # "probe", ~late'[c]
  PROVE  ShownRight(c)'
  <2> USE <1>ReturnShown
  <2> DEFINE r == conn[Cur(c)]
  <2>1. r \in Connections BY OwnCur
  <2>2. ~late[c]
    <3>1. late[c] => late'[c] BY DEF Returned
    <3>2. QED BY <3>1
  <2>3. CASE f = NoFrame
    <3>1. ShownRight(c) BY <2>2 DEF Synced
    <3>2. shown'[c] = shown[c] BY <2>3 DEF Returned
    <3>3. QED BY <3>1, <3>2 DEF ShownRight
  <2>4. CASE f # NoFrame
    <3>1. r.down # <<>> /\ f = Head(r.down) BY <2>1, <2>4, <1>ReturnCases DEF Returned
    <3>2. 1 \in DOMAIN r.down /\ f = r.down[1] BY <2>1, <3>1, ConnFields, StreamRest
    <3>3. asked[c] # "none" /\ pc[c] \in {"drain", "register", "query", "menu"}
      <4>1. asked[c] # "none" BY DEF Returned
      <4>2. /\ program[c] \in {"connect_basic", "eop_demo"}
            /\ pc[c] \in PlacesIn(program[c]) /\ asked[c] \in AskedAt(pc[c])
        BY DEF Shape, Types, Programs
      <4>3. QED BY <4>1, <4>2 DEF PlacesIn, AskedAt
    <3>4. asked[c] = f.of \/ (asked[c] = "HEARTBEAT" /\ f.of \in {"welcome", "capacity"})
      <4>1. CASE pc[c] = "drain"
        <5>1. asked[c] = "HEARTBEAT" BY <3>3, <4>1 DEF Shape, AskedAt
        <5>2. QED BY <2>2, <3>2, <4>1, <5>1 DEF Synced, Draining
      <4>2. CASE pc[c] # "drain" BY <2>2, <3>2, <3>3, <4>2 DEF Synced, Drained
      <4>3. QED BY <4>1, <4>2
    <3>5. shown'[c] = [cmd |-> asked[c], of |-> f.of] BY <2>4 DEF Returned
    <3>6. QED BY SMT, <3>4, <3>5 DEF ShownRight
  <2>5. QED BY <2>3, <2>4

\* The program ends with the call.
<1>ReturnEnds.
  ASSUME Types, NEW c \in Clients, Local(c), NEW result, NEW f, Returned(c, result, f),
         GoesTo(c, f) \in {"success", "failure"}, Closes(conn[Cur(c)], conn'[Cur(c)])
  PROVE  Local(c)'
  <2> USE <1>ReturnEnds
  <2> DEFINE r == conn[Cur(c)]
             s == conn'[Cur(c)]
  <2>1. Shape(c) /\ Synced(c) /\ Registered(c) BY DEF Local
  <2>2. r \in Connections /\ left[c] \in Nat BY <2>1, OwnCur
  <2>3. pc[c] \in {"drain", "register", "query", "heartbeat", "menu"}
    BY <2>1 DEF Returned, Shape, PlacesIn, AskedAt, Types, Programs
  <2>4. r.link \notin {"none", "closed"} BY <2>1, <2>3 DEF Shape
  <2>5. /\ pc'[c] = "exit" /\ asked'[c] = "none" /\ code'[c] = GoesTo(c, f)
        /\ program'[c] = program[c] /\ decision'[c] = decision[c]
    BY ZenonT(30) DEF Returned
  <2>6. Ended(c)
    <3>1. /\ s \in Connections /\ attempt'[c] = attempt[c] /\ left'[c] = left[c]
          /\ \A i \in 0..MaxAttempts : i # attempt[c] => conn'[<<c, i>>] = conn[<<c, i>>]
      BY DEF Returned
    <3>2. left[c] <= left[c] BY <2>2, Plus
    <3>3. QED BY <2>2, <2>4, <2>5, <3>1, <3>2 DEF Ended, Closes
  <2>7. Shape(c)' /\ Budget(c)' BY <2>6, EndedLocal
  <2>8. Synced(c)' BY <2>1, <2>5, <1>ReturnShown DEF Synced
  <2>9. Registered(c)'
    <3>1. SUFFICES ASSUME program[c] = "connect_basic"
                   PROVE  /\ late'[c] => code'[c] # "success"
                          /\ code'[c] = "success" => decision[c] = "OK" /\ NoRegister(s)
      <4>1. Cur(c)' = Cur(c) /\ conn'[Cur(c)'] = s BY DEF Returned, Cur
      <4>2. QED BY <2>5, <4>1 DEF Registered
    <3>2. ~late[c] BY <2>1, <2>3, <3>1 DEF Registered
    <3>3. late'[c] => f \notin Frames BY <2>2, <3>2, <1>ReturnCases DEF Returned
    <3>4. pc[c] \in {"drain", "register", "query"} BY <2>1, <2>3, <3>1 DEF Shape, PlacesIn
    <3>5. GoesTo(c, f) = "success" => pc[c] = "query" /\ f \in Frames
      <4>1. CASE pc[c] = "drain" BY <3>1, <4>1 DEF GoesTo
      <4>2. CASE pc[c] = "register" BY <3>1, <4>2 DEF GoesTo
      <4>3. CASE pc[c] = "query" BY <3>1, <4>3 DEF GoesTo, Acked
      <4>4. QED BY <3>4, <4>1, <4>2, <4>3
    <3>6. pc[c] = "query" => decision[c] = "OK" /\ NoRegister(r) BY <2>1, <3>1 DEF Registered
    <3>7. NoRegister(r) => NoRegister(s) BY DEF Closes, NoRegister
    <3>8. QED BY <2>5, <3>3, <3>5, <3>6, <3>7
  <2>10. QED BY <2>7, <2>8, <2>9 DEF Local

\* The places a call can lead to.
<1>Places.
  ASSUME Types, NEW c \in Clients, Shape(c), asked[c] # "none", NEW f
  PROVE  /\ program[c] = "connect_basic" =>
              /\ pc[c] \in {"drain", "register", "query"}
              /\ pc[c] = "drain" => GoesTo(c, f) = IF f \in Answered THEN "register" ELSE "failure"
              /\ pc[c] = "register" => GoesTo(c, f) = IF f \in Acked THEN "query" ELSE "failure"
              /\ pc[c] = "query" => GoesTo(c, f) = IF f \in Acked THEN "success" ELSE "failure"
         /\ program[c] = "eop_demo" => pc[c] \in {"drain", "menu"} /\ GoesTo(c, f) = "menu"
         /\ program[c] = "probe" =>
              /\ pc[c] \in {"register", "heartbeat"}
              /\ pc[c] = "heartbeat" => attempt[c] = 0
              /\ pc[c] = "register" /\ attempt[c] = 0 =>
                   GoesTo(c, f) = IF f \in Acked THEN "heartbeat" ELSE "failure"
              /\ pc[c] = "register" /\ attempt[c] > 0 =>
                   GoesTo(c, f) = IF f \in Acked THEN "success" ELSE "retry"
              /\ pc[c] = "heartbeat" =>
                   GoesTo(c, f) = IF f \in Answered THEN "heartbeat" ELSE "retry"
  <2> USE <1>Places
  <2>1. /\ program[c] = "connect_basic" => pc[c] \in {"drain", "register", "query"}
        /\ program[c] = "eop_demo" => pc[c] \in {"drain", "menu"}
        /\ program[c] = "probe" => /\ pc[c] \in {"register", "heartbeat"}
                                   /\ pc[c] = "heartbeat" => attempt[c] = 0
    BY DEF Shape, PlacesIn, AskedAt
  <2>2. CASE program[c] = "connect_basic"
    <3>1. CASE pc[c] = "drain" BY <2>2, <3>1 DEF GoesTo
    <3>2. CASE pc[c] = "register" BY <2>2, <3>2 DEF GoesTo
    <3>3. CASE pc[c] = "query" BY <2>2, <3>3 DEF GoesTo
    <3>4. QED BY <2>1, <2>2, <3>1, <3>2, <3>3
  <2>3. CASE program[c] = "eop_demo" BY <2>1, <2>3 DEF GoesTo
  <2>4. CASE program[c] = "probe"
    <3>1. CASE pc[c] = "heartbeat" BY <2>1, <2>4, <3>1 DEF GoesTo
    <3>2. CASE pc[c] = "register" /\ attempt[c] = 0 BY SMT, <2>4, <3>2 DEF GoesTo
    <3>3. CASE pc[c] = "register" /\ attempt[c] > 0 BY SMT, <2>4, <3>3 DEF GoesTo
    <3>4. attempt[c] = 0 \/ attempt[c] > 0 BY SMT DEF Types
    <3>5. QED BY <2>1, <2>4, <3>1, <3>2, <3>3, <3>4
  <2>5. QED BY <2>2, <2>3, <2>4 DEF Types, Programs

<1>ReturnShape.
  ASSUME Types, NEW c \in Clients, Shape(c), NEW result, NEW f, Returned(c, result, f),
         GoesTo(c, f) \notin {"success", "failure"}, Takes(conn[Cur(c)], conn'[Cur(c)])
  PROVE  Shape(c)'
  <2> USE <1>ReturnShape
  <2> DEFINE r == conn[Cur(c)]
             s == conn'[Cur(c)]
  <2>1. /\ attempt[c] \in 0..MaxAttempts /\ Cur(c) = <<c, attempt[c]>>
        /\ r \in Connections /\ Ends(r) /\ asked[c] # "none"
    BY OwnCur DEF Returned
  <2>2. pc[c] \in {"drain", "register", "query", "heartbeat", "menu"}
    BY <2>1, <1>Places DEF Types, Programs
  <2>3. r.link \notin {"none", "closed"} /\ code[c] = "running" BY <2>2 DEF Shape
  <2>4. /\ Cur(c)' = Cur(c) /\ conn'[Cur(c)'] = s BY DEF Returned, Cur
  <2>5. Takes(r, s) OBVIOUS
  <2> HIDE DEF r, s
  <2>6. Ends(s) /\ s.link \notin {"none", "closed"} BY <2>1, <2>3, <2>5 DEF Takes, Ends
  <2>7. /\ pc'[c] = GoesTo(c, f) /\ code'[c] = "running" /\ asked'[c] = "none"
        /\ program'[c] = program[c] /\ attempt'[c] = attempt[c]
    BY <2>3 DEF Returned
  <2>8. /\ pc'[c] \in PlacesIn(program[c]) /\ pc'[c] \notin {"exit", "start"}
        /\ pc'[c] = "heartbeat" => attempt[c] = 0
    <3>1. CASE program[c] = "connect_basic"
      <4>1. GoesTo(c, f) \in {"register", "query"} BY <2>1, <3>1, <1>Places
      <4>2. QED BY <2>7, <3>1, <4>1 DEF PlacesIn
    <3>2. CASE program[c] = "eop_demo" BY <2>1, <2>7, <3>2, <1>Places DEF PlacesIn
    <3>3. CASE program[c] = "probe"
      <4>1. attempt[c] = 0 \/ attempt[c] > 0 BY SMT, <2>1
      <4>2. /\ GoesTo(c, f) \in {"heartbeat", "retry"}
            /\ GoesTo(c, f) = "heartbeat" => attempt[c] = 0
        BY <2>1, <3>3, <4>1, <1>Places
      <4>3. QED BY <2>7, <3>3, <4>2 DEF PlacesIn
    <3>4. QED BY <3>1, <3>2, <3>3 DEF Types, Programs
  <2>9. "none" \in AskedAt(pc'[c]) BY DEF AskedAt
  <2>10. ASSUME NEW i \in 0..MaxAttempts
         PROVE  /\ Ends(conn'[<<c, i>>])
                /\ i > attempt[c] => conn'[<<c, i>>] = NoConn
                /\ i < attempt[c] => conn'[<<c, i>>].link \in {"none", "closed"}
    <3>1. CASE i = attempt[c] BY SMT, <2>1, <2>6, <3>1 DEF s
    <3>2. CASE i # attempt[c] BY <3>2 DEF Returned, Shape
    <3>3. QED BY <3>1, <3>2
  <2>11. program[c] # "probe" => attempt[c] = 0 BY DEF Shape
  <2>12. QED BY <2>4, <2>6, <2>7, <2>8, <2>9, <2>10, <2>11 DEF Shape

\* Taking a frame leaves fewer.
<1>TakeCounts.
  ASSUME NEW r \in Connections, NEW s \in Connections, Takes(r, s)
  PROVE  /\ s.up = r.up /\ Len(s.down) <= Len(r.down)
         /\ s.link = "open" => r.link = "open" /\ Owed(s) <= Owed(r) /\ Due(s) <= Due(r)
  <2> USE <1>TakeCounts
  <2>1. r.down \in Seq(Frames) /\ s.up = r.up /\ s.srv = r.srv BY ConnFields DEF Takes
  <2>2. /\ Len(r.down) \in Nat /\ Len(s.down) \in Nat /\ Pending(r) \in {0, 1}
        /\ Asking(r.up) \in Nat /\ FirstAsks(r.up) \in {0, 1}
    BY OwedType
  <2>3. Len(s.down) <= Len(r.down)
    <3>1. CASE r.down = <<>> BY SMT, <2>2, <3>1 DEF Takes
    <3>2. CASE r.down # <<>>
      <4>1. s.down = Tail(r.down) BY <3>2 DEF Takes
      <4>2. Len(s.down) = Len(r.down) - 1 BY <2>1, <3>2, <4>1, StreamRest
      <4>3. QED BY SMT, <2>2, <4>2
    <3>3. QED BY <3>1, <3>2
  <2>4. Pending(s) = Pending(r) BY <2>1 DEF Pending
  <2>5. Owed(s) <= Owed(r) /\ Due(s) <= Due(r) BY SMTT(30), <2>1, <2>2, <2>3, <2>4 DEF Owed, Due
  <2>6. QED BY <2>1, <2>3, <2>5 DEF Takes

<1>ReturnBudget.
  ASSUME Types, NEW c \in Clients, Local(c), NEW result, NEW f, Returned(c, result, f),
         GoesTo(c, f) \notin {"success", "failure"}, Takes(conn[Cur(c)], conn'[Cur(c)])
  PROVE  Budget(c)'
  <2> USE <1>ReturnBudget
  <2> DEFINE r == conn[Cur(c)]
             s == conn'[Cur(c)]
  <2>1. Shape(c) /\ Budget(c) BY DEF Local
  <2>2. /\ attempt[c] \in 0..MaxAttempts /\ Cur(c) = <<c, attempt[c]>>
        /\ r \in Connections /\ s \in Connections /\ asked[c] # "none"
        /\ left[c] \in Nat /\ MaxCommands \in Nat /\ MaxCommands > 0
    BY <2>1, OwnCur DEF Budget, Returned
  <2>3. Cur(c)' = Cur(c) /\ conn'[Cur(c)'] = s BY DEF Returned, Cur
  <2>4. /\ s.up = r.up /\ Len(s.down) <= Len(r.down)
        /\ s.link = "open" => r.link = "open" /\ Owed(s) <= Owed(r) /\ Due(s) <= Due(r)
    BY <2>2, <1>TakeCounts
  <2>5. /\ Len(r.up) \in Nat /\ Len(s.down) \in Nat /\ Len(r.down) \in Nat
        /\ Owed(r) \in Nat /\ Owed(s) \in Nat /\ Due(r) \in Nat /\ Due(s) \in Nat
    BY <2>2, OwedType
  <2>6. Sent(c) = 1 BY <2>2 DEF Sent
  <2>7. /\ program'[c] = program[c] /\ attempt'[c] = attempt[c] /\ left'[c] = left[c]
        /\ pc'[c] = GoesTo(c, f)
    BY DEF Returned
  <2>8. /\ program[c] = "eop_demo" => Demo(c, r)
        /\ program[c] = "probe" => Probe(c, r)
        /\ \A i \in 0..MaxAttempts : Fits(conn[<<c, i>>])
    BY ZenonT(30), <2>1 DEF Budget
  <2> HIDE DEF r, s
  <2>9. program[c] = "eop_demo" => Demo(c, conn[Cur(c)])'
    <3> SUFFICES ASSUME program[c] = "eop_demo" PROVE Demo(c, conn[Cur(c)])'
      OBVIOUS
    <3>1. pc'[c] = "menu" BY <2>1, <2>2, <2>7, <1>Places
    <3>2. Sent(c)' = 1 BY ZenonT(30), <3>1 DEF Sent
    <3>3. /\ Len(r.up) + left[c] <= MaxCommands + 1
          /\ r.link = "open" => Owed(r) + left[c] <= MaxCommands + 1
      BY <2>6, <2>8 DEF Demo
    <3>4. s.link = "open" => Owed(s) + left[c] <= MaxCommands + 1
      <4>1. MaxCommands + 1 \in Nat BY <2>2, Plus
      <4>2. QED BY <2>2, <2>4, <2>5, <3>3, <4>1, NoMore
    <3>5. QED BY <2>3, <2>4, <2>7, <3>2, <3>3, <3>4, Fresh DEF Demo
  <2>10. program[c] = "probe" => Probe(c, conn[Cur(c)])'
    <3> SUFFICES ASSUME program[c] = "probe" PROVE Probe(c, conn[Cur(c)])'
      OBVIOUS
    <3>1. attempt[c] = 0 \/ attempt[c] > 0 BY <2>2, UpTo, ProgramsAssumption
    <3>2. /\ pc'[c] \in {"heartbeat", "retry"}
          /\ pc'[c] = "heartbeat" => attempt[c] = 0 /\ pc[c] \in {"register", "heartbeat"}
      BY <2>1, <2>2, <2>7, <3>1, <1>Places
    <3>3. Sent(c)' = 1 BY <3>2 DEF Sent
    <3>4. /\ pc'[c] = "heartbeat" => Len(r.up) + left[c] <= MaxCommands + 1
          /\ r.link = "open" => OnlyFirst(r.up) /\ Due(r) <= 1 + 1
      BY <2>6, <2>8, <3>2 DEF Probe
    <3>5. s.link = "open" => OnlyFirst(s.up) /\ Due(s) <= 1 + 1
      <4>1. 1 + 1 \in Nat BY Plus
      <4>2. QED BY <2>4, <2>5, <3>4, <4>1, AtMost
    <3>6. QED BY <2>3, <2>4, <2>7, <3>2, <3>3, <3>4, <3>5, Fresh DEF Probe
  <2>11. ASSUME NEW i \in 0..MaxAttempts PROVE Fits(conn[<<c, i>>])'
    <3>1. CASE i = attempt[c]
      <4>1. Fits(r) /\ conn'[<<c, i>>] = s BY <2>2, <2>8, <3>1 DEF r, s
      <4>2. Len(s.down) <= MaxCommands + 1 BY ZenonT(30), <2>2, <2>4, <2>5, <4>1, AtMost, Plus DEF Fits
      <4>3. QED BY <2>4, <4>1, <4>2 DEF Fits
    <3>2. CASE i # attempt[c] BY <2>8, <3>2 DEF Returned, Fits
    <3>3. QED BY <3>1, <3>2
  <2>12. QED BY <2>2, <2>7, <2>9, <2>10, <2>11 DEF Budget

\* The drain took the welcome, or there is nobody to send it.
<1>TakeWelcome.
  ASSUME NEW r \in Connections, NEW s \in Connections, NEW cmd, Ends(r), Takes(r, s),
         Draining(r, cmd), r.down # <<>> \/ r.link \notin {"none", "closed", "open"}
  PROVE  Drained(s, "none") /\ s.down = <<>> /\ Len(s.up) <= 1
  <2> USE <1>TakeWelcome
  <2>1. r.down \in Seq(Frames) /\ s.up = r.up /\ s.srv = r.srv BY ConnFields DEF Takes
  <2>2. s.down = <<>>
    <3>1. CASE r.down = <<>> BY <3>1 DEF Takes
    <3>2. CASE r.down # <<>>
      <4>1. Len(r.down) = 1 BY SMT, <2>1, <3>2, StreamRest DEF Draining
      <4>2. QED BY <2>1, <3>2, <4>1, StreamRest DEF Takes
    <3>3. QED BY <3>1, <3>2
  <2>3. s.srv \notin {"backlog", "queued"}
    <3>1. r.link \in Links BY ConnFields
    <3>2. CASE r.down # <<>> BY <2>1, <3>2 DEF Draining
    <3>3. CASE r.link \notin {"none", "closed", "open"} BY <2>1, <3>1, <3>3 DEF Ends, Links
    <3>4. QED BY <3>2, <3>3
  <2>4. \A i \in DOMAIN s.up : s.up[i].type = "HEARTBEAT" BY <2>1 DEF Draining
  <2>5. Len(s.up) <= 1 BY <2>1 DEF Draining
  <2>6. Len(<<>>) <= 1 /\ DOMAIN <<>> = {} BY SMT
  <2>7. QED BY <2>2, <2>3, <2>4, <2>5, <2>6 DEF Drained

\* A call of a program in step took its answer, or has none.
<1>TakeAnswer.
  ASSUME NEW r \in Connections, NEW s \in Connections, NEW cmd, Ends(r), Takes(r, s),
         Drained(r, cmd), cmd # "none",
         r.down # <<>> \/ r.link \notin {"none", "closed", "open"} \/ cmd = "HEARTBEAT"
  PROVE  /\ Drained(s, "none") /\ s.down = <<>>
         /\ r.down # <<>> => s.up = <<>>
  <2> USE <1>TakeAnswer
  <2>1. /\ r.down \in Seq(Frames) /\ r.up \in Seq(Requests)
        /\ s.up = r.up /\ s.srv = r.srv
    BY ConnFields DEF Takes
  <2>2. s.down = <<>>
    <3>1. CASE r.down = <<>> BY <3>1 DEF Takes
    <3>2. CASE r.down # <<>>
      <4>1. Len(r.down) = 1 BY SMT, <2>1, <3>2, StreamRest DEF Drained
      <4>2. QED BY <2>1, <3>2, <4>1, StreamRest DEF Takes
    <3>3. QED BY <3>1, <3>2
  <2>3. r.down # <<>> => r.up = <<>>
    <3> SUFFICES ASSUME r.down # <<>>, r.up # <<>> PROVE FALSE
      OBVIOUS
    <3>1. cmd # "HEARTBEAT" BY DEF Drained
    <3>2. Len(r.up) \in DOMAIN r.up BY SMT, <2>1, StreamRest
    <3>3. r.up[Len(r.up)].type = cmd BY DEF Drained
    <3>4. QED BY <3>1, <3>2, <3>3 DEF Drained
  <2>4. r.link \notin {"none", "closed", "open"} => r.up = <<>>
    <3>1. r.link \in Links BY ConnFields
    <3>2. QED BY <3>1 DEF Ends, Links
  <2>5. \A i \in DOMAIN s.up : s.up[i].type = "HEARTBEAT"
    <3>1. CASE r.up = <<>> BY SMT, <2>1, <3>1
    <3>2. CASE r.up # <<>>
      <4>1. cmd = "HEARTBEAT" BY <2>3, <2>4, <3>2
      <4>2. QED BY <2>1, <4>1 DEF Drained
    <3>3. QED BY <3>1, <3>2
  <2>6. s.srv \notin {"backlog", "queued"} BY <2>1 DEF Drained
  <2>7. Len(<<>>) <= 1 /\ DOMAIN <<>> = {} BY SMT
  <2>8. QED BY <2>1, <2>2, <2>3, <2>5, <2>6, <2>7 DEF Drained

<1>ReturnSynced.
  ASSUME Types, NEW c \in Clients, Local(c), NEW result, NEW f, Returned(c, result, f),
         GoesTo(c, f) \notin {"success", "failure"}, Takes(conn[Cur(c)], conn'[Cur(c)])
  PROVE  Synced(c)' /\ Registered(c)'
  <2> USE <1>ReturnSynced
  <2> DEFINE r == conn[Cur(c)]
             s == conn'[Cur(c)]
  <2>1. Shape(c) /\ Synced(c) /\ Registered(c) BY DEF Local
  <2>2. /\ r \in Connections /\ s \in Connections /\ Ends(r) /\ asked[c] # "none"
        /\ Takes(r, s) /\ f \in Frames \cup {NoFrame} /\ Returns(c, result, f)
    BY <2>1, OwnCur DEF Returned
  <2>3. Cur(c)' = Cur(c) /\ conn'[Cur(c)'] = s BY DEF Returned, Cur
  <2>4. /\ program'[c] = program[c] /\ asked'[c] = "none" /\ decision'[c] = decision[c]
        /\ pc'[c] = GoesTo(c, f) /\ code'[c] = code[c]
    BY DEF Returned
  <2>5. /\ late[c] => late'[c]
        /\ result = "TIMEOUT" /\ (asked[c] # "HEARTBEAT" \/ pc[c] = "drain") => late'[c]
        /\ late'[c] => late[c] \/ result = "TIMEOUT"
    BY DEF Returned
  <2>6. /\ asked[c] \in AskedAt(pc[c])
        /\ pc[c] \in {"drain", "register", "query", "heartbeat", "menu"}
    BY <2>1, <2>2, <1>Places DEF Shape, Types, Programs
  <2>7. r.link \notin {"none", "closed"} /\ code[c] # "success" BY <2>1, <2>6 DEF Shape
  <2>8. \/ f \in Frames /\ result = "OK" /\ r.down # <<>> /\ f = Head(r.down)
        \/ f \notin Frames /\ result = "TIMEOUT" /\ r.down = <<>>
        \/ f \notin Frames /\ result = "DISCONNECTED" /\ r.link # "open"
    BY <2>2, <1>ReturnCases
  <2>9. ASSUME program[c] # "probe", ~late'[c]
        PROVE  /\ pc'[c] \in {"register", "query", "menu"}
               /\ Drained(s, "none") /\ s.down = <<>>
               /\ pc[c] = "drain" => Len(s.up) <= 1
               /\ pc[c] # "drain" /\ f \in Frames => s.up = <<>>
    <3>1. ~late[c] BY <2>5, <2>9
    <3>2. pc[c] \in {"drain", "register", "query", "menu"} /\ pc'[c] \in {"register", "query", "menu"}
      BY ZenonT(30), <2>1, <2>2, <2>4, <2>9, <1>Places DEF Types, Programs
    <3>3. CASE pc[c] = "drain"
      <4>1. Draining(r, asked[c]) BY <2>1, <2>9, <3>1, <3>3 DEF Synced
      <4>2. r.down # <<>> \/ r.link \notin {"none", "closed", "open"}
        BY <2>5, <2>7, <2>8, <2>9, <3>3
      <4>3. QED BY <2>2, <3>2, <3>3, <4>1, <4>2, <1>TakeWelcome
    <3>4. CASE pc[c] # "drain"
      <4>1. Drained(r, asked[c]) BY <2>1, <2>9, <3>1, <3>2, <3>4 DEF Synced
      <4>2. r.down # <<>> \/ r.link \notin {"none", "closed", "open"} \/ asked[c] = "HEARTBEAT"
        BY <2>5, <2>7, <2>8, <2>9
      <4>3. f \in Frames => r.down # <<>> BY <2>8
      <4>4. QED BY <2>2, <3>2, <3>4, <4>1, <4>2, <4>3, <1>TakeAnswer
    <3>5. QED BY <3>3, <3>4
  <2>10. Synced(c)'
    <3>1. program[c] # "probe" /\ ~late'[c] => ShownRight(c)' BY <2>1, <1>ReturnShown
    <3>2. QED BY <2>3, <2>4, <2>9, <3>1 DEF Synced
  <2>11. ASSUME program[c] = "connect_basic"
         PROVE  /\ ~late'[c] /\ pc'[c] \in {"register", "query"}
                /\ pc'[c] = "register" => Len(s.up) <= 1 /\ s.down = <<>>
                /\ pc'[c] = "query" => s.up = <<>> /\ decision[c] = "OK"
    <3>1. /\ pc'[c] \in {"register", "query"} /\ f \in Frames
          /\ pc'[c] = "register" => pc[c] = "drain"
          /\ pc'[c] = "query" => pc[c] = "register" /\ f.type = "ACK"
      BY <2>1, <2>2, <2>4, <2>11, <1>Places DEF Answered, Acked
    <3>2. ~late[c] BY <2>1, <2>6, <2>11 DEF Registered
    <3>3. ~late'[c] BY <2>5, <2>8, <3>1, <3>2
    <3>4. /\ Drained(s, "none") /\ s.down = <<>>
          /\ pc[c] = "drain" => Len(s.up) <= 1
          /\ pc[c] # "drain" => s.up = <<>>
      BY <2>9, <2>11, <3>1, <3>3
    <3>5. pc[c] = "register" /\ f.type = "ACK" => decision[c] = "OK"
      <4>1. r.down # <<>> /\ f = Head(r.down) BY <2>8, <3>1
      <4>2. 1 \in DOMAIN r.down /\ f = r.down[1] BY <2>2, <4>1, ConnFields, StreamRest
      <4>3. QED BY <2>1, <2>11, <4>2 DEF Registered
    <3>6. QED BY <3>1, <3>3, <3>4, <3>5
  <2>12. Registered(c)'
    <3>1. SUFFICES ASSUME program[c] = "connect_basic" PROVE Registered(c)'
      BY <2>4 DEF Registered
    <3>2. /\ ~late'[c] /\ pc'[c] \in {"register", "query"}
          /\ pc'[c] = "register" => Len(s.up) <= 1 /\ s.down = <<>>
          /\ pc'[c] = "query" => s.up = <<>> /\ decision[c] = "OK"
      BY <2>11, <3>1
    <3>3. CASE pc'[c] = "register"
      <4>1. \A i \in DOMAIN s.down : FALSE
        <5>1. DOMAIN <<>> = {} BY SMT
        <5>2. QED BY <3>2, <3>3, <5>1
      <4>2. QED BY ZenonT(30), <2>3, <2>4, <2>7, <3>2, <3>3, <4>1 DEF Registered
    <3>4. CASE pc'[c] = "query"
      <4>1. Len(<<>>) = 0 /\ DOMAIN <<>> = {} BY SMT
      <4>2. Len(s.up) = 0 /\ NoRegister(s) BY <3>2, <3>4, <4>1 DEF NoRegister
      <4>3. QED BY ZenonT(30), <2>3, <2>4, <3>2, <3>4, <4>2, Fresh DEF Registered
    <3>5. QED BY <3>2, <3>3, <3>4
  <2>13. QED BY <2>10, <2>12

<1> SUFFICES ASSUME Types, Waiting, NEW c \in Clients, Local(c), NEW good, NEW yes, NEW no,
         Return(c, good, yes, no),
         \A f \in Frames \cup {NoFrame} : GoesTo(c, f) = IF f \in good THEN yes ELSE no
       PROVE Steps(c)
  OBVIOUS
<1> DEFINE r == conn[Cur(c)]
           Shows == [cmd : Commands \cup {"none"},
                     of : Commands \cup {"none", "welcome", "capacity"}]
<1>1. Shape(c) /\ asked[c] # "none" BY DEF Local, Return
<1>2. /\ Cur(c) \in Conns /\ Cur(c) = <<c, attempt[c]>> /\ r \in Connections /\ Ends(r)
  BY <1>1, OwnCur
<1>3. PICK result \in {"OK", "TIMEOUT", "DISCONNECTED"}, f \in Frames \cup {NoFrame} :
        Returns(c, result, f) /\ ReturnTo(c, result, f, IF f \in good THEN yes ELSE no)
  BY DEF Return
<1> DEFINE to == GoesTo(c, f)
           exits == to \in {"success", "failure"}
           s == IF exits THEN CloseLink(Taken(r)) ELSE Taken(r)
<1>4. ReturnTo(c, result, f, to) BY <1>3
<1>5. to \in {"success", "failure", "register", "query", "heartbeat", "menu", "retry"}
  <2>1. attempt[c] = 0 \/ attempt[c] > 0 BY UpTo, ProgramsAssumption DEF Types
  <2>2. CASE program[c] = "connect_basic" BY <1>1, <2>2, <1>Places
  <2>3. CASE program[c] = "eop_demo" BY <1>1, <2>3, <1>Places
  <2>4. CASE program[c] = "probe" BY <1>1, <2>1, <2>4, <1>Places
  <2>5. QED BY ZenonT(30), <2>2, <2>3, <2>4 DEF Types, Programs
<1> HIDE DEF to
<1>6. /\ asked' = Set(asked, c, "none")
      /\ pc' = Set(pc, c, IF exits THEN "exit" ELSE to)
      /\ code' = Set(code, c, IF exits THEN to ELSE code[c])
      /\ conn' = [conn EXCEPT ![Cur(c)] = s]
      /\ UNCHANGED <<program, attempt, left>> /\ UNCHANGED serverVars
  BY <1>4 DEF ReturnTo
<1>7. UNCHANGED <<backlog, queue, running, restarts, m_entries, decision, displaced>>
  BY <1>6 DEF serverVars
<1>8. /\ shown' \in [Clients -> Shows]
      /\ shown'[c] = IF f = NoFrame THEN shown[c] ELSE [cmd |-> asked[c], of |-> f.of]
      /\ \A d \in Clients : d # c => shown'[d] = shown[d]
  <2> DEFINE new == [cmd |-> asked[c], of |-> f.of]
  <2>1. shown' = IF f = NoFrame THEN shown ELSE Set(shown, c, new) BY <1>4 DEF ReturnTo
  <2>2. shown \in [Clients -> Shows] BY DEF Types
  <2>3. CASE f = NoFrame BY <2>1, <2>2, <2>3
  <2>4. CASE f # NoFrame
    <3>1. f \in Frames BY <1>3, <2>4
    <3>2. f.of \in Commands \cup {"welcome", "capacity"} BY <3>1 DEF Frames
    <3>3. new \in Shows BY <3>2 DEF Types
    <3> HIDE DEF new, Shows
    <3>4. /\ Set(shown, c, new) \in [Clients -> Shows] /\ Set(shown, c, new)[c] = new
          /\ \A d \in Clients : d # c => Set(shown, c, new)[d] = shown[d]
      BY <2>2, <3>3 DEF Set
    <3>5. QED BY <2>1, <2>4, <3>4 DEF new
  <2>5. QED BY <2>3, <2>4
<1> HIDE DEF Shows
<1>9. /\ late' \in [Clients -> BOOLEAN]
      /\ late'[c] <=> \/ late[c]
                      \/ result = "TIMEOUT" /\ (asked[c] # "HEARTBEAT" \/ pc[c] = "drain")
      /\ \A d \in Clients : d # c => late'[d] = late[d]
  <2> DEFINE new == late[c] \/ /\ result = "TIMEOUT"
                               /\ \/ asked[c] # "HEARTBEAT"
                                  \/ pc[c] = "drain"
  <2>1. late' = Set(late, c, new) BY <1>4 DEF ReturnTo
  <2>2. late \in [Clients -> BOOLEAN] BY DEF Types
  <2>3. new \in BOOLEAN OBVIOUS
  <2> HIDE DEF new
  <2>4. /\ Set(late, c, new) \in [Clients -> BOOLEAN] /\ Set(late, c, new)[c] = new
        /\ \A d \in Clients : d # c => Set(late, c, new)[d] = late[d]
    BY SMT, <2>2, <2>3, SetFields
  <2>5. QED BY <2>1, <2>4 DEF new
<1>10. /\ asked' \in [Clients -> Commands \cup {"none"}] /\ asked'[c] = "none"
       /\ \A d \in Clients : d # c => asked'[d] = asked[d]
  BY <1>6 DEF Types, Set
<1>11. /\ pc' \in [Clients -> {"start", "drain", "register", "query", "heartbeat",
                               "menu", "retry", "exit"}]
       /\ pc'[c] = IF exits THEN "exit" ELSE to
       /\ \A d \in Clients : d # c => pc'[d] = pc[d]
  BY <1>5, <1>6 DEF Types, Set
<1>12. /\ code' \in [Clients -> {"running", "success", "failure", "SIGPIPE"}]
       /\ code'[c] = IF exits THEN to ELSE code[c]
       /\ \A d \in Clients : d # c => code'[d] = code[d]
  BY <1>5, <1>6 DEF Types, Set
<1>13. r.link \notin {"none", "closed"}
  <2>1. pc[c] \in {"drain", "register", "query", "heartbeat", "menu"}
    BY <1>1, <1>Places DEF Types, Programs
  <2>2. QED BY <1>1, <2>1 DEF Shape
<1>14. /\ s \in Connections /\ s.srv = r.srv
       /\ IF exits THEN Closes(r, s) ELSE Takes(r, s)
  <2> DEFINE t == Taken(r)
  <2>1. t \in Connections /\ Takes(r, t) BY <1>2, <1>TakenFields DEF Takes
  <2>2. CASE ~exits BY <2>1, <2>2 DEF Takes
  <2>3. CASE exits
    <3>1. t.link # "none" BY <1>13, <2>1 DEF Takes
    <3>2. s = CloseLink(t) BY <2>3
    <3> HIDE DEF t, s, exits
    <3>3. /\ s \in Connections /\ s.srv = t.srv /\ s.up = t.up
          /\ s.link = "closed" /\ s.down = <<>>
      BY <2>1, <3>1, <3>2, CloseFields
    <3>4. QED BY <2>1, <2>3, <3>3 DEF Takes, Closes
  <2>4. QED BY <2>2, <2>3
<1> HIDE DEF s
<1>15. /\ conn' \in [Conns -> Connections] /\ conn'[Cur(c)] = s
       /\ \A i \in 0..MaxAttempts : i # attempt[c] => conn'[<<c, i>>] = conn[<<c, i>>]
       /\ \A d \in Clients, i \in 0..MaxAttempts : d # c => conn'[<<d, i>>] = conn[<<d, i>>]
  BY <1>6, <1>14, OwnConn
<1>16. Types'
  BY <1>6, <1>7, <1>8, <1>9, <1>10, <1>11, <1>12, <1>15 DEF Types, Shows
<1>17. Waiting' BY <1>2, <1>6, <1>7, <1>14, WaitingSame
<1>18. Returned(c, result, f)
  BY ZenonT(30), <1>1, <1>3, <1>6, <1>7, <1>8, <1>9, <1>10, <1>11, <1>12, <1>14, <1>15
  DEF Returned, to
<1>19. Local(c)'
  <2>1. CASE exits
    <3>1. Closes(r, conn'[Cur(c)]) /\ GoesTo(c, f) \in {"success", "failure"}
      BY <1>14, <1>15, <2>1 DEF to
    <3>2. QED BY <1>18, <3>1, <1>ReturnEnds
  <2>2. CASE ~exits
    <3>1. Takes(r, conn'[Cur(c)]) /\ GoesTo(c, f) \notin {"success", "failure"}
      BY <1>14, <1>15, <2>2 DEF to
    <3>2. Shape(c)' BY <1>1, <1>18, <3>1, <1>ReturnShape
    <3>3. Budget(c)' BY <1>18, <3>1, <1>ReturnBudget
    <3>4. Synced(c)' /\ Registered(c)' BY ZenonT(30), <1>18, <3>1, <1>ReturnSynced
    <3>5. QED BY <3>2, <3>3, <3>4 DEF Local
  <2>3. QED BY <2>1, <2>2
<1>20. ASSUME NEW d \in Clients, d # c PROVE Kept(d)
  <2>1. /\ pc'[d] = pc[d] /\ asked'[d] = asked[d] /\ code'[d] = code[d]
        /\ shown'[d] = shown[d] /\ late'[d] = late[d]
    BY <1>8, <1>9, <1>10, <1>11, <1>12, <1>20
  <2>2. /\ program'[d] = program[d] /\ attempt'[d] = attempt[d] /\ left'[d] = left[d]
        /\ decision'[d] = decision[d]
    BY <1>6, <1>7
  <2>3. \A i \in 0..MaxAttempts : conn'[<<d, i>>] = conn[<<d, i>>] BY <1>15, <1>20
  <2>4. QED BY <2>1, <2>2, <2>3 DEF Kept
<1>21. QED BY <1>16, <1>17, <1>19, <1>20 DEF Steps

(***************************************************************************)
(* A new connection                                                        *)
(***************************************************************************)

LEMMA OpenWaiting ==
  ASSUME Types, Waiting, NEW k \in Conns, conn[k].srv = "none", conn'[k] = NewConn,
         \A j \in Conns : j # k => conn'[j].srv = conn[j].srv,
         backlog' = (IF running THEN Append(backlog, k) ELSE backlog), queue' = queue
  PROVE  backlog' \in Seq(Conns) /\ Waiting'
<1>1. NewConn.srv = IF running THEN "backlog" ELSE "done" BY NewFields
<1>2. In({"queued"})' = In({"queued"}) BY <1>1 DEF In
<1>3. In({"backlog"})' = IF running THEN In({"backlog"}) \cup {k} ELSE In({"backlog"})
  BY <1>1 DEF In
<1>4. k \notin In({"backlog"}) BY DEF In
<1>5. backlog \in Seq(Conns) /\ Injective(backlog) /\ Elements(backlog) = In({"backlog"})
  BY DEF Types, Waiting
<1>6. backlog' \in Seq(Conns) /\ Injective(backlog') /\ Elements(backlog') = In({"backlog"})'
  <2>1. CASE ~running BY <1>3, <1>5, <2>1
  <2>2. CASE running
    <3>1. backlog' = Append(backlog, k) /\ In({"backlog"})' = In({"backlog"}) \cup {k}
      BY <1>3, <2>2
    <3>2. /\ Append(backlog, k) \in Seq(Conns) /\ Injective(Append(backlog, k))
          /\ Elements(Append(backlog, k)) = Elements(backlog) \cup {k}
      BY <1>4, <1>5, Enqueue
    <3>3. QED BY <1>5, <3>1, <3>2
  <2>3. QED BY <2>1, <2>2
<1>7. QED BY <1>2, <1>6 DEF Waiting

\* What is owed on a new connection.
LEMMA NewOwed ==
  /\ NewConn \in Connections /\ NewConn.up = <<>> /\ NewConn.down = <<>>
  /\ Len(NewConn.up) = 0 /\ Len(NewConn.down) = 0 /\ OnlyFirst(NewConn.up)
  /\ Owed(NewConn) \in {0, 1} /\ Due(NewConn) \in {0, 1}
  /\ NewConn.link \notin {"none", "closed"} /\ Ends(NewConn)
  /\ Draining(NewConn, "none") /\ Fits(NewConn)
<1>1. /\ NewConn \in Connections /\ NewConn.up = <<>> /\ NewConn.down = <<>>
      /\ NewConn.link \notin {"none", "closed"} /\ Ends(NewConn)
  BY NewFields
<1>2. Len(<<>>) = 0 OBVIOUS
<1>3. NewConn.up \in Seq(Requests) BY <1>1, ConnFields
<1>4. Asking(NewConn.up) = 0 /\ FirstAsks(NewConn.up) = 0 /\ OnlyFirst(NewConn.up)
  BY <1>1, <1>3, AskingType
<1>5. Pending(NewConn) \in {0, 1} BY DEF Pending
<1>6. Owed(NewConn) \in {0, 1} /\ Due(NewConn) \in {0, 1}
  <2>1. \A o \in {0, 1} : 0 + 0 + o \in {0, 1} BY SMT
  <2>2. QED BY <1>1, <1>2, <1>4, <1>5, <2>1 DEF Owed, Due
<1>7. Draining(NewConn, "none")
  <2>1. DOMAIN <<>> = {} BY SMT
  <2>2. QED BY <1>1, <1>2, <2>1, Fresh DEF Draining
<1>8. Fits(NewConn) BY <1>1, <1>2, EmptyFits
<1>9. QED BY <1>1, <1>2, <1>4, <1>6, <1>7, <1>8

LEMMA OpenStep ==
  ASSUME Types, Waiting, NEW c \in Clients, Local(c), pc[c] = "start",
         NEW to \in {"drain", "register"},
         program[c] = "probe" <=> to = "register",
         pc' = Set(pc, c, to), conn' = [conn EXCEPT ![Cur(c)] = NewConn],
         backlog' = (IF running THEN Append(backlog, Cur(c)) ELSE backlog),
         UNCHANGED <<program, asked, attempt, left, code, shown, late, queue, running,
                     restarts, m_entries, decision, displaced>>
  PROVE  Steps(c)
<1>1. Shape(c) /\ Budget(c) /\ Synced(c) /\ Registered(c) BY DEF Local
<1>2. /\ attempt[c] \in 0..MaxAttempts /\ Cur(c) = <<c, attempt[c]>> /\ Cur(c) \in Conns
      /\ conn[Cur(c)] \in Connections
      /\ left[c] \in 0..MaxCommands /\ MaxCommands \in Nat /\ MaxCommands > 0
  <2>1. left[c] \in 0..MaxCommands BY DEF Types
  <2>2. QED BY <1>1, <2>1, OwnCur DEF Budget
<1>3. attempt[c] = 0 /\ asked[c] = "none" /\ code[c] = "running"
      /\ \A i \in 0..MaxAttempts : conn[<<c, i>>] = NoConn
  BY <1>1 DEF Shape, AskedAt
<1>4. conn[Cur(c)].srv = "none" BY <1>2, <1>3, NewFields
<1>5. /\ NewConn \in Connections /\ NewConn.up = <<>> /\ NewConn.down = <<>>
      /\ Len(NewConn.up) = 0 /\ Len(NewConn.down) = 0 /\ OnlyFirst(NewConn.up)
      /\ Owed(NewConn) \in {0, 1} /\ Due(NewConn) \in {0, 1}
      /\ NewConn.link \notin {"none", "closed"} /\ Ends(NewConn) /\ Fits(NewConn)
  BY NewOwed
<1>6. /\ pc' \in [Clients -> {"start", "drain", "register", "query", "heartbeat",
                              "menu", "retry", "exit"}]
      /\ pc'[c] = to /\ \A d \in Clients : d # c => pc'[d] = pc[d]
  BY DEF Types, Set
<1>7. /\ conn' \in [Conns -> Connections] /\ conn'[Cur(c)] = NewConn
      /\ \A i \in 0..MaxAttempts : i # attempt[c] => conn'[<<c, i>>] = conn[<<c, i>>]
      /\ \A d \in Clients, i \in 0..MaxAttempts : d # c => conn'[<<d, i>>] = conn[<<d, i>>]
  BY <1>5, OwnConn
<1>8. backlog' \in Seq(Conns) /\ Waiting'
  <2>1. \A j \in Conns : j # Cur(c) => conn'[j].srv = conn[j].srv BY <1>2, <1>5, OneConn
  <2>2. QED BY <1>2, <1>4, <1>7, <2>1, OpenWaiting
<1>9. Types' BY <1>6, <1>7, <1>8 DEF Types
<1>10. Cur(c)' = Cur(c) /\ conn'[Cur(c)'] = NewConn BY <1>7 DEF Cur
<1>11. ASSUME NEW i \in 0..MaxAttempts
       PROVE  /\ Ends(conn'[<<c, i>>]) /\ Fits(conn'[<<c, i>>])
              /\ i > attempt[c] => conn'[<<c, i>>] = NoConn
  <2>1. CASE i = attempt[c]
    <3>1. conn'[<<c, i>>] = NewConn BY <1>2, <1>7, <2>1
    <3>2. ~(i > attempt[c]) BY <2>1, UpTo, ProgramsAssumption
    <3>3. QED BY <1>5, <3>1, <3>2
  <2>2. CASE i # attempt[c] BY <1>1, <1>3, <1>7, <2>2 DEF Shape, Budget
  <2>3. QED BY <2>1, <2>2
<1>12. to \in PlacesIn(program[c])
  BY DEF Types, Programs, PlacesIn
<1>13. "none" \in AskedAt(to) BY DEF AskedAt
<1>14. Shape(c)'
  <2>1. \A i \in 0..MaxAttempts : ~(i < 0) BY UpTo, ProgramsAssumption
  <2>2. QED BY <1>2, <1>3, <1>5, <1>6, <1>10, <1>11, <1>12, <1>13, <2>1 DEF Shape
<1>15. Sent(c)' = 0 BY <1>3, <1>6 DEF Sent
<1>16. Demo(c, conn[Cur(c)])' /\ Probe(c, conn[Cur(c)])'
  <2>1. 0 + left[c] <= MaxCommands + 0 /\ Owed(NewConn) + left[c] <= MaxCommands + 1
    BY <1>2, <1>5, Fresh
  <2>2. Due(NewConn) <= 1 + 0 /\ ~(0 > 0) BY <1>5, Fresh
  <2>3. left'[c] = left[c] /\ attempt'[c] = 0 BY <1>3
  <2>4. Demo(c, conn[Cur(c)])' BY <1>5, <1>10, <1>15, <2>1, <2>3 DEF Demo
  <2>5. Probe(c, conn[Cur(c)])' BY <1>5, <1>10, <1>15, <2>1, <2>2, <2>3 DEF Probe
  <2>6. QED BY <2>4, <2>5
<1>18. Budget(c)' BY <1>2, <1>11, <1>16 DEF Budget
<1>19. Synced(c)'
  <2>1. program[c] # "probe" /\ ~late[c] => ShownRight(c)' BY <1>1 DEF Synced, ShownRight
  <2>2. Draining(NewConn, "none") BY NewOwed
  <2>3. QED BY <1>3, <1>6, <1>10, <2>1, <2>2 DEF Synced
<1>20. Registered(c)'
  <2>1. program[c] = "connect_basic" => ~late[c] /\ to = "drain" BY <1>1 DEF Registered
  <2>2. QED BY <1>3, <1>6, <2>1 DEF Registered
<1>21. ASSUME NEW d \in Clients, d # c PROVE Kept(d) BY <1>6, <1>7, <1>21 DEF Kept
<1>22. QED BY <1>8, <1>9, <1>14, <1>18, <1>19, <1>20, <1>21 DEF Local, Steps

LEMMA ConnectStep ==
  ASSUME Types, Waiting, NEW c \in Clients, Local(c), NEW to \in {"drain", "register"},
         program[c] = "probe" <=> to = "register", Connect(c, to)
  PROVE  Steps(c)
<1>1. pc[c] = "start" /\ UNCHANGED <<program, asked, attempt, left, shown, late, queue, running,
                                     restarts, m_entries, decision, displaced>>
  BY DEF Connect
<1>2. CASE Exit(c, "failure") /\ backlog' = backlog
  <2>1. asked[c] = "none" BY <1>1 DEF Local, Shape, AskedAt
  <2>2. UNCHANGED serverVars /\ UNCHANGED <<program, asked, attempt, late>> /\ shown' = shown
    BY <1>1, <1>2 DEF serverVars
  <2>3. /\ left' \in [Clients -> 0..MaxCommands] /\ left'[c] <= left[c]
        /\ \A d \in Clients : d # c => left'[d] = left[d]
    BY SMT, <1>1, ProgramsAssumption DEF Types
  <2>4. QED BY <1>2, <2>1, <2>2, <2>3, ExitStep
<1>3. CASE /\ pc' = Set(pc, c, to) /\ conn' = [conn EXCEPT ![Cur(c)] = NewConn]
           /\ backlog' = IF running THEN Append(backlog, Cur(c)) ELSE backlog
           /\ code' = code
  <2>1. UNCHANGED <<program, asked, attempt, left, code, shown, late, queue, running,
                    restarts, m_entries, decision, displaced>>
    BY <1>1, <1>3
  <2>2. QED BY <1>1, <1>3, <2>1, OpenStep
<1>4. QED BY <1>2, <1>3 DEF Connect

\* The programs end by themselves.
LEMMA LeaveStep ==
  ASSUME Types, Waiting, NEW c \in Clients, Local(c), program[c] # "connect_basic",
         NEW how \in {"success", "failure"}, Leave(c, how)
  PROVE  Steps(c)
<1>1. /\ asked[c] = "none" /\ Exit(c, how)
      /\ UNCHANGED <<program, asked, attempt, left, shown, late>> /\ UNCHANGED serverVars
  BY DEF Leave
<1>2. /\ left' \in [Clients -> 0..MaxCommands] /\ left'[c] <= left[c]
      /\ \A d \in Clients : d # c => left'[d] = left[d]
  BY SMT, <1>1, ProgramsAssumption DEF Types
<1>3. UNCHANGED <<program, asked, attempt, late>> /\ shown' = shown BY <1>1
<1>4. QED BY <1>1, <1>2, <1>3, ExitStep

LEMMA ReconnectStep ==
  ASSUME Types, Waiting, NEW c \in Clients, Local(c), program[c] = "probe", pc[c] = "retry",
         Reconnect(c)
  PROVE  Steps(c)
<1> DEFINE a == attempt[c]
           k == <<c, a + 1>>
           r == conn[Cur(c)]
           old == CloseLink(r)
           closed == [conn EXCEPT ![Cur(c)] = old]
<1>1. Shape(c) /\ Budget(c) BY DEF Local
<1>2. /\ a \in 0..MaxAttempts /\ Cur(c) = <<c, a>> /\ Cur(c) \in Conns
      /\ r \in Connections /\ Ends(r) /\ MaxCommands \in Nat /\ MaxCommands > 0
  BY <1>1, OwnCur DEF Budget
<1>3. /\ a < MaxAttempts /\ attempt' = Set(attempt, c, a + 1)
      /\ decision' = Set(decision, c, "none")
      /\ UNCHANGED <<program, asked, left, code, shown, late, queue, running,
                     restarts, m_entries, displaced>>
  BY DEF Reconnect, MayRetry
<1>4. \/ /\ pc' = Set(pc, c, "register") /\ conn' = [closed EXCEPT ![k] = NewConn]
         /\ backlog' = IF running THEN Append(backlog, k) ELSE backlog
      \/ conn' = closed /\ UNCHANGED <<pc, backlog>>
  BY DEF Reconnect
<1>5. a + 1 \in 0..MaxAttempts /\ k \in Conns /\ k # Cur(c)
  <2>1. a + 1 \in 0..MaxAttempts /\ a + 1 # a BY <1>2, <1>3, UpTo, ProgramsAssumption
  <2>2. <<c, a + 1>> # <<c, a>> BY <2>1
  <2>3. QED BY <1>2, <2>1, <2>2 DEF Conns
<1>6. conn[k] = NoConn /\ conn[k].srv = "none"
  <2>1. a + 1 > a BY <1>2, UpTo, ProgramsAssumption
  <2>2. QED BY <1>1, <1>5, <2>1, NewFields DEF Shape
<1>7. /\ old \in Connections /\ old.srv = r.srv /\ old.up = r.up
      /\ r.link = "none" => old = r
      /\ r.link # "none" => old.link = "closed" /\ old.down = <<>>
  BY <1>2, CloseFields
<1> HIDE DEF old
<1>8. Ends(old) /\ old.link \in {"none", "closed"} /\ old.down = <<>> BY <1>2, <1>7 DEF Ends
<1>9. /\ NewConn \in Connections /\ NewConn.up = <<>> /\ NewConn.down = <<>>
      /\ Len(NewConn.up) = 0 /\ Len(NewConn.down) = 0 /\ OnlyFirst(NewConn.up)
      /\ Owed(NewConn) \in {0, 1} /\ Due(NewConn) \in {0, 1}
      /\ NewConn.link \notin {"none", "closed"} /\ Ends(NewConn) /\ Fits(NewConn)
  BY NewOwed
<1>10. /\ conn' \in [Conns -> Connections]
       /\ conn'[Cur(c)] = old /\ conn'[k] \in {NoConn, NewConn}
       /\ \A j \in Conns : j # k /\ j # Cur(c) => conn'[j] = conn[j]
  <2>1. /\ closed \in [Conns -> Connections] /\ closed[Cur(c)] = old /\ closed[k] = NoConn
        /\ \A j \in Conns : j # Cur(c) => closed[j] = conn[j]
    BY <1>2, <1>5, <1>6, <1>7 DEF Types
  <2> HIDE DEF closed
  <2>2. CASE conn' = closed BY ZenonT(30), <2>1, <2>2
  <2>3. CASE conn' = [closed EXCEPT ![k] = NewConn]
    <3>1. /\ conn' \in [Conns -> Connections] /\ conn'[k] = NewConn
          /\ \A j \in Conns : j # k => conn'[j] = closed[j]
      BY <1>5, <1>9, <2>1, <2>3, ExceptConn
    <3>2. QED BY <1>2, <1>5, <2>1, <3>1
  <2>4. QED BY <1>4, <2>2, <2>3
<1>11. /\ attempt' \in [Clients -> 0..MaxAttempts] /\ attempt'[c] = a + 1
       /\ \A d \in Clients : d # c => attempt'[d] = attempt[d]
  BY <1>3, <1>5 DEF Types, Set
<1>12. /\ decision' \in [Clients -> {"none", "OK", "ERR_DUPLICATE"}]
       /\ \A d \in Clients : d # c => decision'[d] = decision[d]
  BY <1>3 DEF Types, Set
<1>13. /\ pc' \in [Clients -> {"start", "drain", "register", "query", "heartbeat",
                               "menu", "retry", "exit"}]
       /\ \/ pc'[c] = "register" /\ conn'[k] = NewConn
          \/ pc'[c] = "retry" /\ conn'[k] = NoConn
       /\ \A d \in Clients : d # c => pc'[d] = pc[d]
  <2>1. CASE pc' = Set(pc, c, "register") /\ conn' = [closed EXCEPT ![k] = NewConn]
    <3>1. conn'[k] = NewConn BY <1>5, <2>1 DEF Types
    <3>2. QED BY <2>1, <3>1 DEF Types, Set
  <2>2. CASE pc' = pc /\ conn' = closed
    <3>1. conn'[k] = NoConn BY <1>5, <1>6, <2>2 DEF Types
    <3>2. QED BY <2>2, <3>1 DEF Types
  <2>3. QED BY <1>4, <2>1, <2>2
<1>14. backlog' \in Seq(Conns) /\ Waiting'
  <2>1. \A j \in Conns : j # k => conn'[j].srv = conn[j].srv BY <1>7, <1>10
  <2>2. CASE conn' = [closed EXCEPT ![k] = NewConn]
             /\ backlog' = IF running THEN Append(backlog, k) ELSE backlog
    <3>1. conn'[k] = NewConn BY <1>5, <2>2 DEF Types
    <3>2. QED BY ZenonT(30), <1>3, <1>5, <1>6, <2>1, <2>2, <3>1, OpenWaiting
  <2>3. CASE conn' = closed /\ backlog' = backlog
    <3>1. backlog \in Seq(Conns) BY DEF Types
    <3>2. QED BY <1>2, <1>3, <1>7, <2>3, <3>1, WaitingSame
  <2>4. QED BY <1>4, <2>2, <2>3
<1>15. Types' BY ZenonT(30), <1>3, <1>10, <1>11, <1>12, <1>13, <1>14 DEF Types
<1>16. Cur(c)' = k /\ conn'[Cur(c)'] = conn'[k] BY ZenonT(30), <1>11 DEF Cur
<1>17. Fits(old) /\ Fits(NoConn)
  <2>1. Fits(r) /\ Fits(conn[k]) BY <1>1, <1>2, <1>5 DEF Budget
  <2>2. Fits(old) BY <1>7, <1>8, <2>1, DroppedFits
  <2>3. QED BY <1>6, <2>1, <2>2
<1>18. ASSUME NEW i \in 0..MaxAttempts
       PROVE  /\ Ends(conn'[<<c, i>>]) /\ Fits(conn'[<<c, i>>])
              /\ i > a + 1 => conn'[<<c, i>>] = NoConn
              /\ i < a + 1 => conn'[<<c, i>>].link \in {"none", "closed"}
  <2>1. Ends(NoConn) BY ZenonT(30), NewFields
  <2>2. CASE i = a
    <3>1. conn'[<<c, i>>] = old BY <1>2, <1>10, <2>2
    <3>2. ~(a > a + 1) BY <1>2, UpTo, ProgramsAssumption
    <3>3. QED BY <1>8, <1>17, <2>2, <3>1, <3>2
  <2>3. CASE i = a + 1
    <3>1. conn'[<<c, i>>] \in {NoConn, NewConn} BY <1>10, <2>3
    <3>2. ~(i > a + 1) /\ ~(i < a + 1) BY <1>2, <2>3, UpTo, ProgramsAssumption
    <3>3. QED BY <1>9, <1>17, <2>1, <3>1, <3>2
  <2>4. CASE i # a /\ i # a + 1
    <3>1. <<c, i>> \in Conns /\ <<c, i>> # k /\ <<c, i>> # Cur(c)
      <4>1. <<c, i>> # <<c, a>> /\ <<c, i>> # <<c, a + 1>> BY <2>4
      <4>2. QED BY <1>2, <4>1 DEF Conns
    <3>2. conn'[<<c, i>>] = conn[<<c, i>>] BY ZenonT(30), <1>10, <3>1
    <3>3. (i > a + 1 => i > a) /\ (i < a + 1 => i < a)
      BY <1>2, <2>4, UpTo, ProgramsAssumption
    <3>4. QED BY <1>1, <3>2, <3>3 DEF Shape, Budget
  <2>5. QED BY <2>2, <2>3, <2>4
<1>19. asked[c] = "none" /\ code[c] = "running" BY <1>1 DEF Shape, AskedAt
<1>20. Shape(c)'
  <2>1. /\ pc'[c] \in {"register", "retry"} /\ "none" \in AskedAt(pc'[c])
        /\ pc'[c] \in PlacesIn(program'[c])
        /\ pc'[c] = "register" => conn'[k].link \notin {"none", "closed"}
    BY <1>3, <1>9, <1>13 DEF AskedAt, PlacesIn
  <2>2. QED BY <1>3, <1>11, <1>16, <1>18, <1>19, <2>1 DEF Shape
<1>21. Budget(c)'
  <2>1. Sent(c)' = IF pc'[c] = "register" THEN 0 ELSE 1 BY <1>3, <1>13, <1>19 DEF Sent
  <2>2. pc'[c] = "retry" => conn'[k].link = "none" BY <1>9, <1>13, NewFields
  <2>3. a + 1 \in Nat /\ a + 1 # 0 BY ZenonT(30), <1>2, UpTo, ProgramsAssumption
  <2>4. Probe(c, conn[Cur(c)])'
    <3>1. CASE pc'[c] = "register" /\ conn'[k] = NewConn
      <4>1. Sent(c)' = 0 /\ 0 <= 0 /\ Due(NewConn) <= 1 + 0 BY <1>9, <2>1, <3>1, Fresh
      <4>2. QED BY <1>9, <1>11, <1>16, <2>3, <3>1, <4>1 DEF Probe
    <3>2. CASE pc'[c] = "retry" /\ conn'[k] = NoConn
      <4>1. Sent(c)' # 0 BY <2>1, <3>2, Fresh
      <4>2. QED BY <1>16, <2>2, <3>2, <4>1 DEF Probe
    <3>3. QED BY <1>13, <3>1, <3>2
  <2>5. QED BY <1>2, <1>3, <1>18, <2>4 DEF Budget
<1>22. Synced(c)' /\ Registered(c)' BY <1>3 DEF Synced, Registered
<1>23. ASSUME NEW d \in Clients, d # c PROVE Kept(d)
  <2>1. \A i \in 0..MaxAttempts : conn'[<<d, i>>] = conn[<<d, i>>]
    <3> SUFFICES ASSUME NEW i \in 0..MaxAttempts PROVE conn'[<<d, i>>] = conn[<<d, i>>] OBVIOUS
    <3>1. <<d, i>> # <<c, a>> /\ <<d, i>> # <<c, a + 1>> BY <1>23
    <3>2. QED BY <1>2, <1>10, <1>23, <3>1 DEF Conns
  <2>2. QED BY ZenonT(30), <1>3, <1>11, <1>12, <1>13, <1>23, <2>1 DEF Kept
<1>24. QED BY <1>14, <1>15, <1>20, <1>21, <1>22, <1>23 DEF Local, Steps

(***************************************************************************)
(* The programs: each of their steps is one of the above.                  *)
(***************************************************************************)

LEMMA CallStep ==
  ASSUME Types, Waiting, NEW c \in Clients, Local(c), NEW cmd, NEW id, NEW good, NEW yes, NEW no,
         [type |-> cmd, id |-> id] \in Requests, Call(c, cmd, id, good, yes, no),
         pc[c] \in {"drain", "register", "query"}, cmd \in AskedAt(pc[c]),
         \A f \in Frames \cup {NoFrame} : GoesTo(c, f) = IF f \in good THEN yes ELSE no
  PROVE  Steps(c)
<1>1. CASE Send(c, cmd, id) /\ left' = left BY <1>1, SendStep
<1>2. CASE Return(c, good, yes, no) BY <1>2, ReturnStep
<1>3. QED BY <1>1, <1>2 DEF Call

LEMMA ProgramRequests ==
  ASSUME NEW c \in Clients
  PROVE  /\ [type |-> "HEARTBEAT", id |-> EmptyId] \in Requests
         /\ [type |-> "REGISTER", id |-> NodeOf[c]] \in Requests
         /\ [type |-> "QUERY_NODE", id |-> NodeOf[c]] \in Requests
<1>1. NodeOf[c] \in NodeIds BY ProgramsAssumption
<1>2. QED BY <1>1 DEF Requests

LEMMA ConnectBasicStep ==
  ASSUME Types, Waiting, NEW c \in Clients, Local(c), program[c] = "connect_basic",
         connect_basic(c)
  PROVE  Steps(c)
<1>1. CASE Connect(c, "drain") BY ZenonT(30), <1>1, ConnectStep
<1>2. CASE pc[c] = "drain" /\ Call(c, "HEARTBEAT", EmptyId, Answered, "register", "failure")
  <2>1. \A f \in Frames \cup {NoFrame} :
          GoesTo(c, f) = IF f \in Answered THEN "register" ELSE "failure"
    BY <1>2 DEF GoesTo
  <2>2. "HEARTBEAT" \in AskedAt(pc[c]) BY <1>2 DEF AskedAt
  <2>3. [type |-> "HEARTBEAT", id |-> EmptyId] \in Requests BY ProgramRequests
  <2>4. /\ pc[c] \in {"drain", "register", "query"}
        /\ Call(c, "HEARTBEAT", EmptyId, Answered, "register", "failure")
    BY <1>2
  <2>5. QED BY SMT, <2>1, <2>2, <2>3, <2>4, CallStep
<1>3. CASE pc[c] = "register" /\ Call(c, "REGISTER", NodeOf[c], Acked, "query", "failure")
  <2>1. \A f \in Frames \cup {NoFrame} :
          GoesTo(c, f) = IF f \in Acked THEN "query" ELSE "failure"
    BY <1>3 DEF GoesTo
  <2>2. "REGISTER" \in AskedAt(pc[c]) BY <1>3 DEF AskedAt
  <2>3. QED BY <1>3, <2>1, <2>2, ProgramRequests, CallStep
<1>4. CASE pc[c] = "query" /\ Call(c, "QUERY_NODE", NodeOf[c], Acked, "success", "failure")
  <2>1. \A f \in Frames \cup {NoFrame} :
          GoesTo(c, f) = IF f \in Acked THEN "success" ELSE "failure"
    BY <1>4 DEF GoesTo
  <2>2. "QUERY_NODE" \in AskedAt(pc[c]) BY <1>4 DEF AskedAt
  <2>3. QED BY <1>4, <2>1, <2>2, ProgramRequests, CallStep
<1>5. QED BY <1>1, <1>2, <1>3, <1>4 DEF connect_basic

LEMMA EopDemoStep ==
  ASSUME Types, Waiting, NEW c \in Clients, Local(c), program[c] = "eop_demo", eop_demo(c)
  PROVE  Steps(c)
<1>1. CASE Connect(c, "drain") BY <1>1, ConnectStep
<1>2. CASE pc[c] = "drain" /\ Call(c, "HEARTBEAT", EmptyId, Answered, "menu", "menu")
  <2>1. \A f \in Frames \cup {NoFrame} :
          GoesTo(c, f) = IF f \in Answered THEN "menu" ELSE "menu"
    BY <1>2 DEF GoesTo
  <2>2. "HEARTBEAT" \in AskedAt(pc[c]) BY <1>2 DEF AskedAt
  <2>3. [type |-> "HEARTBEAT", id |-> EmptyId] \in Requests BY ProgramRequests
  <2>4. /\ pc[c] \in {"drain", "register", "query"}
        /\ Call(c, "HEARTBEAT", EmptyId, Answered, "menu", "menu")
    BY <1>2
  <2>5. QED BY <2>1, <2>2, <2>3, <2>4, CallStep
<1>3. CASE /\ pc[c] = "menu" /\ left[c] > 0 /\ left' = Set(left, c, left[c] - 1)
           /\ \E req \in MenuRequests : Send(c, req.type, req.id)
  <2>1. PICK req \in MenuRequests : Send(c, req.type, req.id) BY <1>3
  <2>2. req \in Requests BY ProgramsAssumption
  <2>3. [type |-> req.type, id |-> req.id] \in Requests /\ req.type \in Commands
    BY <2>2 DEF Requests, Commands
  <2>4. req.type \in AskedAt(pc[c]) BY <1>3, <2>3 DEF AskedAt
  <2>5. QED BY <1>3, <2>1, <2>3, <2>4, SendStep
<1>4. CASE pc[c] = "menu" /\ Return(c, Answered, "menu", "menu")
  <2>1. \A f \in Frames \cup {NoFrame} :
          GoesTo(c, f) = IF f \in Answered THEN "menu" ELSE "menu"
    BY <1>4 DEF GoesTo
  <2>2. QED BY <1>4, <2>1, ReturnStep
<1>5. CASE Leave(c, "success") BY <1>5, LeaveStep
<1>6. QED BY <1>1, <1>2, <1>3, <1>4, <1>5 DEF eop_demo, DemoCommand

LEMMA ProbeStep ==
  ASSUME Types, Waiting, NEW c \in Clients, Local(c), program[c] = "probe", probe(c)
  PROVE  Steps(c)
<1>1. CASE Connect(c, "register") BY <1>1, ConnectStep
<1>2. CASE pc[c] = "register" /\ attempt[c] = 0 /\ do_register(c, "heartbeat", "failure")
  <2>1. \A f \in Frames \cup {NoFrame} :
          GoesTo(c, f) = IF f \in Acked THEN "heartbeat" ELSE "failure"
    BY SMT, <1>2 DEF GoesTo
  <2>2. "REGISTER" \in AskedAt(pc[c]) BY <1>2 DEF AskedAt
  <2>3. Call(c, "REGISTER", NodeOf[c], Acked, "heartbeat", "failure") BY <1>2 DEF do_register
  <2>4. QED BY <1>2, <2>1, <2>2, <2>3, ProgramRequests, CallStep
<1>3. CASE pc[c] = "register" /\ attempt[c] > 0 /\ do_register(c, "success", "retry")
  <2>1. \A f \in Frames \cup {NoFrame} :
          GoesTo(c, f) = IF f \in Acked THEN "success" ELSE "retry"
    BY SMT, <1>3 DEF GoesTo
  <2>2. "REGISTER" \in AskedAt(pc[c]) BY <1>3 DEF AskedAt
  <2>3. Call(c, "REGISTER", NodeOf[c], Acked, "success", "retry") BY <1>3 DEF do_register
  <2>4. QED BY <1>3, <2>1, <2>2, <2>3, ProgramRequests, CallStep
<1>4. CASE /\ pc[c] = "heartbeat" /\ left[c] > 0 /\ left' = Set(left, c, left[c] - 1)
           /\ Send(c, "HEARTBEAT", EmptyId)
  <2>1. "HEARTBEAT" \in AskedAt(pc[c]) BY <1>4 DEF AskedAt
  <2>2. QED BY <1>4, <2>1, ProgramRequests, SendStep
<1>5. CASE pc[c] = "heartbeat" /\ Return(c, Answered, "heartbeat", "retry")
  <2>1. \A f \in Frames \cup {NoFrame} :
          GoesTo(c, f) = IF f \in Answered THEN "heartbeat" ELSE "retry"
    BY <1>5 DEF GoesTo
  <2>2. QED BY SMT, <1>5, <2>1, ReturnStep
<1>6. CASE Leave(c, "failure") BY <1>6, LeaveStep
<1>7. CASE pc[c] = "retry" /\ Reconnect(c) BY <1>7, ReconnectStep
<1>8. QED BY <1>1, <1>2, <1>3, <1>4, <1>5, <1>6, <1>7 DEF probe

LEMMA ClientStep ==
  ASSUME Inv, NEW c \in Clients, Client(c)
  PROVE  Inv'
<1>1. Types /\ Waiting /\ Local(c) BY DEF Inv
<1>2. Steps(c)
  <2>1. CASE program[c] = "connect_basic" /\ connect_basic(c) BY <1>1, <2>1, ConnectBasicStep
  <2>2. CASE program[c] = "eop_demo" /\ eop_demo(c) BY <1>1, <2>2, EopDemoStep
  <2>3. CASE program[c] = "probe" /\ probe(c) BY <1>1, <2>3, ProbeStep
  <2>4. QED BY <2>1, <2>2, <2>3 DEF Client
<1>3. ASSUME NEW d \in Clients, d # c PROVE Local(d)'
  <2>1. Local(d) /\ Kept(d) BY <1>2, <1>3 DEF Inv, Steps
  <2>2. QED BY <1>1, <2>1, KeptLocal
<1>4. QED BY <1>2, <1>3 DEF Inv, Steps

LEMMA ServerKeepsInv ==
  ASSUME Inv, Types', Waiting', \A c \in Clients : ServerStep(c)
  PROVE  Inv'
<1>1. ASSUME NEW c \in Clients PROVE Local(c)'
  <2>1. Types /\ Local(c) /\ ServerStep(c) BY DEF Inv
  <2>2. QED BY <2>1, ServerLocal
<1>2. QED BY <1>1 DEF Inv

LEMMA InitInv == ASSUME Init PROVE Inv
<1>1. /\ program \in [Clients -> Programs] /\ left \in [Clients -> 1..MaxCommands]
      /\ {MaxAttempts, MaxCommands, MaxRestarts} \subseteq Nat
  BY ProgramsAssumption DEF Init
<1>2. NoEntries \in Registries BY ZenonT(30) DEF NoEntries, Registries
<1>3. \A k \in Conns : conn[k] = NoConn BY DEF Init
<1>4. /\ NoConn \in Connections /\ Ends(NoConn) /\ NoConn.link = "none" /\ NoConn.srv = "none"
      /\ NoConn.up = <<>> /\ NoConn.down = <<>>
  BY NewFields DEF NoConn
<1>5. Types
  <2>1. left \in [Clients -> 0..MaxCommands] BY SMT, <1>1
  <2>2. conn \in [Conns -> Connections] BY <1>4 DEF Init
  <2>3. shown \in [Clients -> [cmd : Commands \cup {"none"},
                               of : Commands \cup {"none", "welcome", "capacity"}]]
    BY DEF Init, Nothing
  <2>4. attempt \in [Clients -> 0..MaxAttempts] /\ restarts \in 0..MaxRestarts BY SMT, <1>1 DEF Init
  <2>5. backlog \in Seq(Conns) /\ queue \in Seq(Conns) BY SMT DEF Init
  <2>6. QED BY ZenonT(30), <1>1, <1>2, <2>1, <2>2, <2>3, <2>4, <2>5 DEF Init, Types
<1>6. Waiting
  <2>1. In({"backlog"}) = {} /\ In({"queued"}) = {} BY <1>3, <1>4 DEF In
  <2>2. Injective(<<>>) /\ Elements(<<>>) = {} BY SMT DEF Injective, Elements
  <2>3. QED BY <2>1, <2>2 DEF Init, Waiting
<1>7. ASSUME NEW c \in Clients PROVE Local(c)
  <2>1. /\ pc[c] = "start" /\ asked[c] = "none" /\ attempt[c] = 0 /\ code[c] = "running"
        /\ shown[c] = Nothing /\ ~late[c]
    BY DEF Init
  <2>2. program[c] \in Programs /\ left[c] \in 1..MaxCommands /\ MaxCommands \in Nat BY <1>1
  <2>3. \A i \in 0..MaxAttempts : conn[<<c, i>>] = NoConn BY <1>3 DEF Conns
  <2>4. Cur(c) = <<c, 0>> /\ conn[Cur(c)] = NoConn BY SMT, <1>1, <2>1, <2>3 DEF Cur
  <2>5. Shape(c)
    BY <1>4, <2>1, <2>2, <2>3 DEF Shape, PlacesIn, AskedAt, Programs
  <2>6. Len(NoConn.up) = 0 /\ Len(NoConn.down) = 0 BY <1>4
  <2>7. Sent(c) = 0 BY <2>1 DEF Sent
  <2>8. Demo(c, NoConn) BY SMT, <1>4, <2>2, <2>6, <2>7 DEF Demo
  <2>9. Probe(c, NoConn) BY <1>4, <2>1, <2>2, <2>6, <2>7 DEF Probe
  <2>10. Fits(NoConn) BY <2>6, EmptyFits
  <2>11. Budget(c)
    <3>1. MaxCommands > 0 BY <2>2, Plus
    <3>2. QED BY ZenonT(30), <2>3, <2>4, <2>8, <2>9, <2>10, <3>1 DEF Budget
  <2>12. Synced(c) BY SMT, <2>1 DEF Synced, ShownRight, Nothing
  <2>13. Registered(c) BY <2>1 DEF Registered
  <2>14. QED BY <2>5, <2>11, <2>12, <2>13 DEF Local
<1>8. QED BY <1>5, <1>6, <1>7 DEF Inv

LEMMA NextInv == ASSUME Inv, [Next]_vars PROVE Inv'
<1>1. Types /\ Waiting BY DEF Inv
<1>2. CASE UNCHANGED vars
  <2>1. UNCHANGED <<program, pc, asked, attempt, left, code, shown, late, backlog, queue, running,
                    restarts, m_entries, decision, displaced, conn>>
    BY <1>2 DEF vars, progVars, serverVars
  <2>2. Types' /\ Waiting' BY <1>1, <2>1 DEF Types, Waiting, In
  <2>3. \A d \in Clients : Kept(d) BY <2>1 DEF Kept
  <2>4. \A d \in Clients : Local(d)' BY <1>1, <2>3, KeptLocal DEF Inv
  <2>5. QED BY <2>2, <2>4 DEF Inv
<1>3. CASE \E c \in Clients : Client(c) BY <1>3, ClientStep
<1>4. CASE Accept \/ SendWelcome \/ Restart \/ Crash \/ \E k \in Conns : Session(k)
  <2>1. Types' /\ Waiting' /\ \A c \in Clients : ServerStep(c) BY <1>1, <1>4, ServerActions
  <2>2. QED BY <2>1, ServerKeepsInv
<1>5. QED BY <1>2, <1>3, <1>4 DEF Next, Progress

LEMMA SpecInv == Spec => []Inv
<1>1. Init => Inv BY InitInv
<1>2. Inv /\ [Next]_vars => Inv' BY NextInv
<1>3. QED BY <1>1, <1>2, PTL DEF Spec

-----------------------------------------------------------------------------

\* Whatever the programs send and the server answers, no connection carries
\* more frames than the menu choices or heartbeats of its program can cause.
THEOREM ProgramTypes == Spec => []TypeOK
<1>1. Inv => TypeOK
  <2> SUFFICES ASSUME Inv PROVE TypeOK OBVIOUS
  <2>1. ASSUME NEW k \in Conns
        PROVE  Len(conn[k].up) <= MaxCommands + 1 /\ Len(conn[k].down) <= MaxCommands + 1
    <3>1. PICK c \in Clients, i \in 0..MaxAttempts : k = <<c, i>> BY SMT DEF Conns
    <3>2. Fits(conn[<<c, i>>]) BY DEF Inv, Local, Budget
    <3>3. QED BY <3>1, <3>2 DEF Fits
  <2>2. QED BY <2>1 DEF Inv, Types, TypeOK
<1>2. QED BY <1>1, SpecInv, PTL

\* connect_basic and eop_demo, which drain the welcome frame first, take for
\* the answer to a command nothing but the answer to that command, as long as
\* neither the drain nor an earlier command timed out.
THEOREM ProgramsInStep == Spec => []InStep
<1>1. Inv => InStep BY DEF Inv, Local, Synced, ShownRight, InStep
<1>2. QED BY <1>1, SpecInv, PTL

\* connect_basic exits with EXIT_SUCCESS only when the server registered its
\* node, however the crashes, refusals and time-outs fall.
THEOREM ProgramRegistered == Spec => []SuccessMeansRegistered
<1>1. Inv => SuccessMeansRegistered BY DEF Inv, Local, Registered, SuccessMeansRegistered
<1>2. QED BY <1>1, SpecInv, PTL

=============================================================================
