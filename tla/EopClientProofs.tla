-------------------------- MODULE EopClientProofs ---------------------------
(***************************************************************************)
(* Theorems about EopClient, for any number of threads, calls and message  *)
(* ids.                                                                    *)
(***************************************************************************)
EXTENDS EopClient, SequenceLemmas, FiniteSetTheorems, TLAPS

(***************************************************************************)
(* The places of a sequence that hold an element of a kind, and how many   *)
(* there are.                                                              *)
(***************************************************************************)
PlacesOf(s, Kind) == {i \in DOMAIN s : s[i] \in Kind}
Count(s, Kind) == Cardinality(PlacesOf(s, Kind))

LEMMA CountType ==
  ASSUME NEW S, NEW s \in Seq(S), NEW Kind
  PROVE  /\ IsFiniteSet(PlacesOf(s, Kind))
         /\ Count(s, Kind) \in Nat
         /\ Count(s, Kind) = 0 <=> \A i \in DOMAIN s : s[i] \notin Kind
<1>1. DOMAIN s = 1..Len(s) /\ Len(s) \in Nat OBVIOUS
<1>2. IsFiniteSet(1..Len(s)) BY <1>1, FS_Interval
<1>3. IsFiniteSet(PlacesOf(s, Kind)) BY <1>1, <1>2, FS_Subset DEF PlacesOf
<1>4. Count(s, Kind) \in Nat BY <1>3, FS_CardinalityType DEF Count
<1>5. Count(s, Kind) = 0 <=> PlacesOf(s, Kind) = {} BY <1>3, FS_EmptySet DEF Count
<1>6. PlacesOf(s, Kind) = {} <=> \A i \in DOMAIN s : s[i] \notin Kind BY DEF PlacesOf
<1>7. QED BY <1>3, <1>4, <1>5, <1>6

LEMMA CountEmpty == \A Kind : Count(<< >>, Kind) = 0
<1> SUFFICES ASSUME NEW Kind PROVE Count(<< >>, Kind) = 0 OBVIOUS
<1>1. PlacesOf(<< >>, Kind) = {} BY DEF PlacesOf
<1>2. QED BY <1>1, FS_EmptySet DEF Count

LEMMA CountAppend ==
  ASSUME NEW S, NEW s \in Seq(S), NEW x \in S, NEW Kind
  PROVE  Count(Append(s, x), Kind) = Count(s, Kind) + (IF x \in Kind THEN 1 ELSE 0)
<1> DEFINE r == Append(s, x)
           n == Len(s) + 1
<1>1. /\ DOMAIN s = 1..Len(s) /\ Len(s) \in Nat
      /\ DOMAIN r = 1..n /\ r[n] = x
      /\ \A i \in 1..Len(s) : r[i] = s[i]
  OBVIOUS
<1> HIDE DEF r
<1>2. /\ DOMAIN r = DOMAIN s \cup {n} /\ n \notin DOMAIN s
      /\ r[n] = x /\ \A i \in DOMAIN s : r[i] = s[i]
  BY <1>1
<1> HIDE DEF n
<1>3. IsFiniteSet(PlacesOf(s, Kind)) /\ Count(s, Kind) \in Nat BY CountType
<1>4. n \notin PlacesOf(s, Kind) BY <1>2 DEF PlacesOf
<1>5. CASE x \in Kind
  <2>1. PlacesOf(r, Kind) = PlacesOf(s, Kind) \cup {n} BY <1>2, <1>5 DEF PlacesOf
  <2>2. QED BY <1>3, <1>4, <1>5, <2>1, FS_AddElement DEF Count, r
<1>6. CASE x \notin Kind
  <2>1. PlacesOf(r, Kind) = PlacesOf(s, Kind) BY <1>2, <1>6 DEF PlacesOf
  <2>2. QED BY <1>3, <1>6, <2>1 DEF Count, r
<1>7. QED BY <1>5, <1>6

LEMMA CountTail ==
  ASSUME NEW S, NEW s \in Seq(S), s # << >>, NEW Kind
  PROVE  Count(s, Kind) = Count(Tail(s), Kind) + (IF Head(s) \in Kind THEN 1 ELSE 0)
<1> DEFINE r == Tail(s)
<1>1. /\ DOMAIN s = 1..Len(s) /\ Len(s) \in Nat /\ Len(s) > 0
      /\ r \in Seq(S) /\ DOMAIN r = 1..(Len(s) - 1)
      /\ \A i \in DOMAIN r : r[i] = s[i + 1]
      /\ Head(s) = s[1]
  OBVIOUS
<1> HIDE DEF r
<1> DEFINE P == PlacesOf(s, Kind)
           Q == PlacesOf(r, Kind)
           shift == [i \in Q |-> i + 1]
<1>2. IsFiniteSet(P) /\ IsFiniteSet(Q) /\ Cardinality(P) \in Nat /\ Cardinality(Q) \in Nat
  BY <1>1, CountType DEF Count
<1>3. shift \in Bijection(Q, P \ {1})
  <2>1. \A i \in Q : i \in Nat /\ i > 0 /\ i + 1 \in P BY <1>1 DEF PlacesOf
  <2>2. shift \in [Q -> P \ {1}] BY <2>1
  <2>3. \A a, b \in Q : shift[a] = shift[b] => a = b BY <2>1
  <2>4. ASSUME NEW j \in P \ {1} PROVE \E i \in Q : shift[i] = j
    <3>1. j - 1 \in DOMAIN r /\ j = (j - 1) + 1 BY <1>1 DEF PlacesOf
    <3>2. j - 1 \in Q BY <3>1, <1>1 DEF PlacesOf
    <3>3. QED BY <3>1, <3>2
  <2> HIDE DEF shift
  <2>5. shift \in Injection(Q, P \ {1}) BY <2>2, <2>3 DEF Injection, IsInjective
  <2>6. shift \in Surjection(Q, P \ {1}) BY <2>2, <2>4 DEF Surjection
  <2>7. QED BY <2>5, <2>6 DEF Bijection
<1>4. Cardinality(P \ {1}) = Cardinality(Q)
  BY <1>2, <1>3, FS_Bijection DEF ExistsBijection
<1>5. 1 \in P <=> Head(s) \in Kind BY <1>1 DEF PlacesOf
<1>6. Cardinality(P \ {1}) = IF 1 \in P THEN Cardinality(P) - 1 ELSE Cardinality(P)
  BY <1>2, FS_RemoveElement
<1> HIDE DEF P, Q
<1>7. Cardinality(P) = Cardinality(Q) + (IF Head(s) \in Kind THEN 1 ELSE 0)
  BY <1>2, <1>4, <1>5, <1>6
<1>8. QED BY <1>7 DEF P, Q, Count, r

\* Most steps are first-order logic; those that need arithmetic or records cite SMT.
USE Zenon

(***************************************************************************)
(* The mutex is held by exactly the thread between lock and unlock; a      *)
(* thread inside the library uses a live handle and has made a call.       *)
(***************************************************************************)
Inside == {"send", "connect"} \cup Parts

Exclusive ==
  \A t \in Threads :
    /\ tpc[t] \in Inside <=> mutex = t
    /\ tpc[t] # "idle" => handle = "live" /\ call[t].op # "none"

(***************************************************************************)
(* The stream of a connection.  It ends with a whole frame; a thread that  *)
(* has read a part of one finds the rest.  Frames not taken are counted in *)
(* behind: none is forgotten, and once the stream is out of step it stays  *)
(* so, because the frame a call left half read is never taken.             *)
(***************************************************************************)
PayloadParts == {p \in [part : Parts, of : Frames] : p.part = "payload"}
Answerable == {r \in Requests : r.type # "HEARTBEAT"}

Stream ==
  /\ socket_fd = "none" => inbound = <<>> /\ ~desync
  /\ inbound # <<>> => inbound[Len(inbound)].part = "payload"
  /\ \A t \in Threads : tpc[t] \in {"header", "payload"} => inbound # <<>> /\ ~desync
  /\ desync => behind > 0
  /\ ~desync => behind >= Count(inbound, PayloadParts)
  /\ socket_fd = "open" /\ ~desync =>
       behind = Count(inbound, PayloadParts) + Count(outbound, Answerable)
                + (IF greeted THEN 0 ELSE 1)

Inv == TypeOK /\ Exclusive /\ Stream

(***************************************************************************)
(* A call that found nothing outstanding: until it is over every frame on  *)
(* its way is the answer to it.  A call that runs or failed has returned   *)
(* nothing.                                                                *)
(***************************************************************************)
InStep ==
  \A t \in Threads :
    tpc[t] \in {"send"} \cup Parts /\ call[t].lag = 0 =>
      /\ ~desync
      /\ tpc[t] = "send" => behind = 0
      /\ tpc[t] # "send" /\ call[t].type = "COMMAND" =>
           /\ \A i \in DOMAIN inbound : inbound[i].of = call[t].id
           /\ socket_fd = "open" =>
                /\ greeted
                /\ \A i \in DOMAIN outbound :
                     outbound[i].type # "HEARTBEAT" => outbound[i].id = call[t].id

Unanswered == \A t \in Threads : tpc[t] # "idle" => result[t] = NULL

(***************************************************************************)
(* The reason of a failed call is in the handle, and then with the thread  *)
(* that asked for it, unless it was overwritten.                           *)
(***************************************************************************)
ReasonKept ==
  \A t \in Threads :
    /\ tpc[t] = "failed" => owed[t] \in {last_error, "overwritten"}
    /\ tpc[t] = "asked" => owed[t] \in {seen[t], "overwritten"}

(***************************************************************************)
(* The streams as sequences                                                *)
(***************************************************************************)
StreamParts == [part : Parts, of : Frames]

\* What a frame of the server adds to the stream.
LEMMA FrameEffect ==
  ASSUME NEW s \in Seq(StreamParts), NEW name \in Frames
  PROVE  LET r == s \o FrameOf(name) IN
         /\ r \in Seq(StreamParts)
         /\ r # <<>> /\ r[Len(r)].part = "payload"
         /\ Count(r, PayloadParts) = Count(s, PayloadParts) + 1
         /\ \A i \in DOMAIN r : r[i].of = name \/ (i \in DOMAIN s /\ r[i] = s[i])
<1> DEFINE a == [part |-> "prefix", of |-> name]
           b == [part |-> "header", of |-> name]
           c == [part |-> "payload", of |-> name]
           r == s \o FrameOf(name)
<1>1. /\ a \in StreamParts /\ a \notin PayloadParts /\ a.of = name
      /\ b \in StreamParts /\ b \notin PayloadParts /\ b.of = name
      /\ c \in StreamParts /\ c \in PayloadParts /\ c.of = name /\ c.part = "payload"
  BY DEF StreamParts, Parts, PayloadParts
<1>2. FrameOf(name) = <<a, b, c>> BY DEF FrameOf
<1> HIDE DEF a, b, c
<1>3. /\ r = Append(Append(Append(s, a), b), c)
      /\ r \in Seq(StreamParts) /\ Len(r) = Len(s) + 3 /\ r[Len(s) + 3] = c
      /\ r[Len(s) + 1] = a /\ r[Len(s) + 2] = b
      /\ \A i \in 1..Len(s) : r[i] = s[i]
      /\ DOMAIN r = 1..(Len(s) + 3) /\ DOMAIN s = 1..Len(s) /\ Len(s) \in Nat
  BY SMT, <1>1, <1>2
<1> DEFINE s1 == Append(s, a)
           s2 == Append(s1, b)
<1>4. s1 \in Seq(StreamParts) /\ s2 \in Seq(StreamParts) BY SMT, <1>1
<1>5. Count(s1, PayloadParts) = Count(s, PayloadParts) + 0 BY <1>1, CountAppend, ZenonT(30)
<1> HIDE DEF s1
<1>6. Count(s2, PayloadParts) = Count(s1, PayloadParts) + 0 BY <1>1, <1>4, CountAppend
<1> HIDE DEF s2
<1>7. Count(Append(s2, c), PayloadParts) = Count(s2, PayloadParts) + 1
  BY SMT, <1>1, <1>4, CountAppend
<1>8. Count(s, PayloadParts) \in Nat BY CountType
<1>9. r = Append(s2, c) BY <1>3 DEF s1, s2
<1>10. Count(r, PayloadParts) = Count(s, PayloadParts) + 1 BY SMT, <1>5, <1>6, <1>7, <1>8, <1>9
<1> HIDE DEF r
<1>11. ASSUME NEW i \in DOMAIN r PROVE r[i].of = name \/ (i \in DOMAIN s /\ r[i] = s[i])
  <2>1. i \in 1..Len(s) \/ i = Len(s) + 1 \/ i = Len(s) + 2 \/ i = Len(s) + 3
    BY SMT, <1>3
  <2>2. QED BY <1>1, <1>3, <2>1
<1>12. r # <<>> /\ r[Len(r)].part = "payload" BY SMT, <1>1, <1>3
<1>13. QED BY <1>3, <1>10, <1>11, <1>12 DEF r

\* Taking a part off the stream: what ends it stays, unless it was the last.
LEMMA TakeEffect ==
  ASSUME NEW s \in Seq(StreamParts), s # <<>>
  PROVE  /\ Tail(s) \in Seq(StreamParts)
         /\ Head(s) \in StreamParts /\ Head(s) = s[1]
         /\ Tail(s) # <<>> => Tail(s)[Len(Tail(s))] = s[Len(s)]
         /\ Tail(s) = <<>> => Head(s) = s[Len(s)]
         /\ \A i \in DOMAIN Tail(s) : i + 1 \in DOMAIN s /\ Tail(s)[i] = s[i + 1]
         /\ Count(s, PayloadParts) =
              Count(Tail(s), PayloadParts) + (IF Head(s).part = "payload" THEN 1 ELSE 0)
<1>1. Head(s) \in StreamParts BY SMT
<1>2. Head(s) \in PayloadParts <=> Head(s).part = "payload"
  BY <1>1 DEF PayloadParts, StreamParts
<1>3. Count(s, PayloadParts) =
        Count(Tail(s), PayloadParts) + (IF Head(s) \in PayloadParts THEN 1 ELSE 0)
  BY CountTail
<1>4. /\ Tail(s) \in Seq(StreamParts) /\ Head(s) = s[1]
      /\ Len(s) \in Nat /\ Len(s) > 0 /\ Len(Tail(s)) = Len(s) - 1
      /\ DOMAIN s = 1..Len(s) /\ DOMAIN Tail(s) = 1..(Len(s) - 1)
      /\ \A i \in 1..(Len(s) - 1) : Tail(s)[i] = s[i + 1]
  BY SMT
<1>5. Tail(s) = <<>> <=> Len(s) = 1 BY SMT, <1>4
<1>6. Tail(s) # <<>> => Tail(s)[Len(Tail(s))] = s[Len(s)]
  <2>1. Tail(s) # <<>> => Len(s) - 1 \in 1..(Len(s) - 1) BY SMT, <1>4, <1>5
  <2>2. QED BY SMT, <1>4, <2>1
<1>7. Tail(s) = <<>> => Head(s) = s[Len(s)] BY <1>4, <1>5
<1>8. \A i \in DOMAIN Tail(s) : i + 1 \in DOMAIN s /\ Tail(s)[i] = s[i + 1] BY SMT, <1>4
<1>9. QED BY <1>1, <1>2, <1>3, <1>4, <1>6, <1>7, <1>8

(***************************************************************************)
(* Types                                                                   *)
(***************************************************************************)
LEMMA InitType == Init => TypeOK
<1> SUFFICES ASSUME Init PROVE TypeOK OBVIOUS
<1>1. greeted \in BOOLEAN /\ desync \in BOOLEAN BY DEF Init
<1>2. 0 \in MsgIds BY SMT, ClientAssumption DEF MsgIds
<1>3. NoCall \in [op : {"none", "command", "reconnect"}, type : Types,
                  id : MsgIds, lag : Nat]
  BY <1>2 DEF NoCall, Types
<1>4. call \in [Threads -> [op : {"none", "command", "reconnect"}, type : Types,
                            id : MsgIds, lag : Nat]]
  BY <1>3 DEF Init
<1>5. QED BY SMT, <1>1, <1>2, <1>4, ClientAssumption DEF Init, TypeOK, Errors

\* The last thing a call writes before it unlocks is last_error.
LEMMA CallWrites ==
  ASSUME NEW t \in Threads,
         \/ LockForCommand(t) \/ SendRequest(t)
         \/ ReceivePrefix(t) \/ ReceiveHeader(t) \/ ReceivePayload(t)
         \/ ReceiveGarbage(t) \/ Reconnected(t)
         \/ \E error \in Errors : ReceiveGivesUp(t, error)
  PROVE  \/ UNCHANGED <<last_error, owed>>
         \/ \E error \in Errors : last_error' = error /\ owed' = Owes(t, error)
<1>1. ASSUME NEW error \in Errors, Fail(t, error)
      PROVE  \E e \in Errors : last_error' = e /\ owed' = Owes(t, e)
  BY <1>1 DEF Fail
<1>2. ASSUME NEW frame, Succeed(t, frame)
      PROVE  \E e \in Errors : last_error' = e /\ owed' = Owes(t, e)
  BY <1>2 DEF Succeed, Errors
<1>3. CASE LockForCommand(t) \/ SendRequest(t)
  BY <1>1, <1>3 DEF LockForCommand, SendRequest, Errors
<1>4. CASE ReceivePrefix(t) \/ ReceiveHeader(t) \/ ReceivePayload(t)
  BY <1>1, <1>2, <1>4 DEF ReceivePrefix, ReceiveHeader, ReceivePayload, Errors
<1>5. CASE ReceiveGarbage(t) \/ Reconnected(t)
  BY <1>1, <1>2, <1>5 DEF ReceiveGarbage, Reconnected, Errors
<1>6. CASE \E error \in Errors : ReceiveGivesUp(t, error)
  BY <1>1, <1>6 DEF ReceiveGivesUp
<1>7. QED BY <1>3, <1>4, <1>5, <1>6

LEMMA TypeWrites ==
  ASSUME TypeOK, NEW t \in Threads,
         \/ UNCHANGED <<last_error, owed>>
         \/ \E error \in Errors : last_error' = error /\ owed' = Owes(t, error)
  PROVE  last_error' \in Errors /\ owed' \in [Threads -> Errors \cup {"overwritten"}]
  BY DEF TypeOK, Owes

LEMMA TypeConnect ==
  ASSUME TypeOK, eop_connect \/ eop_disconnect PROVE TypeOK'
<1>1. CASE eop_connect
  <2>1. greeted' \in BOOLEAN /\ desync' \in BOOLEAN BY <1>1 DEF eop_connect, NewConnection
  <2>2. 0 \in MsgIds BY SMT, ClientAssumption DEF MsgIds
  <2>3. QED BY SMT, <1>1, <2>1, <2>2 DEF eop_connect, NewConnection, Errors, TypeOK
<1>2. CASE eop_disconnect
  <2>1. greeted' \in BOOLEAN /\ desync' \in BOOLEAN BY <1>2 DEF eop_disconnect, NoConnection
  <2>2. QED BY SMT, <1>2, <2>1 DEF eop_disconnect, NoConnection, TypeOK
<1>3. QED BY <1>1, <1>2

\* The steps of the application around its calls.
LEMMA TypeOutside ==
  ASSUME TypeOK, NEW t \in Threads, NEW op \in {"command", "reconnect"}, NEW type \in Types,
         \/ Call(t, op, type) \/ LockForReconnect(t)
         \/ eop_last_error(t) \/ GoesOn(t)
  PROVE  TypeOK'
<1>0. 0 \in MsgIds BY SMT, ClientAssumption DEF MsgIds
<1>3. CASE Call(t, op, type)
  <2>1. greeted' \in BOOLEAN /\ desync' \in BOOLEAN BY <1>3 DEF Call, connVars, TypeOK
  <2>2. [NoCall EXCEPT !.op = op, !.type = type]
          \in [op : {"none", "command", "reconnect"}, type : Types, id : MsgIds, lag : Nat]
    BY <1>0 DEF NoCall
  <2>3. calls' \in 0..MaxCalls BY SMT, <1>3, ClientAssumption DEF Call, TypeOK
  <2>4. QED BY <1>3, <2>1, <2>2, <2>3 DEF Call, connVars, TypeOK
<1>4. CASE LockForReconnect(t)
  <2>1. greeted' \in BOOLEAN /\ desync' \in BOOLEAN BY <1>4 DEF LockForReconnect, NoConnection
  <2>2. QED BY SMT, <1>4, <2>1 DEF LockForReconnect, NoConnection, TypeOK
<1>5. CASE eop_last_error(t) BY <1>5 DEF eop_last_error, connVars, TypeOK
<1>6. CASE GoesOn(t) BY <1>6 DEF GoesOn, Errors, connVars, TypeOK
<1>7. QED BY <1>3, <1>4, <1>5, <1>6

LEMMA TypeSend ==
  ASSUME TypeOK, NEW t \in Threads, LockForCommand(t) \/ SendRequest(t)
  PROVE  TypeOK'
<1>1. CASE LockForCommand(t)
  <2>1. NextId(next_msg_id) \in MsgIds BY SMT, ClientAssumption DEF NextId, MsgIds, TypeOK
  <2>2. call' \in [Threads -> [op : {"none", "command", "reconnect"}, type : Types,
                               id : MsgIds, lag : Nat]]
    <3>1. /\ call \in [Threads -> [op : {"none", "command", "reconnect"}, type : Types,
                                   id : MsgIds, lag : Nat]]
          /\ next_msg_id \in MsgIds /\ behind \in Nat
      BY DEF TypeOK
    <3>2. call' = [call EXCEPT ![t].id = next_msg_id, ![t].lag = behind]
      BY <1>1 DEF LockForCommand
    <3>3. QED BY <3>1, <3>2, ZenonT(30)
  <2>3. last_error' \in Errors /\ owed' \in [Threads -> Errors \cup {"overwritten"}]
    BY <1>1, CallWrites, TypeWrites
  <2>4. /\ mutex' \in Threads \cup {Nobody}
        /\ tpc' \in [Threads -> {"idle", "lock", "send", "prefix", "header", "payload",
                                 "connect", "failed", "asked"}]
        /\ result' \in [Threads -> Frames \cup {NULL}]
    BY <1>1 DEF LockForCommand, TypeOK, Fail
  <2>5. QED BY <1>1, <2>1, <2>2, <2>4, <2>3 DEF LockForCommand, TypeOK, connVars
<1>2. CASE SendRequest(t)
  <2>1. [type |-> call[t].type, id |-> call[t].id] \in Requests BY DEF TypeOK, Requests
  <2>2. last_error' \in Errors /\ owed' \in [Threads -> Errors \cup {"overwritten"}]
    BY <1>2, CallWrites, TypeWrites
  <2>3. /\ mutex' \in Threads \cup {Nobody}
        /\ tpc' \in [Threads -> {"idle", "lock", "send", "prefix", "header", "payload",
                                 "connect", "failed", "asked"}]
        /\ result' \in [Threads -> Frames \cup {NULL}]
    BY <1>2 DEF SendRequest, TypeOK, Fail
  <2>4. outbound' \in Seq(Requests) /\ behind' \in Nat
    <3>1. \/ outbound' = outbound /\ behind' = behind
          \/ /\ outbound' = Append(outbound, [type |-> call[t].type, id |-> call[t].id])
             /\ behind' = behind + (IF call[t].type = "HEARTBEAT" THEN 0 ELSE 1)
      BY <1>2 DEF SendRequest
    <3>2. outbound \in Seq(Requests) /\ behind \in Nat BY DEF TypeOK
    <3>3. QED BY SMT, <2>1, <3>1, <3>2
  <2>5. QED BY <1>2, <2>3, <2>4, <2>2 DEF SendRequest, TypeOK
<1>3. QED BY <1>1, <1>2

LEMMA TypeServer ==
  ASSUME TypeOK, ServerGreets \/ ServerAnswers \/ ServerCloses
  PROVE  TypeOK'
<1>1. Welcome \in Frames /\ \A r \in Requests : r.id \in Frames BY DEF Frames, Requests
<1>2. CASE ServerGreets
  <2>1. inbound' \in Seq(StreamParts)
    BY <1>1, <1>2, FrameEffect DEF ServerGreets, TypeOK, StreamParts
  <2>2. QED BY <1>2, <2>1 DEF ServerGreets, ServerUnchanged, TypeOK, StreamParts
<1>3. CASE ServerAnswers
  <2>1. Head(outbound) \in Requests /\ Tail(outbound) \in Seq(Requests)
    BY SMT, <1>3 DEF ServerAnswers, TypeOK
  <2>2. inbound' \in Seq(StreamParts)
    BY <1>1, <1>3, <2>1, FrameEffect DEF ServerAnswers, TypeOK, StreamParts
  <2>3. QED BY <1>3, <2>1, <2>2 DEF ServerAnswers, ServerUnchanged, TypeOK, StreamParts
<1>4. CASE ServerCloses BY SMT, <1>4 DEF ServerCloses, ServerUnchanged, TypeOK
<1>5. QED BY <1>2, <1>3, <1>4

\* What is counted in the stream is behind, so taking a frame leaves a number.
LEMMA TypeReceive ==
  ASSUME TypeOK, Stream, NEW t \in Threads,
         ReceivePrefix(t) \/ ReceiveHeader(t) \/ ReceivePayload(t)
  PROVE  TypeOK'
<1>1. \E part \in Parts : ReceivePart(t, part)
  BY DEF ReceivePrefix, ReceiveHeader, ReceivePayload, Parts
<1>2. /\ inbound # <<>> /\ ~desync /\ inbound' = Tail(inbound)
      /\ UNCHANGED <<handle, next_msg_id, socket_fd, outbound, greeted, call, seen, calls>>
  BY <1>1 DEF ReceivePart
<1>3. inbound \in Seq(StreamParts) BY DEF TypeOK, StreamParts
<1>4. /\ inbound' \in Seq(StreamParts) /\ Head(inbound) \in StreamParts
      /\ Count(inbound, PayloadParts) = Count(Tail(inbound), PayloadParts)
           + (IF Head(inbound).part = "payload" THEN 1 ELSE 0)
  BY <1>2, <1>3, TakeEffect
<1>5. Count(Tail(inbound), PayloadParts) \in Nat BY <1>2, <1>4, CountType
<1>6. behind' \in Nat
  <2>1. behind \in Nat BY DEF TypeOK
  <2>2. behind >= Count(inbound, PayloadParts) BY <1>2 DEF Stream
  <2>3. behind' = behind \/ (behind' = behind - 1 /\ Head(inbound).part = "payload")
    BY DEF ReceivePrefix, ReceiveHeader, ReceivePayload, ReceivePart
  <2>4. QED BY SMT, <1>4, <1>5, <2>1, <2>2, <2>3
<1>7. desync' \in BOOLEAN BY DEF TypeOK, ReceivePrefix, ReceiveHeader, ReceivePayload
<1>8. Head(inbound).of \in Frames BY <1>4 DEF StreamParts
<1>9. last_error' \in Errors /\ owed' \in [Threads -> Errors \cup {"overwritten"}]
  BY CallWrites, TypeWrites
<1>10. /\ mutex' \in Threads \cup {Nobody}
      /\ tpc' \in [Threads -> {"idle", "lock", "send", "prefix", "header", "payload",
                               "connect", "failed", "asked"}]
      /\ result' \in [Threads -> Frames \cup {NULL}]
  BY <1>8 DEF ReceivePrefix, ReceiveHeader, ReceivePayload, TypeOK, Fail, Succeed
<1>11. QED BY <1>2, <1>4, <1>6, <1>7, <1>10, <1>9 DEF TypeOK, StreamParts

\* The rest of a stream that is cut at some place.
LEMMA CutEffect ==
  ASSUME NEW s \in Seq(StreamParts), NEW k \in 1..Len(s)
  PROVE  LET r == SubSeq(s, k + 1, Len(s)) IN
         /\ r \in Seq(StreamParts)
         /\ r # <<>> => s # <<>> /\ r[Len(r)] = s[Len(s)]
<1> DEFINE r == SubSeq(s, k + 1, Len(s))
           n == Len(s)
<1>1. n \in Nat /\ k \in Nat /\ k <= n /\ k > 0 BY SMT
<1>2. r \in Seq(StreamParts) /\ Len(r) = n - k /\ \A i \in 1..(n - k) : r[i] = s[k + i]
  BY SMT, <1>1
<1> HIDE DEF r, n
<1>3. r # <<>> => n - k > 0 BY SMT, <1>1, <1>2
<1>4. r # <<>> => r[Len(r)] = s[n] /\ n # 0
  <2>1. n - k > 0 => n - k \in 1..(n - k) /\ k + (n - k) = n /\ n # 0 BY SMT, <1>1
  <2>2. QED BY <1>2, <1>3, <2>1
<1>5. s = <<>> => n = 0 BY SMT DEF n
<1>6. QED BY <1>2, <1>4, <1>5 DEF r, n

LEMMA TypeGivesUp ==
  ASSUME TypeOK, NEW t \in Threads, NEW error \in Errors,
         ReceiveGarbage(t) \/ ReceiveGivesUp(t, error) \/ Reconnected(t)
  PROVE  TypeOK'
<1>1. last_error' \in Errors /\ owed' \in [Threads -> Errors \cup {"overwritten"}]
  BY CallWrites, TypeWrites
<1>2. /\ mutex' \in Threads \cup {Nobody}
      /\ tpc' \in [Threads -> {"idle", "lock", "send", "prefix", "header", "payload",
                               "connect", "failed", "asked"}]
      /\ result' \in [Threads -> Frames \cup {NULL}]
  <2>1. \/ \E e \in Errors : Fail(t, e)
        \/ \E frame \in Frames \cup {NULL} : Succeed(t, frame)
    BY DEF ReceiveGarbage, ReceiveGivesUp, Reconnected, Errors
  <2>2. QED BY <2>1, ZenonT(30) DEF Fail, Succeed, TypeOK
<1>3. CASE ReceiveGarbage(t)
  <2>1. inbound' \in Seq(StreamParts)
    <3>1. PICK k \in 1..Len(inbound) : inbound' = SubSeq(inbound, k + 1, Len(inbound))
      BY <1>3 DEF ReceiveGarbage
    <3>2. inbound \in Seq(StreamParts) BY DEF TypeOK, StreamParts
    <3>3. QED BY <3>1, <3>2, CutEffect
  <2>2. QED BY <1>2, <1>3, <1>1, <2>1 DEF ReceiveGarbage, TypeOK, StreamParts
<1>4. CASE ReceiveGivesUp(t, error)
  <2>1. desync' \in BOOLEAN BY <1>4 DEF ReceiveGivesUp, GivesUpMidFrame, TypeOK
  <2>2. QED BY <1>2, <1>4, <1>1, <2>1 DEF ReceiveGivesUp, TypeOK
<1>5. CASE Reconnected(t)
  <2>1. greeted' \in BOOLEAN /\ desync' \in BOOLEAN
    BY <1>5 DEF Reconnected, NewConnection, connVars, TypeOK
  <2>2. /\ socket_fd' \in {"none", "open", "reset"} /\ outbound' \in Seq(Requests)
        /\ inbound' \in Seq([part : Parts, of : Frames]) /\ behind' \in Nat
    <3>1. NewConnection \/ UNCHANGED connVars BY <1>5 DEF Reconnected
    <3>2. CASE NewConnection BY SMT, <3>2 DEF NewConnection
    <3>3. CASE UNCHANGED connVars BY <3>3 DEF connVars, TypeOK
    <3>4. QED BY <3>1, <3>2, <3>3
  <2>3. QED BY <1>2, <1>5, <1>1, <2>1, <2>2 DEF Reconnected, TypeOK
<1>6. QED BY <1>3, <1>4, <1>5

\* Every step keeps the types.
LEMMA TypeStep == Inv /\ Next => TypeOK'
<1> SUFFICES ASSUME Inv, Next PROVE TypeOK' OBVIOUS
<1>1. TypeOK /\ Stream BY DEF Inv
<1>2. CASE \E t \in Threads : Proceed(t)
  <2>1. PICK t \in Threads : Proceed(t) BY <1>2
  <2>2. CASE ReceivePrefix(t) \/ ReceiveHeader(t) \/ ReceivePayload(t) BY <1>1, <2>2, TypeReceive
  <2>3. PICK error \in Errors : ReceiveGarbage(t) \/ ReceiveGivesUp(t, error) \/ Reconnected(t)
                                 \/ ReceivePrefix(t) \/ ReceiveHeader(t) \/ ReceivePayload(t)
    BY <2>1 DEF Proceed, Errors
  <2>4. QED BY <1>1, <2>2, <2>3, TypeGivesUp
<1>3. CASE \E t \in Threads : LockForCommand(t) \/ SendRequest(t) BY <1>1, <1>3, TypeSend
<1>4. CASE ServerGreets \/ ServerAnswers \/ ServerCloses BY <1>1, <1>4, TypeServer
<1>5. CASE \/ eop_connect \/ eop_disconnect
           \/ \E t \in Threads : \/ \E type \in Types : Call(t, "command", type)
                                 \/ Call(t, "reconnect", "COMMAND")
                                 \/ LockForReconnect(t) \/ eop_last_error(t) \/ GoesOn(t)
  <2>1. CASE eop_connect \/ eop_disconnect BY <1>1, <2>1, TypeConnect
  <2>2. CASE \E t \in Threads, op \in {"command", "reconnect"}, type \in Types :
               Call(t, op, type) \/ LockForReconnect(t) \/ eop_last_error(t) \/ GoesOn(t)
    BY <1>1, <2>2, TypeOutside
  <2>3. QED BY <1>5, <2>1, <2>2 DEF Types
<1>6. QED BY <1>2, <1>3, <1>4, <1>5 DEF Next

(***************************************************************************)
(* The mutex                                                               *)
(***************************************************************************)
\* Whoever holds the mutex is alone inside the library.
LEMMA HolderAlone ==
  ASSUME Exclusive, NEW t \in Threads, mutex = t \/ mutex = Nobody
  PROVE  \A u \in Threads : u # t => tpc[u] \notin Inside
BY ClientAssumption DEF Exclusive

\* What taking the mutex for a command writes into the call.
LEMMA LockedCall ==
  ASSUME TypeOK, NEW t \in Threads, LockForCommand(t)
  PROVE  /\ call'[t].op = call[t].op /\ call'[t].type = call[t].type
         /\ call'[t].id = next_msg_id /\ call'[t].lag = behind
         /\ \A u \in Threads : u # t => call'[u] = call[u]
<1> DEFINE Calls == [op : {"none", "command", "reconnect"}, type : Types, id : MsgIds, lag : Nat]
<1>1. call \in [Threads -> Calls] BY DEF TypeOK
<1>2. call' = [call EXCEPT ![t].id = next_msg_id, ![t].lag = behind] BY DEF LockForCommand
<1>3. call[t] \in Calls BY <1>1
<1>4. call'[t] = [call[t] EXCEPT !.id = next_msg_id, !.lag = behind] BY <1>1, <1>2
<1>5. \A u \in Threads : u # t => call'[u] = call[u] BY <1>1, <1>2
<1>6. QED BY <1>3, <1>4, <1>5

LEMMA ExclusiveStep == Inv /\ Next => Exclusive'
<1> SUFFICES ASSUME Inv, Next PROVE Exclusive' OBVIOUS
<1>1. TypeOK /\ Exclusive BY DEF Inv
<1>2. ASSUME NEW t \in Threads, tpc[t] \in Inside, UNCHANGED <<handle, call>>,
             mutex' = Nobody, NEW to \in {"idle", "failed"}, tpc' = [tpc EXCEPT ![t] = to]
      PROVE  Exclusive'
  BY <1>1, <1>2, ClientAssumption DEF Exclusive, Inside, Parts, TypeOK
<1>3. ASSUME NEW t \in Threads, tpc[t] \in Inside, UNCHANGED <<handle, mutex, call>>,
             NEW to \in Inside, tpc' = [tpc EXCEPT ![t] = to]
      PROVE  Exclusive'
  BY <1>1, <1>3 DEF Exclusive, Inside, Parts, TypeOK
<1>4. CASE \E t \in Threads : SendRequest(t) \/ Proceed(t)
  <2>1. PICK t \in Threads : SendRequest(t) \/ Proceed(t) BY <1>4
  <2>2. /\ tpc[t] \in Inside /\ UNCHANGED <<handle, call>>
        /\ \/ mutex' = Nobody /\ \E to \in {"idle", "failed"} : tpc' = [tpc EXCEPT ![t] = to]
           \/ UNCHANGED mutex /\ \E to \in Inside : tpc' = [tpc EXCEPT ![t] = to]
    BY <2>1 DEF SendRequest, Proceed, ReceivePrefix, ReceiveHeader, ReceivePayload, ReceivePart,
                ReceiveGarbage, ReceiveGivesUp, Reconnected, Fail, Succeed, Inside, Parts
  <2>3. QED BY <1>2, <1>3, <2>2
<1>5. CASE ServerGreets \/ ServerAnswers \/ ServerCloses
  BY <1>1, <1>5 DEF ServerGreets, ServerAnswers, ServerCloses, ServerUnchanged, Exclusive
<1>6. CASE eop_connect \/ eop_disconnect
  BY <1>1, <1>6 DEF eop_connect, eop_disconnect, Exclusive, Inside, Parts
<1>7. ASSUME NEW t \in Threads,
             \/ \E type \in Types : Call(t, "command", type)
             \/ Call(t, "reconnect", "COMMAND")
      PROVE  Exclusive'
  <2>1. /\ tpc[t] = "idle" /\ tpc' = [tpc EXCEPT ![t] = "lock"] /\ handle = "live"
        /\ UNCHANGED <<handle, mutex>>
    BY <1>7 DEF Call
  <2>2. call'[t].op # "none" /\ \A u \in Threads : u # t => call'[u] = call[u]
    <3>1. ASSUME NEW op, NEW type PROVE [NoCall EXCEPT !.op = op, !.type = type].op = op
      BY DEF NoCall
    <3>2. PICK op \in {"command", "reconnect"}, type \in Types : Call(t, op, type)
      BY <1>7 DEF Types
    <3>3. QED BY <1>1, <3>1, <3>2 DEF Call, TypeOK
  <2>3. QED BY <1>1, <2>1, <2>2 DEF Exclusive, Inside, Parts, TypeOK
<1>8. ASSUME NEW t \in Threads, LockForCommand(t) \/ LockForReconnect(t)
      PROVE  Exclusive'
  <2>1. /\ tpc[t] = "lock" /\ mutex = Nobody /\ UNCHANGED handle
        /\ \/ mutex' = t /\ \E to \in Inside : tpc' = [tpc EXCEPT ![t] = to]
           \/ mutex' = mutex /\ tpc' = [tpc EXCEPT ![t] = "failed"]
    BY <1>8, ClientAssumption DEF LockForCommand, LockForReconnect, LockFree, Fail, Inside
  <2>2. \A u \in Threads : call'[u].op = call[u].op
    <3>1. CASE LockForCommand(t) BY <1>1, <3>1, LockedCall
    <3>2. CASE LockForReconnect(t) BY <3>2 DEF LockForReconnect
    <3>3. QED BY <1>8, <3>1, <3>2
  <2>3. QED BY SMT, <1>1, <2>1, <2>2, ClientAssumption DEF Exclusive, Inside, Parts, TypeOK
<1>9. ASSUME NEW t \in Threads, eop_last_error(t) \/ GoesOn(t) PROVE Exclusive'
  <2>1. /\ tpc[t] \in {"failed", "asked"} /\ UNCHANGED <<handle, mutex, call>>
        /\ \E to \in {"asked", "idle"} : tpc' = [tpc EXCEPT ![t] = to]
    BY <1>9 DEF eop_last_error, GoesOn
  <2>2. /\ tpc[t] \notin Inside /\ tpc'[t] \notin Inside
        /\ \A u \in Threads : u # t => tpc'[u] = tpc[u]
    BY <1>1, <2>1 DEF Inside, Parts, TypeOK
  <2>3. QED BY <1>1, <2>1, <2>2, ZenonT(30) DEF Exclusive
<1>10. QED BY <1>4, <1>5, <1>6, <1>7, <1>8, <1>9 DEF Next

(***************************************************************************)
(* The stream                                                              *)
(***************************************************************************)
\* The counts are numbers, and a stream with a frame in it counts.
LEMMA StreamCounts ==
  ASSUME TypeOK, Stream
  PROVE  /\ inbound \in Seq(StreamParts) /\ outbound \in Seq(Requests) /\ behind \in Nat
         /\ Count(inbound, PayloadParts) \in Nat /\ Count(outbound, Answerable) \in Nat
         /\ inbound # <<>> => Count(inbound, PayloadParts) > 0
         /\ inbound # <<>> => behind > 0
<1>1. inbound \in Seq(StreamParts) /\ outbound \in Seq(Requests) /\ behind \in Nat
  BY DEF TypeOK, StreamParts
<1>2. Count(inbound, PayloadParts) \in Nat /\ Count(outbound, Answerable) \in Nat
  BY <1>1, CountType
<1>3. ASSUME inbound # <<>> PROVE Count(inbound, PayloadParts) > 0
  <2>1. Len(inbound) \in DOMAIN inbound /\ inbound[Len(inbound)] \in StreamParts BY SMT, <1>1, <1>3
  <2>2. inbound[Len(inbound)] \in PayloadParts
    BY <1>3, <2>1 DEF Stream, PayloadParts, StreamParts
  <2>3. Count(inbound, PayloadParts) # 0 BY <1>1, <2>1, <2>2, CountType
  <2>4. QED BY SMT, <1>2, <2>3
<1>4. inbound # <<>> => behind > 0 BY SMT, <1>1, <1>2, <1>3 DEF Stream
<1>5. QED BY <1>1, <1>2, <1>3, <1>4

\* A step that leaves the connection alone, or makes or ends one, while
\* nobody is inside a frame.
LEMMA StreamOutside ==
  ASSUME Stream, connVars' = connVars \/ NewConnection \/ NoConnection,
         \A u \in Threads : tpc'[u] \in {"header", "payload"} =>
                              tpc'[u] = tpc[u] /\ connVars' = connVars
  PROVE  Stream'
<1>1. CASE connVars' = connVars BY SMT, <1>1 DEF Stream, connVars
<1>2. CASE NewConnection \/ NoConnection
  <2>1. ASSUME NEW u \in Threads, tpc'[u] \in {"header", "payload"}
        PROVE  inbound' # <<>> /\ ~desync'
    BY <2>1 DEF Stream, connVars
  <2>2. Count(inbound', PayloadParts) = 0 /\ Count(outbound', Answerable) = 0
    BY <1>2, CountEmpty DEF NewConnection, NoConnection
  <2>3. /\ inbound' = <<>> /\ ~desync'
        /\ \/ socket_fd' = "open" /\ behind' = 1 /\ ~greeted'
           \/ socket_fd' = "none" /\ behind' = 0
    BY <1>2 DEF NewConnection, NoConnection
  <2>4. QED BY SMT, <2>1, <2>2, <2>3 DEF Stream
<1>3. QED BY <1>1, <1>2

LEMMA StreamApplication ==
  ASSUME TypeOK, Exclusive, Stream, NEW t \in Threads,
         \/ \E op, type : Call(t, op, type)
         \/ LockForCommand(t) \/ LockForReconnect(t) \/ Reconnected(t)
         \/ eop_last_error(t) \/ GoesOn(t)
  PROVE  Stream'
<1>1. connVars' = connVars \/ NewConnection \/ NoConnection
  BY DEF Call, LockForCommand, LockForReconnect, Reconnected, eop_last_error, GoesOn
<1>2. PICK to \in {"lock", "send", "connect", "failed", "asked", "idle"} :
        tpc' = [tpc EXCEPT ![t] = to]
  BY DEF Call, LockForCommand, LockForReconnect, Reconnected, eop_last_error, GoesOn,
         Fail, Succeed
<1>3. connVars' = connVars \/ mutex = t \/ mutex = Nobody
  BY DEF Call, LockForCommand, LockForReconnect, Reconnected, eop_last_error, GoesOn,
         LockFree, Exclusive, Inside
<1>4. mutex = t \/ mutex = Nobody =>
        \A u \in Threads : u # t => tpc[u] \notin {"header", "payload"}
  BY HolderAlone DEF Inside, Parts
<1>5. \A u \in Threads : /\ u # t => tpc'[u] = tpc[u]
                         /\ tpc'[t] \notin {"header", "payload"}
  BY <1>2 DEF TypeOK
<1>6. \A u \in Threads : tpc'[u] \in {"header", "payload"} =>
                           tpc'[u] = tpc[u] /\ connVars' = connVars
  BY <1>3, <1>4, <1>5
<1>7. QED BY <1>1, <1>6, StreamOutside

LEMMA StreamConnect ==
  ASSUME TypeOK, Exclusive, Stream, eop_connect \/ eop_disconnect
  PROVE  Stream'
<1>1. \A u \in Threads : tpc[u] = "idle" /\ tpc' = tpc
  BY DEF eop_connect, eop_disconnect, Exclusive
<1>2. NewConnection \/ NoConnection BY DEF eop_connect, eop_disconnect
<1>3. QED BY <1>1, <1>2, StreamOutside

LEMMA StreamSend ==
  ASSUME TypeOK, Exclusive, Stream, NEW t \in Threads, SendRequest(t)
  PROVE  Stream'
<1>1. \A u \in Threads : tpc'[u] \in {"header", "payload"} => tpc'[u] = tpc[u]
  BY DEF SendRequest, Fail, TypeOK
<1>2. UNCHANGED <<socket_fd, inbound, greeted, desync>> BY DEF SendRequest
<1>3. CASE UNCHANGED <<outbound, behind>> BY <1>1, <1>2, <1>3 DEF Stream
<1>4. CASE /\ socket_fd = "open"
           /\ outbound' = Append(outbound, [type |-> call[t].type, id |-> call[t].id])
           /\ behind' = behind + (IF call[t].type = "HEARTBEAT" THEN 0 ELSE 1)
  <2> DEFINE r == [type |-> call[t].type, id |-> call[t].id]
  <2>1. r \in Requests /\ (r \in Answerable <=> call[t].type # "HEARTBEAT")
    BY DEF TypeOK, Requests, Answerable
  <2> HIDE DEF r
  <2>2. Count(Append(outbound, r), Answerable)
          = Count(outbound, Answerable) + (IF r \in Answerable THEN 1 ELSE 0)
    BY SMT, <2>1, StreamCounts, CountAppend
  <2>3. Count(outbound', Answerable)
          = Count(outbound, Answerable) + (IF call[t].type = "HEARTBEAT" THEN 0 ELSE 1)
    BY <1>4, <2>1, <2>2 DEF r
  <2>4. Count(inbound', PayloadParts) = Count(inbound, PayloadParts) BY <1>2
  <2>5. behind' >= behind /\ behind' \in Nat BY SMT, <1>4, StreamCounts
  <2>6. /\ desync' => behind' > 0
        /\ ~desync' => behind' >= Count(inbound', PayloadParts)
    BY SMT, <1>2, <2>4, <2>5, StreamCounts DEF Stream
  <2>7. socket_fd' = "open" /\ ~desync' =>
          behind' = Count(inbound', PayloadParts) + Count(outbound', Answerable)
                    + (IF greeted' THEN 0 ELSE 1)
    <3> DEFINE w == IF greeted THEN 0 ELSE 1
    <3>1. w \in Nat /\ w = (IF greeted' THEN 0 ELSE 1) BY <1>2
    <3>2. ~desync => behind = Count(inbound, PayloadParts) + Count(outbound, Answerable) + w
      BY <1>4 DEF Stream
    <3> HIDE DEF w
    <3>3. QED BY SMT, <1>2, <1>4, <2>3, <2>4, <3>1, <3>2, StreamCounts
  <2>8. QED BY <1>1, <1>2, <2>6, <2>7 DEF Stream
<1>5. QED BY <1>3, <1>4 DEF SendRequest

LEMMA StreamReceive ==
  ASSUME TypeOK, Exclusive, Stream, NEW t \in Threads,
         ReceivePrefix(t) \/ ReceiveHeader(t) \/ ReceivePayload(t)
  PROVE  Stream'
<1>1. /\ inbound # <<>> /\ ~desync /\ inbound' = Tail(inbound)
      /\ UNCHANGED <<socket_fd, outbound, greeted>>
      /\ tpc[t] = Head(inbound).part /\ tpc[t] \in Parts
  BY DEF ReceivePrefix, ReceiveHeader, ReceivePayload, ReceivePart, Parts
<1>2. socket_fd # "none" BY <1>1 DEF Stream
<1> DEFINE n == Count(inbound, PayloadParts)
           m == Count(Tail(inbound), PayloadParts)
<1>3. /\ inbound' \in Seq(StreamParts)
      /\ Tail(inbound) # <<>> => Tail(inbound)[Len(Tail(inbound))] = inbound[Len(inbound)]
      /\ Tail(inbound) = <<>> => Head(inbound) = inbound[Len(inbound)]
      /\ n = m + (IF Head(inbound).part = "payload" THEN 1 ELSE 0)
  BY <1>1, StreamCounts, TakeEffect
<1>4. inbound[Len(inbound)].part = "payload" BY <1>1 DEF Stream
<1>5. m \in Nat /\ Count(inbound', PayloadParts) = m BY <1>1, <1>3, CountType
<1>6. tpc[t] # "payload" => inbound' # <<>> BY <1>1, <1>3, <1>4
<1>7. inbound' # <<>> => inbound'[Len(inbound')].part = "payload" BY <1>1, <1>3, <1>4
<1>8. \A u \in Threads : u # t => tpc'[u] = tpc[u] /\ tpc[u] \notin {"header", "payload"}
  <2>1. mutex = t BY <1>1 DEF Exclusive, Inside
  <2>2. \A u \in Threads : u # t => tpc'[u] = tpc[u]
    BY DEF ReceivePrefix, ReceiveHeader, ReceivePayload, Fail, Succeed, TypeOK
  <2>3. QED BY <2>1, <2>2, HolderAlone DEF Inside, Parts
<1>9. /\ tpc'[t] \in {"header", "payload"} => tpc[t] # "payload" /\ ~desync'
      /\ desync' => tpc[t] # "payload" /\ behind' = behind
      /\ behind' = behind - (IF Head(inbound).part = "payload" THEN 1 ELSE 0)
  <2>1. CASE ReceivePrefix(t)
    <3>1. /\ tpc[t] = "prefix" /\ UNCHANGED <<behind, desync>>
          /\ tpc' = [tpc EXCEPT ![t] = "header"]
      BY <2>1 DEF ReceivePrefix, ReceivePart
    <3>2. QED BY SMT, <1>1, <3>1, StreamCounts
  <2>2. CASE ReceiveHeader(t)
    <3>1. /\ tpc[t] = "header" /\ UNCHANGED behind
          /\ \/ ~desync'
             \/ tpc' = [tpc EXCEPT ![t] = "failed"]
      BY SMT, <1>1, <2>2 DEF ReceiveHeader, ReceivePart, Fail
    <3>2. QED BY SMT, <1>1, <3>1, StreamCounts DEF TypeOK
  <2>3. CASE ReceivePayload(t)
    <3>1. /\ tpc[t] = "payload" /\ behind' = behind - 1 /\ UNCHANGED desync
          /\ \E to \in {"idle", "failed"} : tpc' = [tpc EXCEPT ![t] = to]
      BY <2>3 DEF ReceivePayload, ReceivePart, Fail, Succeed
    <3>2. QED BY <1>1, <3>1 DEF TypeOK
  <2>4. QED BY <2>1, <2>2, <2>3
<1> HIDE DEF n, m
<1>10. \A u \in Threads : tpc'[u] \in {"header", "payload"} => inbound' # <<>> /\ ~desync'
  BY <1>6, <1>8, <1>9
<1>11. behind \in Nat /\ n \in Nat /\ n > 0 /\ behind >= n /\ Count(outbound, Answerable) \in Nat
  BY <1>1, StreamCounts DEF Stream, n
<1>12. desync' => behind' > 0 BY SMT, <1>9, <1>11
<1>13. behind' >= m BY SMT, <1>3, <1>5, <1>9, <1>11
<1>14. socket_fd' = "open" /\ ~desync' =>
         behind' = m + Count(outbound', Answerable) + (IF greeted' THEN 0 ELSE 1)
  <2> DEFINE w == IF greeted THEN 0 ELSE 1
  <2>1. w \in Nat /\ w = (IF greeted' THEN 0 ELSE 1) BY <1>1
  <2>2. socket_fd = "open" => behind = n + Count(outbound, Answerable) + w
    BY <1>1 DEF Stream, n
  <2> HIDE DEF w
  <2>3. QED BY SMT, <1>1, <1>3, <1>5, <1>9, <1>11, <2>1, <2>2
<1>15. QED BY <1>1, <1>2, <1>5, <1>7, <1>10, <1>12, <1>13, <1>14 DEF Stream

\* Giving up inside a frame leaves that frame behind for good.
LEMMA StreamGivesUp ==
  ASSUME TypeOK, Exclusive, Stream, NEW t \in Threads,
         ReceiveGarbage(t) \/ \E error \in Errors : ReceiveGivesUp(t, error)
  PROVE  Stream'
<1>1. tpc[t] \in Parts /\ UNCHANGED <<socket_fd, outbound, greeted, behind>>
  BY DEF ReceiveGarbage, ReceiveGivesUp, Parts
<1>2. \A u \in Threads : tpc'[u] \notin {"header", "payload"}
  <2>1. \A u \in Threads : u # t => tpc[u] \notin {"header", "payload"}
    BY <1>1, HolderAlone DEF Exclusive, Inside, Parts
  <2>2. \E to \in {"idle", "failed"} : tpc' = [tpc EXCEPT ![t] = to]
    BY DEF ReceiveGarbage, ReceiveGivesUp, Fail, Succeed
  <2>3. QED BY <2>1, <2>2 DEF TypeOK
<1>3. CASE ReceiveGarbage(t)
  <2>1. desync /\ desync' BY <1>3 DEF ReceiveGarbage
  <2>2. PICK k \in 1..Len(inbound) : inbound' = SubSeq(inbound, k + 1, Len(inbound))
    BY <1>3 DEF ReceiveGarbage
  <2>3. inbound' # <<>> => inbound # <<>> /\ inbound'[Len(inbound')] = inbound[Len(inbound)]
    BY <2>2, CutEffect, StreamCounts
  <2>4. inbound' # <<>> => inbound'[Len(inbound')].part = "payload" BY <2>3 DEF Stream
  <2>5. QED BY <1>1, <1>2, <2>1, <2>4 DEF Stream
<1>4. CASE \E error \in Errors : ReceiveGivesUp(t, error)
  <2>1. UNCHANGED inbound /\ GivesUpMidFrame(t) BY <1>4 DEF ReceiveGivesUp
  <2>2. desync' => desync \/ inbound # <<>>
    BY <1>1, <2>1 DEF GivesUpMidFrame, Stream, Parts
  <2>3. ~desync' => ~desync BY <2>1 DEF GivesUpMidFrame
  <2>4. desync' => behind' > 0 /\ socket_fd # "none"
    BY <1>1, <2>2, StreamCounts DEF Stream
  <2>5. QED BY <1>1, <1>2, <2>1, <2>3, <2>4 DEF Stream
<1>5. QED BY <1>3, <1>4

LEMMA StreamServer ==
  ASSUME TypeOK, Exclusive, Stream, ServerGreets \/ ServerAnswers \/ ServerCloses
  PROVE  Stream'
<1>1. socket_fd = "open" /\ UNCHANGED <<tpc, desync, behind>>
  BY DEF ServerGreets, ServerAnswers, ServerCloses, ServerUnchanged
<1> DEFINE n == Count(inbound, PayloadParts)
           m == Count(outbound, Answerable)
<1>2. n \in Nat /\ m \in Nat /\ behind \in Nat BY StreamCounts
<1>3. ~desync => behind = n + m + (IF greeted THEN 0 ELSE 1) BY <1>1 DEF Stream
<1>4. Welcome \in Frames /\ \A r \in Requests : r.id \in Frames BY DEF Frames, Requests
<1>5. CASE ServerGreets
  <2>1. ~greeted /\ greeted' /\ inbound' = inbound \o FrameOf(Welcome)
        /\ UNCHANGED <<socket_fd, outbound>>
    BY <1>5 DEF ServerGreets
  <2>2. /\ inbound' # <<>> /\ inbound'[Len(inbound')].part = "payload"
        /\ Count(inbound', PayloadParts) = n + 1
    BY <1>4, <2>1, StreamCounts, FrameEffect
  <2>3. Count(outbound', Answerable) = m BY <2>1
  <2> HIDE DEF n, m
  <2>4. ~desync => behind = (n + 1) + m + 0 /\ behind >= n + 1 BY SMT, <1>2, <1>3, <2>1
  <2>5. QED BY <1>1, <2>1, <2>2, <2>3, <2>4 DEF Stream
<1>6. CASE ServerAnswers
  <2> DEFINE r == Head(outbound)
  <2>1. /\ greeted /\ greeted' = greeted /\ outbound # <<>> /\ outbound' = Tail(outbound)
        /\ inbound' = IF r.type = "HEARTBEAT" THEN inbound ELSE inbound \o FrameOf(r.id)
        /\ UNCHANGED socket_fd
    BY <1>6 DEF ServerAnswers
  <2>2. r \in Requests BY SMT, <2>1, StreamCounts
  <2>3. m = Count(outbound', Answerable) + (IF r \in Answerable THEN 1 ELSE 0)
    BY <2>1, StreamCounts, CountTail
  <2>4. r \in Answerable <=> r.type # "HEARTBEAT" BY <2>2 DEF Answerable
  <2>5. Count(outbound', Answerable) \in Nat
    <3>1. outbound' \in Seq(Requests) BY SMT, <2>1, StreamCounts
    <3>2. QED BY <3>1, CountType
  <2>6. CASE r.type = "HEARTBEAT"
    <3>1. inbound' = inbound /\ Count(outbound', Answerable) = m BY SMT, <2>1, <2>3, <2>4, <2>5, <2>6
    <3>2. Count(inbound', PayloadParts) = n BY <3>1
    <3> HIDE DEF n, m
    <3>3. QED BY <1>1, <1>2, <1>3, <2>1, <3>1, <3>2 DEF Stream
  <2>7. CASE r.type # "HEARTBEAT"
    <3>1. inbound' = inbound \o FrameOf(r.id) BY <2>1, <2>7
    <3>2. /\ inbound' # <<>> /\ inbound'[Len(inbound')].part = "payload"
          /\ Count(inbound', PayloadParts) = n + 1
      BY <1>4, <2>2, <3>1, StreamCounts, FrameEffect
    <3>3. m = Count(outbound', Answerable) + 1 BY <2>3, <2>4, <2>7
    <3> HIDE DEF n, m
    <3>4. ~desync => /\ behind = (n + 1) + Count(outbound', Answerable) + 0
                     /\ behind >= n + 1
      BY SMT, <1>2, <1>3, <2>1, <2>5, <3>3
    <3>5. QED BY <1>1, <2>1, <3>2, <3>4 DEF Stream
  <2>8. QED BY <2>6, <2>7
<1>7. CASE ServerCloses
  <2>1. socket_fd' = "reset" /\ UNCHANGED inbound BY <1>7 DEF ServerCloses
  <2>2. QED BY <1>1, <2>1 DEF Stream
<1>8. QED BY <1>5, <1>6, <1>7

LEMMA StreamStep == Inv /\ Next => Stream'
<1> SUFFICES ASSUME Inv, Next PROVE Stream' OBVIOUS
<1>1. TypeOK /\ Exclusive /\ Stream BY DEF Inv
<1>2. CASE eop_connect \/ eop_disconnect BY <1>1, <1>2, StreamConnect
<1>3. CASE ServerGreets \/ ServerAnswers \/ ServerCloses BY <1>1, <1>3, StreamServer
<1>4. ASSUME NEW t \in Threads,
             \/ \E op, type : Call(t, op, type)
             \/ LockForCommand(t) \/ LockForReconnect(t) \/ Reconnected(t)
             \/ eop_last_error(t) \/ GoesOn(t)
      PROVE  Stream'
  BY <1>1, <1>4, StreamApplication
<1>5. ASSUME NEW t \in Threads, SendRequest(t) PROVE Stream' BY <1>1, <1>5, StreamSend
<1>6. ASSUME NEW t \in Threads, ReceivePrefix(t) \/ ReceiveHeader(t) \/ ReceivePayload(t)
      PROVE  Stream'
  BY <1>1, <1>6, StreamReceive
<1>7. ASSUME NEW t \in Threads,
             ReceiveGarbage(t) \/ \E error \in Errors : ReceiveGivesUp(t, error)
      PROVE  Stream'
  BY <1>1, <1>7, StreamGivesUp
<1>8. QED BY <1>2, <1>3, <1>4, <1>5, <1>6, <1>7 DEF Next, Proceed, Errors

LEMMA SpecInv == Spec => []Inv
<1>1. Init => Inv
  <2> SUFFICES ASSUME Init PROVE Inv OBVIOUS
  <2>1. TypeOK BY InitType
  <2>2. Exclusive BY ClientAssumption DEF Init, Exclusive, Inside, Parts
  <2>3. Stream BY SMT, CountEmpty DEF Init, Stream
  <2>4. QED BY <2>1, <2>2, <2>3 DEF Inv
<1>2. Inv /\ [Next]_vars => Inv'
  <2> SUFFICES ASSUME Inv, [Next]_vars PROVE Inv' OBVIOUS
  <2>1. CASE Next BY <2>1, TypeStep, ExclusiveStep, StreamStep DEF Inv
  <2>2. CASE UNCHANGED vars
    BY <2>2 DEF vars, connVars, Inv, TypeOK, Exclusive, Stream
  <2>3. QED BY <2>1, <2>2
<1>3. QED BY <1>1, <1>2, PTL DEF Spec

(***************************************************************************)
(* Answers in step                                                         *)
(***************************************************************************)
\* With nothing behind, nothing is under way that will be answered.
LEMMA NothingBehind ==
  ASSUME TypeOK, Stream, behind = 0
  PROVE  /\ ~desync /\ inbound = <<>>
         /\ socket_fd = "open" =>
              greeted /\ \A i \in DOMAIN outbound : outbound[i].type = "HEARTBEAT"
<1>1. ~desync BY SMT DEF Stream
<1>2. inbound = <<>> BY SMT, StreamCounts
<1>3. ASSUME socket_fd = "open"
      PROVE  greeted /\ \A i \in DOMAIN outbound : outbound[i].type = "HEARTBEAT"
  <2>1. 0 = Count(inbound, PayloadParts) + Count(outbound, Answerable)
            + (IF greeted THEN 0 ELSE 1)
    BY <1>1, <1>3 DEF Stream
  <2>2. greeted /\ Count(outbound, Answerable) = 0 BY SMT, <2>1, StreamCounts
  <2>3. \A i \in DOMAIN outbound : outbound[i] \notin Answerable
    BY <2>2, StreamCounts, CountType
  <2>4. \A i \in DOMAIN outbound : outbound[i] \in Requests BY SMT, StreamCounts
  <2>5. QED BY <2>2, <2>3, <2>4 DEF Answerable
<1>4. QED BY <1>1, <1>2, <1>3

\* The steps of the thread that holds the mutex.
LEMMA InStepOwn ==
  ASSUME Inv, InStep, NEW t \in Threads,
         \/ LockForCommand(t) \/ SendRequest(t) \/ ReceivePrefix(t) \/ ReceiveHeader(t),
         tpc'[t] \in {"send"} \cup Parts, call'[t].lag = 0
  PROVE  /\ ~desync'
         /\ tpc'[t] = "send" => behind' = 0
         /\ tpc'[t] # "send" /\ call'[t].type = "COMMAND" =>
              /\ \A i \in DOMAIN inbound' : inbound'[i].of = call'[t].id
              /\ socket_fd' = "open" =>
                   /\ greeted'
                   /\ \A i \in DOMAIN outbound' :
                        outbound'[i].type # "HEARTBEAT" => outbound'[i].id = call'[t].id
<1>1. TypeOK /\ Stream BY DEF Inv
<1>2. CASE LockForCommand(t)
  <2>1. call'[t].lag = behind BY <1>1, <1>2, LockedCall
  <2>2. tpc'[t] = "send" /\ UNCHANGED <<desync, behind>>
    BY <1>1, <1>2 DEF LockForCommand, connVars, Fail, TypeOK, Parts
  <2>3. QED BY <1>1, <2>1, <2>2, NothingBehind
<1>3. CASE SendRequest(t)
  <2>1. /\ tpc[t] = "send" /\ call' = call /\ tpc'[t] # "send"
        /\ UNCHANGED <<socket_fd, inbound, greeted, desync>>
    BY <1>1, <1>3 DEF SendRequest, Fail, TypeOK
  <2>2. behind = 0 BY <2>1 DEF InStep
  <2>3. /\ ~desync /\ inbound = <<>>
        /\ socket_fd = "open" =>
             greeted /\ \A i \in DOMAIN outbound : outbound[i].type = "HEARTBEAT"
    BY <1>1, <2>2, NothingBehind
  <2>4. ASSUME socket_fd = "open", NEW i \in DOMAIN outbound', outbound'[i].type # "HEARTBEAT"
        PROVE  outbound'[i].id = call[t].id
    <3> DEFINE r == [type |-> call[t].type, id |-> call[t].id]
    <3>1. outbound' = Append(outbound, r) \/ outbound' = outbound BY <1>3 DEF SendRequest
    <3>2. r \in Requests /\ r.id = call[t].id BY <1>1 DEF TypeOK, Requests
    <3> HIDE DEF r
    <3>3. outbound'[i] = r \/ (i \in DOMAIN outbound /\ outbound'[i] = outbound[i])
      <4>1. outbound \in Seq(Requests) BY <1>1, StreamCounts
      <4>2. \A k \in DOMAIN Append(outbound, r) :
              \/ Append(outbound, r)[k] = r
              \/ k \in DOMAIN outbound /\ Append(outbound, r)[k] = outbound[k]
        BY SMT, <3>2, <4>1
      <4>3. QED BY <3>1, <4>2
    <3>4. QED BY <2>3, <2>4, <3>2, <3>3
  <2>5. QED BY SMT, <2>1, <2>3, <2>4
<1>4. CASE ReceivePrefix(t) \/ ReceiveHeader(t)
  <2>1. /\ tpc[t] \in Parts \ {"payload"} /\ call' = call /\ inbound # <<>>
        /\ inbound' = Tail(inbound) /\ UNCHANGED <<socket_fd, outbound, greeted>>
    BY <1>4 DEF ReceivePrefix, ReceiveHeader, ReceivePart, Parts
  <2>2. /\ ~desync' /\ tpc'[t] # "send"
    <3>1. tpc'[t] \in {"header", "payload"}
      BY <1>1, <1>4 DEF ReceivePrefix, ReceiveHeader, Fail, TypeOK, Parts
    <3>2. tpc'[t] \in {"header", "payload"} => ~desync'
      BY <1>1, <1>4, StreamReceive DEF Inv, Stream
    <3>3. QED BY <3>1, <3>2
  <2>3. \A i \in DOMAIN inbound' : i + 1 \in DOMAIN inbound /\ inbound'[i] = inbound[i + 1]
    BY <1>1, <2>1, StreamCounts, TakeEffect
  <2>4. QED BY <2>1, <2>2, <2>3, ZenonT(30) DEF InStep, Parts
<1>5. QED BY <1>2, <1>3, <1>4

\* The server answers the outstanding command, and nothing else.
LEMMA InStepServer ==
  ASSUME Inv, InStep, ServerGreets \/ ServerAnswers \/ ServerCloses
  PROVE  InStep'
<1>1. TypeOK /\ Stream BY DEF Inv
<1>2. UNCHANGED <<tpc, call, desync, behind>> /\ socket_fd = "open"
  BY DEF ServerGreets, ServerAnswers, ServerCloses, ServerUnchanged
<1> SUFFICES ASSUME NEW t \in Threads, tpc[t] \in Parts, call[t].lag = 0,
                    call[t].type = "COMMAND"
             PROVE  /\ \A i \in DOMAIN inbound' : inbound'[i].of = call[t].id
                    /\ socket_fd' = "open" =>
                         /\ greeted'
                         /\ \A i \in DOMAIN outbound' :
                              outbound'[i].type # "HEARTBEAT" => outbound'[i].id = call[t].id
  BY <1>2 DEF InStep
<1>3. /\ greeted /\ \A i \in DOMAIN inbound : inbound[i].of = call[t].id
      /\ \A i \in DOMAIN outbound :
           outbound[i].type # "HEARTBEAT" => outbound[i].id = call[t].id
  BY <1>2 DEF InStep, Parts
<1>4. CASE ServerGreets BY <1>3, <1>4 DEF ServerGreets
<1>5. CASE ServerAnswers
  <2> DEFINE r == Head(outbound)
  <2>1. /\ greeted' = greeted /\ outbound # <<>> /\ outbound' = Tail(outbound)
        /\ inbound' = IF r.type = "HEARTBEAT" THEN inbound ELSE inbound \o FrameOf(r.id)
    BY <1>5 DEF ServerAnswers
  <2>2. /\ r \in Requests /\ 1 \in DOMAIN outbound /\ r = outbound[1]
        /\ \A i \in DOMAIN outbound' : i + 1 \in DOMAIN outbound /\ outbound'[i] = outbound[i + 1]
    BY SMT, <1>1, <2>1, StreamCounts
  <2>3. r.id \in Frames BY <2>2 DEF Requests, Frames
  <2> HIDE DEF r
  <2>4. \A i \in DOMAIN inbound' : inbound'[i].of = call[t].id
    <3>1. CASE r.type = "HEARTBEAT" BY <1>3, <2>1, <3>1
    <3>2. CASE r.type # "HEARTBEAT"
      <4>1. r.id = call[t].id BY <1>3, <2>2, <3>2
      <4>2. inbound' = inbound \o FrameOf(r.id) BY <2>1, <3>2
      <4>3. \A i \in DOMAIN inbound' :
              inbound'[i].of = r.id \/ (i \in DOMAIN inbound /\ inbound'[i] = inbound[i])
        BY <1>1, <2>3, <4>2, StreamCounts, FrameEffect
      <4>4. QED BY <1>3, <4>1, <4>3
    <3>3. QED BY <3>1, <3>2
  <2>5. QED BY SMT, <1>3, <2>1, <2>2, <2>4
<1>6. CASE ServerCloses BY <1>3, <1>6 DEF ServerCloses
<1>7. QED BY <1>4, <1>5, <1>6

\* A step of a thread moves that thread only.
ThreadStep(u) ==
  \/ \E op \in {"command", "reconnect"}, type \in Types : Call(u, op, type)
  \/ LockForCommand(u) \/ LockForReconnect(u)
  \/ SendRequest(u) \/ Proceed(u)
  \/ eop_last_error(u) \/ GoesOn(u)

LEMMA OneMoves ==
  ASSUME TypeOK, NEW u \in Threads, ThreadStep(u), NEW t \in Threads, t # u
  PROVE  /\ tpc'[t] = tpc[t] /\ call'[t] = call[t] /\ result'[t] = result[t]
         /\ seen'[t] = seen[t]
<1>1. CASE LockForCommand(u)
  BY <1>1, LockedCall DEF LockForCommand, Fail, TypeOK
<1>2. CASE SendRequest(u) BY <1>2 DEF SendRequest, Fail, TypeOK
<1>3. CASE Proceed(u)
  BY <1>3 DEF Proceed, ReceivePrefix, ReceiveHeader, ReceivePayload, ReceivePart,
              ReceiveGarbage, ReceiveGivesUp, Reconnected, Fail, Succeed, TypeOK
<1>4. CASE (\E op, type : Call(u, op, type)) \/ LockForReconnect(u) \/ eop_last_error(u)
             \/ GoesOn(u)
  BY <1>4 DEF Call, LockForReconnect, eop_last_error, GoesOn, TypeOK
<1>5. QED BY <1>1, <1>2, <1>3, <1>4 DEF ThreadStep

\* A thread in the middle of a command is left alone by the other threads.
LEMMA OthersWait ==
  ASSUME Inv, Next, NEW t \in Threads, tpc[t] \in Inside,
         ~(SendRequest(t) \/ Proceed(t)), ~(ServerGreets \/ ServerAnswers \/ ServerCloses)
  PROVE  /\ UNCHANGED <<connVars, last_error>>
         /\ tpc'[t] = tpc[t] /\ call'[t] = call[t] /\ result'[t] = result[t]
<1>1. TypeOK /\ Exclusive BY DEF Inv
<1>2. mutex = t /\ mutex # Nobody /\ handle = "live" /\ tpc[t] # "idle"
  BY <1>1, ClientAssumption DEF Exclusive, Inside, Parts
<1>3. ~eop_connect /\ ~eop_disconnect BY <1>2 DEF eop_connect, eop_disconnect
<1>4. \A u \in Threads : ~LockForCommand(u) /\ ~LockForReconnect(u) /\ ~eop_last_error(u)
  BY <1>2 DEF LockForCommand, LockForReconnect, eop_last_error, LockFree
<1>5. \A u \in Threads : u # t => tpc[u] \notin Inside BY <1>1, <1>2, HolderAlone
<1>6. \A u \in Threads : SendRequest(u) \/ Proceed(u) => tpc[u] \in Inside
  BY DEF SendRequest, Proceed, ReceivePrefix, ReceiveHeader, ReceivePayload, ReceivePart,
         ReceiveGarbage, ReceiveGivesUp, Reconnected, Inside, Parts
<1>7. PICK u \in Threads : (\E op, type : Call(u, op, type)) \/ GoesOn(u)
  BY <1>3, <1>4, <1>5, <1>6 DEF Next
<1>8. u # t BY <1>7 DEF Call, GoesOn, Inside, Parts
<1>9. QED BY <1>1, <1>7, <1>8 DEF Call, GoesOn, TypeOK

LEMMA InStepStep == Inv /\ InStep /\ Next => InStep'
<1> SUFFICES ASSUME Inv, InStep, Next,
                    NEW t \in Threads, tpc'[t] \in {"send"} \cup Parts, call'[t].lag = 0
             PROVE  /\ ~desync'
                    /\ tpc'[t] = "send" => behind' = 0
                    /\ tpc'[t] # "send" /\ call'[t].type = "COMMAND" =>
                         /\ \A i \in DOMAIN inbound' : inbound'[i].of = call'[t].id
                         /\ socket_fd' = "open" =>
                              /\ greeted'
                              /\ \A i \in DOMAIN outbound' :
                                   outbound'[i].type # "HEARTBEAT"
                                     => outbound'[i].id = call'[t].id
  BY DEF InStep
<1>1. TypeOK BY DEF Inv
<1>2. CASE ServerGreets \/ ServerAnswers \/ ServerCloses BY <1>2, InStepServer DEF InStep
<1>3. CASE LockForCommand(t) \/ SendRequest(t) \/ ReceivePrefix(t) \/ ReceiveHeader(t)
  BY <1>3, InStepOwn
<1>4. CASE /\ ~(SendRequest(t) \/ Proceed(t)) /\ ~LockForCommand(t)
           /\ ~(ServerGreets \/ ServerAnswers \/ ServerCloses)
  <2>1. tpc[t] = tpc'[t]
    <3>1. CASE eop_connect \/ eop_disconnect BY <3>1 DEF eop_connect, eop_disconnect
    <3>2. CASE \E u \in Threads : u # t /\ ThreadStep(u) BY <1>1, <3>2, OneMoves
    <3>3. CASE (\E op, type : Call(t, op, type)) \/ LockForReconnect(t) \/ eop_last_error(t)
                 \/ GoesOn(t)
      BY <1>1, <3>3 DEF Call, LockForReconnect, eop_last_error, GoesOn, TypeOK, Parts
    <3>4. QED BY <1>4, <3>1, <3>2, <3>3 DEF Next, ThreadStep, Types
  <2>2. tpc[t] \in Inside BY <2>1 DEF Inside
  <2>3. UNCHANGED connVars /\ call'[t] = call[t] BY <1>4, <2>2, OthersWait
  <2>4. QED BY <2>1, <2>3 DEF InStep, connVars
<1>5. ~(ReceivePayload(t) \/ ReceiveGarbage(t) \/ Reconnected(t)
         \/ \E error \in Errors : ReceiveGivesUp(t, error))
  BY <1>1 DEF ReceivePayload, ReceiveGarbage, Reconnected, ReceiveGivesUp, Fail, Succeed,
              TypeOK, Parts
<1>6. QED BY <1>2, <1>3, <1>4, <1>5 DEF Proceed, Errors

\* Who is left alone by a step keeps what the properties speak of.
LEMMA AnsweredStep ==
  Inv /\ InStep /\ Unanswered /\ AnsweredInStep /\ Next => Unanswered' /\ AnsweredInStep'
<1> SUFFICES ASSUME Inv, InStep, Unanswered, AnsweredInStep, Next, NEW t \in Threads
             PROVE  /\ tpc'[t] # "idle" => result'[t] = NULL
                    /\ (/\ tpc'[t] = "idle" /\ call'[t].op = "command"
                        /\ call'[t].type = "COMMAND" /\ call'[t].lag = 0 /\ result'[t] # NULL)
                          => result'[t] = call'[t].id
  BY DEF Unanswered, AnsweredInStep
<1>1. TypeOK BY DEF Inv
<1>2. CASE \/ eop_connect \/ eop_disconnect
           \/ ServerGreets \/ ServerAnswers \/ ServerCloses
           \/ \E u \in Threads : u # t /\ ThreadStep(u)
  <2>1. tpc'[t] = tpc[t] /\ call'[t] = call[t] /\ result'[t] = result[t]
    BY <1>1, <1>2, OneMoves DEF eop_connect, eop_disconnect, ServerGreets, ServerAnswers,
                                ServerCloses, ServerUnchanged
  <2>2. QED BY <2>1 DEF Unanswered, AnsweredInStep
<1>3. CASE \/ \E op, type : Call(t, op, type)
           \/ LockForCommand(t) \/ LockForReconnect(t) \/ SendRequest(t)
           \/ eop_last_error(t)
  <2>1. tpc[t] # "idle" => result[t] = NULL BY DEF Unanswered
  <2>2. tpc'[t] # "idle" /\ result'[t] = NULL
    BY <1>1, <1>3, <2>1 DEF Call, LockForCommand, LockForReconnect, SendRequest,
                            eop_last_error, Fail, TypeOK
  <2>3. QED BY <2>2
<1>4. CASE GoesOn(t)
  <2>1. result'[t] = NULL BY <1>4 DEF GoesOn, Unanswered
  <2>2. QED BY <2>1
<1>5. CASE Proceed(t)
  <2>1. tpc[t] # "idle" /\ result[t] = NULL /\ call' = call
    BY <1>5 DEF Proceed, ReceivePrefix, ReceiveHeader, ReceivePayload, ReceivePart,
                ReceiveGarbage, ReceiveGivesUp, Reconnected, Unanswered, Parts
  <2>2. CASE ReceivePayload(t)
    <3>1. /\ inbound # <<>> /\ tpc[t] = "payload"
          /\ \/ tpc'[t] = "idle" /\ result'[t] = Head(inbound).of
             \/ result'[t] = NULL
      BY <1>1, <2>2 DEF ReceivePayload, ReceivePart, Succeed, Fail, TypeOK
    <3>2. 1 \in DOMAIN inbound /\ Head(inbound) = inbound[1]
      BY SMT, <1>1, <3>1, TakeEffect DEF TypeOK, StreamParts
    <3>3. call[t].lag = 0 /\ call[t].type = "COMMAND" => Head(inbound).of = call[t].id
      BY <3>1, <3>2 DEF InStep, Parts
    <3>4. QED BY <2>1, <3>1, <3>3
  <2>3. CASE ReceiveGarbage(t)
    <3>1. call[t].lag # 0 BY <2>3 DEF ReceiveGarbage, InStep, Parts
    <3>2. tpc'[t] # "idle" => result'[t] = NULL
      BY <1>1, <2>3 DEF ReceiveGarbage, Fail, Succeed, TypeOK
    <3>3. QED BY <2>1, <3>1, <3>2
  <2>4. CASE \/ ReceivePrefix(t) \/ ReceiveHeader(t) \/ Reconnected(t)
             \/ \E error \in Errors : ReceiveGivesUp(t, error)
    <3>1. result'[t] = NULL
      BY <1>1, <2>1, <2>4 DEF ReceivePrefix, ReceiveHeader, Reconnected, ReceiveGivesUp,
                              Fail, Succeed, TypeOK
    <3>2. QED BY <3>1
  <2>5. QED BY <1>5, <2>2, <2>3, <2>4 DEF Proceed, Errors
<1>6. QED BY <1>2, <1>3, <1>4, <1>5 DEF Next, ThreadStep, Types

(***************************************************************************)
(* The reason of a failure                                                 *)
(***************************************************************************)
\* A step of another thread takes the reason away by writing its own, and
\* never one that has been asked for.
LEMMA OthersOverwrite ==
  ASSUME TypeOK, NEW u \in Threads, ThreadStep(u), NEW t \in Threads, t # u
  PROVE  \/ tpc[t] = "failed" /\ owed'[t] = "overwritten"
         \/ owed'[t] = owed[t] /\ (tpc[t] = "failed" => last_error' = last_error)
<1>1. CASE LockForCommand(u) \/ SendRequest(u) \/ Proceed(u)
  <2>1. \/ UNCHANGED <<last_error, owed>>
        \/ \E error \in Errors : last_error' = error /\ owed' = Owes(u, error)
    BY <1>1, CallWrites DEF Proceed, Errors
  <2>2. QED BY <2>1 DEF Owes
<1>2. CASE \/ \E op \in {"command", "reconnect"}, type \in Types : Call(u, op, type)
           \/ LockForReconnect(u) \/ eop_last_error(u)
  BY <1>2 DEF Call, LockForReconnect, eop_last_error
<1>3. CASE GoesOn(u) BY <1>3 DEF GoesOn, TypeOK
<1>4. QED BY <1>1, <1>2, <1>3 DEF ThreadStep

LEMMA ReasonStep == Inv /\ ReasonKept /\ Next => ReasonKept'
<1> SUFFICES ASSUME Inv, ReasonKept, Next, NEW t \in Threads
             PROVE  /\ tpc'[t] = "failed" => owed'[t] \in {last_error', "overwritten"}
                    /\ tpc'[t] = "asked" => owed'[t] \in {seen'[t], "overwritten"}
  BY DEF ReasonKept
<1>1. TypeOK /\ Exclusive BY DEF Inv
<1>2. CASE eop_connect \/ eop_disconnect
  BY <1>1, <1>2 DEF eop_connect, eop_disconnect, Exclusive
<1>3. CASE ServerGreets \/ ServerAnswers \/ ServerCloses
  <2>1. UNCHANGED <<tpc, owed, seen, last_error>>
    BY <1>3 DEF ServerGreets, ServerAnswers, ServerCloses, ServerUnchanged
  <2>2. QED BY <2>1 DEF ReasonKept
<1>4. CASE \E u \in Threads : u # t /\ ThreadStep(u)
  <2>1. PICK u \in Threads : u # t /\ ThreadStep(u) BY <1>4
  <2>2. tpc'[t] = tpc[t] /\ seen'[t] = seen[t] BY <1>1, <2>1, OneMoves
  <2>3. \/ tpc[t] = "failed" /\ owed'[t] = "overwritten"
        \/ owed'[t] = owed[t] /\ (tpc[t] = "failed" => last_error' = last_error)
    BY <1>1, <2>1, OthersOverwrite
  <2>4. QED BY <2>2, <2>3 DEF ReasonKept
<1>5. CASE eop_last_error(t)
  <2>1. owed[t] \in {last_error, "overwritten"} BY <1>5 DEF eop_last_error, ReasonKept
  <2>2. tpc'[t] = "asked" /\ seen'[t] = last_error /\ owed' = owed
    BY <1>1, <1>5 DEF eop_last_error, TypeOK
  <2>3. QED BY <2>1, <2>2
<1>6. CASE \/ \E op \in {"command", "reconnect"}, type \in Types : Call(t, op, type)
           \/ LockForReconnect(t) \/ GoesOn(t)
  BY <1>1, <1>6 DEF Call, LockForReconnect, GoesOn, TypeOK
<1>7. CASE LockForCommand(t) \/ SendRequest(t) \/ Proceed(t)
  <2>1. tpc'[t] # "asked"
    BY <1>1, <1>7, ZenonT(30) DEF LockForCommand, SendRequest, Proceed, ReceivePrefix, ReceiveHeader,
         ReceivePayload, ReceiveGarbage, ReceiveGivesUp, Reconnected, Fail, Succeed, TypeOK
  <2>2. tpc'[t] = "failed" => \E error \in Errors : Fail(t, error)
    BY <1>1, <1>7, ZenonT(30) DEF LockForCommand, SendRequest, Proceed, ReceivePrefix, ReceiveHeader,
         ReceivePayload, ReceiveGarbage, ReceiveGivesUp, Reconnected, Succeed, TypeOK, Errors
  <2>3. QED BY <2>1, <2>2 DEF Fail, Owes
<1>8. QED BY <1>2, <1>3, <1>4, <1>5, <1>6, <1>7 DEF Next, ThreadStep, Types
-----------------------------------------------------------------------------
\* The state of the client library stays well typed whatever the threads, the
\* server and the time-outs do.
THEOREM ClientTypes == Spec => []TypeOK
<1>1. Inv => TypeOK BY DEF Inv
<1>2. QED BY <1>1, SpecInv, PTL

\* client->mutex: no two threads are between pthread_mutex_lock and
\* pthread_mutex_unlock of eop_send_command or eop_reconnect, and no thread is
\* inside either of them with a handle that has been freed.
OneInside ==
  \A t, u \in Threads : tpc[t] \in Inside /\ tpc[u] \in Inside => t = u /\ handle = "live"

THEOREM ClientExclusion == Spec => []OneInside
<1>1. Inv => OneInside BY DEF Inv, Exclusive, OneInside, Inside, Parts
<1>2. QED BY <1>1, SpecInv, PTL

\* eop_send_command neither skips nor returns twice a frame of the stream, on
\* any connection whose frames were all read to their end.
THEOREM ClientStream == Spec => []StreamAccounted
<1>1. Inv => StreamAccounted
  <2> SUFFICES ASSUME Inv PROVE StreamAccounted OBVIOUS
  <2>1. TypeOK /\ Stream BY DEF Inv
  <2>2. {i \in DOMAIN inbound : inbound[i].part = "payload"} = PlacesOf(inbound, PayloadParts)
    <3>1. \A i \in DOMAIN inbound : inbound[i] \in StreamParts BY SMT, <2>1, StreamCounts
    <3>2. \A i \in DOMAIN inbound : inbound[i] \in PayloadParts <=> inbound[i].part = "payload"
      BY <3>1 DEF PayloadParts, StreamParts
    <3>3. QED BY <3>2 DEF PlacesOf
  <2>3. {i \in DOMAIN outbound : outbound[i].type # "HEARTBEAT"} = PlacesOf(outbound, Answerable)
    <3>1. \A i \in DOMAIN outbound : outbound[i] \in Requests BY SMT, <2>1 DEF TypeOK
    <3>2. \A i \in DOMAIN outbound : outbound[i] \in Answerable <=> outbound[i].type # "HEARTBEAT"
      BY <3>1 DEF Answerable
    <3>3. QED BY <3>2 DEF PlacesOf
  <2>4. QED BY <2>1, <2>2, <2>3 DEF Stream, StreamAccounted, Count
<1>2. QED BY <1>1, SpecInv, PTL

\* A command sent when no frame is outstanding returns the answer to itself:
\* the mutex keeps every other request off the connection until it is read.
THEOREM ClientAnswers == Spec => []AnsweredInStep
<1> DEFINE A == InStep /\ Unanswered /\ AnsweredInStep
<1>1. Init => A BY DEF Init, InStep, Unanswered, AnsweredInStep, Parts
<1>2. Inv /\ A /\ [Next]_vars => A'
  <2> SUFFICES ASSUME Inv, A, [Next]_vars PROVE A' OBVIOUS
  <2>1. CASE Next BY <2>1, InStepStep, AnsweredStep
  <2>2. CASE UNCHANGED vars
    BY <2>2 DEF vars, connVars, InStep, Unanswered, AnsweredInStep
  <2>3. QED BY <2>1, <2>2
<1>3. QED BY <1>1, <1>2, SpecInv, PTL DEF Spec

\* eop_last_error gives a thread the very reason its call failed for, unless
\* another thread's call on the same handle ended in between; for any number of
\* threads.
THEOREM ClientReason == Spec => []ReasonLostOnlyToOthers
<1>1. Init => ReasonKept BY DEF Init, ReasonKept
<1>2. Inv /\ ReasonKept /\ [Next]_vars => ReasonKept'
  <2>1. UNCHANGED vars /\ ReasonKept => ReasonKept' BY DEF vars, ReasonKept
  <2>2. QED BY <2>1, ReasonStep
<1>3. ReasonKept => ReasonLostOnlyToOthers BY DEF ReasonKept, ReasonLostOnlyToOthers
<1>4. QED BY <1>1, <1>2, <1>3, SpecInv, PTL DEF Spec
=============================================================================
