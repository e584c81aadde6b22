-------------------------- MODULE OtelScopeProofs ---------------------------
(***************************************************************************)
(* Theorems about OtelScope, for any number of workers and spans and any   *)
(* size of a batch.                                                        *)
(***************************************************************************)
EXTENDS OtelScope, SequenceLemmas, TLAPS

\* Most steps are first-order logic; those that need arithmetic or records cite SMT.
USE Zenon

\* A stack without duplicates, without its last element.
LEMMA FrontElements ==
  ASSUME NEW S, NEW q \in Seq(S), q # <<>>, Injective(q)
  PROVE  LET front == SubSeq(q, 1, Len(q) - 1) IN
         /\ front \in Seq(S)
         /\ Elements(front) = Elements(q) \ {q[Len(q)]}
         /\ Injective(front)
         /\ q[Len(q)] \in Elements(q) /\ q[Len(q)] \in S
<1> DEFINE n == Len(q)
           r == SubSeq(q, 1, n - 1)
           x == q[n]
<1>1. n \in Nat /\ n > 0 /\ DOMAIN q = 1..n /\ x \in S BY SMT
<1>2. r \in Seq(S) /\ DOMAIN r = 1..(n - 1) /\ \A i \in 1..(n - 1) : r[i] = q[i]
  BY SMT
<1> HIDE DEF n, r, x
<1>3. n \in DOMAIN q /\ \A i \in 1..(n - 1) : i \in DOMAIN q /\ i # n BY SMT, <1>1
<1>4. \A i \in DOMAIN q : i # n => i \in 1..(n - 1) BY SMT, <1>1
<1>5. x \in Elements(q) BY <1>3 DEF Elements, x
<1>6. Elements(r) = Elements(q) \ {x}
  <2>1. ASSUME NEW y \in Elements(r) PROVE y \in Elements(q) \ {x}
    <3>1. PICK i \in 1..(n - 1) : y = q[i] BY <1>2 DEF Elements
    <3>2. q[i] # x BY <1>3 DEF Injective, x
    <3>3. QED BY <1>3, <3>1, <3>2 DEF Elements
  <2>2. ASSUME NEW y \in Elements(q), y # x PROVE y \in Elements(r)
    <3>1. PICK i \in DOMAIN q : y = q[i] BY DEF Elements
    <3>2. i \in 1..(n - 1) BY <1>4, <2>2, <3>1 DEF x
    <3>3. QED BY <1>2, <3>1, <3>2 DEF Elements
  <2>3. QED BY <2>1, <2>2
<1>7. Injective(r) BY <1>2, <1>3 DEF Injective
<1>8. QED BY <1>1, <1>2, <1>5, <1>6, <1>7 DEF n, r, x

\* Two sequences without duplicates and without a common element.
LEMMA ConcatElements ==
  ASSUME NEW S, NEW p \in Seq(S), NEW q \in Seq(S)
  PROVE  /\ Elements(p \o q) = Elements(p) \cup Elements(q)
         /\ Injective(p) /\ Injective(q) /\ Elements(p) \cap Elements(q) = {}
              => Injective(p \o q)
<1> DEFINE r == p \o q
<1>1. /\ DOMAIN p = 1..Len(p) /\ Len(p) \in Nat
      /\ DOMAIN q = 1..Len(q) /\ Len(q) \in Nat
      /\ DOMAIN r = 1..(Len(p) + Len(q))
      /\ \A i \in 1..Len(p) : r[i] = p[i]
      /\ \A i \in DOMAIN r : i > Len(p) => i - Len(p) \in DOMAIN q /\ r[i] = q[i - Len(p)]
  BY SMT
<1> HIDE DEF r
<1>2. Elements(r) = Elements(p) \cup Elements(q)
  <2>1. ASSUME NEW y \in Elements(r) PROVE y \in Elements(p) \cup Elements(q)
    <3>1. PICK i \in DOMAIN r : y = r[i] BY DEF Elements
    <3>2. CASE i <= Len(p)
      <4>1. i \in DOMAIN p /\ y = p[i] BY SMT, <3>1, <3>2, <1>1
      <4>2. QED BY <4>1 DEF Elements
    <3>3. CASE i > Len(p) BY <3>1, <3>3, <1>1 DEF Elements
    <3>4. QED BY SMT, <3>2, <3>3, <1>1
  <2>2. ASSUME NEW y \in Elements(p) PROVE y \in Elements(r)
    <3>1. PICK i \in 1..Len(p) : y = p[i] BY <1>1 DEF Elements
    <3>2. i \in DOMAIN r /\ y = r[i] BY SMT, <3>1, <1>1
    <3>3. QED BY <3>2 DEF Elements
  <2>3. ASSUME NEW y \in Elements(q) PROVE y \in Elements(r)
    <3>1. PICK i \in 1..Len(q) : y = q[i] BY <1>1 DEF Elements
    <3>2. Len(p) + i \in DOMAIN r /\ y = r[Len(p) + i] BY SMT, <3>1, <1>1
    <3>3. QED BY <3>2 DEF Elements
  <2>4. QED BY <2>1, <2>2, <2>3
<1>3. ASSUME Injective(p), Injective(q), Elements(p) \cap Elements(q) = {}
      PROVE  Injective(r)
  <2> SUFFICES ASSUME NEW i \in DOMAIN r, NEW j \in DOMAIN r, r[i] = r[j], i <= j
               PROVE  i = j
    BY SMT, <1>1 DEF Injective
  <2>1. CASE j <= Len(p)
    <3>1. i \in DOMAIN p /\ j \in DOMAIN p /\ p[i] = p[j] BY SMT, <2>1, <1>1
    <3>2. QED BY <1>3, <3>1 DEF Injective
  <2>2. CASE i > Len(p)
    <3>1. /\ i - Len(p) \in DOMAIN q /\ j - Len(p) \in DOMAIN q
          /\ q[i - Len(p)] = q[j - Len(p)]
      BY SMT, <2>2, <1>1
    <3>2. i - Len(p) = j - Len(p) BY <1>3, <3>1 DEF Injective
    <3>3. QED BY SMT, <3>2, <1>1
  <2>3. CASE i <= Len(p) /\ j > Len(p)
    <3>1. i \in DOMAIN p /\ p[i] = r[i] BY SMT, <2>3, <1>1
    <3>2. j - Len(p) \in DOMAIN q /\ q[j - Len(p)] = r[j] BY <2>3, <1>1
    <3>3. QED BY <1>3, <3>1, <3>2 DEF Elements
  <2>4. QED BY SMT, <2>1, <2>2, <2>3, <1>1
<1>4. QED BY <1>2, <1>3 DEF r

(***************************************************************************)
(* The scope stacks.  A worker's stack holds the connection span of its    *)
(* session and, inside an operation, the span of that; no span is on two   *)
(* stacks.  A span's trace is the connection span of its session.          *)
(***************************************************************************)
Stacks ==
  /\ \A t \in Threads :
       /\ tpc[t] = "idle" => t_scopeStack[t] = <<>>
       /\ tpc[t] = "session" => Len(t_scopeStack[t]) = 1
       /\ tpc[t] = "operation" => Len(t_scopeStack[t]) = 2
       /\ tpc[t] # "idle" => /\ root[t] \in Spans /\ t_scopeStack[t][1] = root[t]
                             /\ trace[root[t]] = root[t]
       /\ Injective(t_scopeStack[t])
       /\ Elements(t_scopeStack[t]) \subseteq Started
  /\ \A t, u \in Threads :
       t # u => Elements(t_scopeStack[t]) \cap Elements(t_scopeStack[u]) = {}
  /\ session = trace

(***************************************************************************)
(* The exit.  The workers are joined before the exporter is destroyed, and *)
(* the flusher before the last flush, so that nobody adds a span to the    *)
(* queue after the destructor has looked at it.                            *)
(***************************************************************************)
ExitOrder ==
  /\ joined => \A t \in Threads : tpc[t] = "idle"
  /\ dpc # "idle" => joined
  /\ dpc \in {"flush", "post", "done"} => fpc = "exited"
  /\ dpc \in {"post", "done"} => m_pending = <<>>

Inv == TypeOK /\ Stacks /\ ExitOrder

(***************************************************************************)
(* SpansConserved, with the two sequences apart.                           *)
(***************************************************************************)
Unposted == Elements(m_pending) \cup Elements(batch)

Conserved ==
  /\ Injective(m_pending) /\ Injective(batch)
  /\ Elements(m_pending) \cap Elements(batch) = {}
  /\ Unposted \cap (delivered \cup lost) = {}
  /\ delivered \cap lost = {}
  /\ Unposted \cup delivered \cup lost = Started \ Open

LEMMA InvInit == Init => Inv /\ Conserved
<1> SUFFICES ASSUME Init PROVE Inv /\ Conserved OBVIOUS
<1>1. TypeOK
  <2>1. m_running \in BOOLEAN /\ joined \in BOOLEAN BY DEF Init
  <2>2. QED BY SMT, <2>1 DEF Init, TypeOK
<1>2. \A t \in Threads : /\ t_scopeStack[t] = <<>>
                         /\ Elements(t_scopeStack[t]) = {}
                         /\ Injective(t_scopeStack[t])
  BY SMT DEF Init, Elements, Injective
<1>3. session = trace BY DEF Init
<1>4. Stacks BY <1>2, <1>3 DEF Init, Stacks
<1>5. ExitOrder BY DEF Init, ExitOrder
<1>6. Started = {} BY DEF Init, Started
<1>7. /\ Elements(m_pending) = {} /\ Elements(batch) = {}
      /\ Injective(m_pending) /\ Injective(batch)
  BY SMT DEF Init, Elements, Injective
<1>8. Conserved BY <1>6, <1>7 DEF Init, Conserved, Unposted
<1>9. QED BY <1>1, <1>4, <1>5, <1>8 DEF Inv

\* ToSet and Elements are the same; the open scopes by thread.
LEMMA OpenElements == Open = UNION {Elements(t_scopeStack[t]) : t \in Threads}
  BY DEF Open, ToSet, Elements
-----------------------------------------------------------------------------
(***************************************************************************)
(* Opening a scope                                                         *)
(***************************************************************************)
\* The constructor pushes a span that no thread has seen before.
LEMMA PushEffect ==
  ASSUME Inv, NEW t \in Threads, NEW s \in Spans, NewScope(t, s)
  PROVE  /\ t_scopeStack' \in [Threads -> Seq(Spans)]
         /\ \A u \in Threads \ {t} : t_scopeStack'[u] = t_scopeStack[u]
         /\ Len(t_scopeStack'[t]) = Len(t_scopeStack[t]) + 1
         /\ t_scopeStack'[t][1] = IF t_scopeStack[t] = <<>> THEN s ELSE t_scopeStack[t][1]
         /\ Elements(t_scopeStack'[t]) = Elements(t_scopeStack[t]) \cup {s}
         /\ Injective(t_scopeStack'[t])
         /\ s \notin Started /\ \A u \in Threads : s \notin Elements(t_scopeStack[u])
<1> DEFINE q == t_scopeStack[t]
<1>1. q \in Seq(Spans) BY DEF Inv, TypeOK
<1>2. /\ t_scopeStack' = [t_scopeStack EXCEPT ![t] = Append(q, s)]
      /\ s \notin Started
  BY DEF NewScope
<1>3. t_scopeStack'[t] = Append(q, s) BY <1>2 DEF Inv, TypeOK
<1>4. \A u \in Threads : s \notin Elements(t_scopeStack[u])
  BY <1>2 DEF Inv, Stacks
<1>5. Injective(q) BY DEF Inv, Stacks
<1>6. /\ Append(q, s) \in Seq(Spans) /\ Len(Append(q, s)) = Len(q) + 1
      /\ Append(q, s)[1] = IF q = <<>> THEN s ELSE q[1]
  BY SMT, <1>1
<1>7. Elements(Append(q, s)) = Elements(q) \cup {s} /\ Injective(Append(q, s))
  BY <1>1, <1>4, <1>5, AppendElements
<1>8. t_scopeStack' \in [Threads -> Seq(Spans)]
  BY <1>2, <1>6 DEF Inv, TypeOK
<1>9. QED BY <1>2, <1>3, <1>4, <1>6, <1>7, <1>8 DEF Inv, TypeOK

\* Opening a scope finishes no span.
LEMMA ConservedOpen ==
  ASSUME Inv, Conserved, NEW t \in Threads, NEW s \in Spans, NewScope(t, s),
         trace'[s] # None, \A r \in Spans \ {s} : trace'[r] = trace[r],
         UNCHANGED <<m_pending, exportVars>>
  PROVE  Conserved'
<1>1. Started' = Started \cup {s} BY DEF Started
<1>2. Open' = Open \cup {s}
  <2>1. \A u \in Threads : Elements(t_scopeStack'[u]) =
          Elements(t_scopeStack[u]) \cup (IF u = t THEN {s} ELSE {})
    BY SMT, PushEffect
  <2>2. Open' = UNION {Elements(t_scopeStack'[u]) : u \in Threads}
    BY DEF Open, ToSet, Elements
  <2>3. QED BY SMT, <2>1, <2>2, OpenElements
<1>3. s \notin Started BY PushEffect
<1>4. Started' \ Open' = Started \ Open BY <1>1, <1>2, <1>3
<1>5. UNCHANGED <<m_pending, batch, delivered, lost>> BY DEF exportVars
<1>6. QED BY <1>4, <1>5 DEF Conserved, Unposted

\* The stacks after the push, given what the caller does with the rest.
LEMMA StacksOpen ==
  ASSUME Inv, NEW t \in Threads, NEW s \in Spans, NewScope(t, s),
         \/ /\ tpc[t] = "idle" /\ tpc' = [tpc EXCEPT ![t] = "session"]
            /\ root' = [root EXCEPT ![t] = s]
            /\ session' = [session EXCEPT ![s] = s]
         \/ /\ tpc[t] = "session" /\ tpc' = [tpc EXCEPT ![t] = "operation"]
            /\ root' = root
            /\ session' = [session EXCEPT ![s] = root[t]]
  PROVE  /\ Stacks' /\ trace' \in [Spans -> Spans \cup {None}]
         /\ root' \in [Threads -> Spans \cup {None}]
         /\ session' \in [Spans -> Spans \cup {None}]
         /\ trace'[s] # None /\ \A r \in Spans \ {s} : trace'[r] = trace[r]
<1> DEFINE q == t_scopeStack[t]
           top == IF q # <<>> THEN trace[Last(q)] ELSE s
<1>1. trace' = [trace EXCEPT ![s] = top] BY DEF NewScope
<1>2. top = root'[t] /\ root'[t] \in Spans /\ tpc'[t] # "idle"
  <2>1. CASE tpc[t] = "idle"
    BY <2>1 DEF Inv, Stacks, TypeOK
  <2>2. CASE tpc[t] = "session"
    <3>1. q # <<>> /\ Len(q) = 1 /\ q[1] = root[t] /\ trace[root[t]] = root[t]
      BY SMT, <2>2 DEF Inv, Stacks, TypeOK
    <3>2. Last(q) = root[t] BY <3>1 DEF Last
    <3>3. QED BY <2>2, <3>1, <3>2 DEF Inv, Stacks, TypeOK
  <2>3. QED BY <2>1, <2>2
<1> HIDE DEF top, q
<1>3. /\ trace'[s] = root'[t] /\ trace'[s] # None
      /\ \A r \in Spans \ {s} : trace'[r] = trace[r]
      /\ trace' \in [Spans -> Spans \cup {None}]
  BY <1>1, <1>2, ScopeAssumption DEF Inv, TypeOK
<1>4. session' = trace' /\ session' \in [Spans -> Spans \cup {None}]
  <2>1. session' = [session EXCEPT ![s] = root'[t]] BY DEF Inv, TypeOK
  <2>2. QED BY <1>1, <1>2, <2>1 DEF Inv, Stacks, TypeOK
<1>5. Started' = Started \cup {s} BY <1>3 DEF Started
<1>6. s \notin Started BY PushEffect
<1>7. ASSUME NEW u \in Threads \ {t}
      PROVE  /\ tpc'[u] = tpc[u] /\ root'[u] = root[u]
             /\ t_scopeStack'[u] = t_scopeStack[u]
             /\ tpc[u] # "idle" => trace'[root[u]] = root[u]
  <2>1. tpc'[u] = tpc[u] /\ root'[u] = root[u] /\ t_scopeStack'[u] = t_scopeStack[u]
    BY SMT, PushEffect DEF Inv, TypeOK
  <2>2. ASSUME tpc[u] # "idle" PROVE trace'[root[u]] = root[u]
    <3>1. root[u] \in Spans /\ trace[root[u]] = root[u] BY <2>2 DEF Inv, Stacks
    <3>2. root[u] # s BY <1>6, <3>1, ScopeAssumption DEF Started
    <3>3. QED BY <1>3, <3>1, <3>2
  <2>3. QED BY <2>1, <2>2
<1>8. trace'[root'[t]] = root'[t] /\ t_scopeStack'[t][1] = root'[t]
  <2>1. CASE tpc[t] = "idle"
    <3>1. root'[t] = s /\ t_scopeStack[t] = <<>> BY <2>1 DEF Inv, Stacks, TypeOK
    <3>2. QED BY <1>3, <3>1, PushEffect
  <2>2. CASE tpc[t] = "session"
    <3>1. /\ root'[t] = root[t] /\ t_scopeStack[t] # <<>>
          /\ t_scopeStack[t][1] = root[t] /\ trace[root[t]] = root[t]
      BY SMT, <2>2 DEF Inv, Stacks, TypeOK
    <3>2. root[t] # s /\ root[t] \in Spans
      BY <1>2, <1>6, <3>1, ScopeAssumption DEF Started
    <3>3. QED BY SMT, <1>3, <3>1, <3>2, PushEffect
  <2>3. QED BY <2>1, <2>2
<1>9. /\ tpc'[t] = "session" => Len(t_scopeStack'[t]) = 1
      /\ tpc'[t] = "operation" => Len(t_scopeStack'[t]) = 2
  <2>1. Len(t_scopeStack'[t]) = Len(t_scopeStack[t]) + 1 BY PushEffect
  <2>2. /\ tpc'[t] = "session" => tpc[t] = "idle"
        /\ tpc'[t] = "operation" => tpc[t] = "session"
    BY DEF Inv, TypeOK
  <2>3. tpc[t] = "idle" => Len(t_scopeStack[t]) = 0 BY SMT DEF Inv, Stacks
  <2>4. tpc[t] = "session" => Len(t_scopeStack[t]) = 1 BY DEF Inv, Stacks
  <2>5. CASE tpc'[t] = "session" BY SMT, <2>1, <2>2, <2>3, <2>5
  <2>6. CASE tpc'[t] = "operation"
    <3>1. Len(t_scopeStack[t]) = 1 BY <2>2, <2>4, <2>6
    <3>2. Len(t_scopeStack'[t]) = 2 BY SMT, <2>1, <3>1
    <3>3. QED BY <2>6, <3>2
  <2>7. QED BY <2>5, <2>6
<1>10. Stacks'
  <2>1. ASSUME NEW u \in Threads
        PROVE  /\ tpc'[u] = "idle" => t_scopeStack'[u] = <<>>
               /\ tpc'[u] = "session" => Len(t_scopeStack'[u]) = 1
               /\ tpc'[u] = "operation" => Len(t_scopeStack'[u]) = 2
               /\ tpc'[u] # "idle" => /\ root'[u] \in Spans
                                      /\ t_scopeStack'[u][1] = root'[u]
                                      /\ trace'[root'[u]] = root'[u]
               /\ Injective(t_scopeStack'[u])
               /\ Elements(t_scopeStack'[u]) \subseteq Started'
    <3>1. CASE u = t
      <4>1. /\ Elements(t_scopeStack'[t]) = Elements(t_scopeStack[t]) \cup {s}
            /\ Injective(t_scopeStack'[t])
        BY PushEffect
      <4>2. Elements(t_scopeStack[t]) \subseteq Started BY DEF Inv, Stacks
      <4>3. QED BY <1>2, <1>5, <1>8, <1>9, <3>1, <4>1, <4>2
    <3>2. CASE u # t BY <1>5, <1>7, <3>2 DEF Inv, Stacks
    <3>3. QED BY <3>1, <3>2
  <2>2. ASSUME NEW u \in Threads, NEW v \in Threads, u # v
        PROVE  Elements(t_scopeStack'[u]) \cap Elements(t_scopeStack'[v]) = {}
    <3>1. ASSUME NEW w \in Threads
          PROVE  /\ s \notin Elements(t_scopeStack[w])
                 /\ Elements(t_scopeStack'[w]) =
                      Elements(t_scopeStack[w]) \cup (IF w = t THEN {s} ELSE {})
      <4>1. CASE w = t BY <4>1, PushEffect
      <4>2. CASE w # t BY SMT, <4>2, PushEffect
      <4>3. QED BY <4>1, <4>2
    <3>2. Elements(t_scopeStack[u]) \cap Elements(t_scopeStack[v]) = {}
      BY <2>2 DEF Inv, Stacks
    <3>3. QED BY SMT, <2>2, <3>1, <3>2
  <2>3. QED BY <1>4, <2>1, <2>2 DEF Stacks
<1>11. root' \in [Threads -> Spans \cup {None}] BY DEF Inv, TypeOK
<1>12. QED BY <1>3, <1>4, <1>10, <1>11

LEMMA InvOpen ==
  ASSUME Inv, Conserved, NEW t \in Threads, NEW s \in Spans,
         OpenConnection(t, s) \/ OpenOperation(t, s)
  PROVE  Inv' /\ Conserved'
<1>1. NewScope(t, s) /\ UNCHANGED <<m_pending, joined, exportVars>>
  BY DEF OpenConnection, OpenOperation
<1>2. /\ Stacks' /\ trace' \in [Spans -> Spans \cup {None}]
      /\ root' \in [Threads -> Spans \cup {None}]
      /\ session' \in [Spans -> Spans \cup {None}]
      /\ trace'[s] # None /\ \A r \in Spans \ {s} : trace'[r] = trace[r]
  BY <1>1, StacksOpen DEF OpenConnection, OpenOperation
<1>3. t_scopeStack' \in [Threads -> Seq(Spans)] BY <1>1, PushEffect
<1>4. tpc' \in [Threads -> {"idle", "session", "operation"}]
  BY DEF OpenConnection, OpenOperation, Inv, TypeOK
<1>5. TypeOK' BY <1>1, <1>2, <1>3, <1>4 DEF Inv, TypeOK, exportVars
<1>6. ~joined
  BY DEF OpenConnection, OpenOperation, Inv, ExitOrder
<1>7. ExitOrder' BY <1>1, <1>6 DEF Inv, ExitOrder, exportVars
<1>8. Conserved' BY <1>1, <1>2, ConservedOpen
<1>9. QED BY <1>2, <1>5, <1>7, <1>8 DEF Inv
-----------------------------------------------------------------------------
(***************************************************************************)
(* Closing a scope                                                         *)
(***************************************************************************)
\* The destructor of the innermost scope pops its own span.
LEMMA PopEffect ==
  ASSUME Inv, NEW t \in Threads, CloseScope(t)
  PROVE  LET q == t_scopeStack[t] IN
         /\ t_scopeStack' \in [Threads -> Seq(Spans)]
         /\ \A u \in Threads \ {t} : t_scopeStack'[u] = t_scopeStack[u]
         /\ Elements(t_scopeStack'[t]) = Elements(q) \ {Last(q)}
         /\ Injective(t_scopeStack'[t])
         /\ Last(q) \in Elements(q) /\ Last(q) \in Spans
         /\ tpc[t] = "operation" => /\ Len(t_scopeStack'[t]) = 1
                                    /\ t_scopeStack'[t][1] = q[1]
         /\ tpc[t] = "session" => t_scopeStack'[t] = <<>>
<1> DEFINE q == t_scopeStack[t]
<1>1. /\ q \in Seq(Spans) /\ Injective(q)
      /\ tpc[t] = "operation" => Len(q) = 2
      /\ tpc[t] = "session" => Len(q) = 1
      /\ tpc[t] \in {"session", "operation"}
  BY DEF CloseScope, Inv, Stacks, TypeOK
<1>2. q # <<>> BY SMT, <1>1
<1>3. t_scopeStack' = [t_scopeStack EXCEPT ![t] = SubSeq(q, 1, Len(q) - 1)]
  BY DEF CloseScope, Front
<1>4. t_scopeStack'[t] = SubSeq(q, 1, Len(q) - 1)
  BY <1>3 DEF Inv, TypeOK
<1>5. /\ SubSeq(q, 1, Len(q) - 1) \in Seq(Spans)
      /\ Elements(SubSeq(q, 1, Len(q) - 1)) = Elements(q) \ {q[Len(q)]}
      /\ Injective(SubSeq(q, 1, Len(q) - 1))
      /\ q[Len(q)] \in Elements(q) /\ q[Len(q)] \in Spans
  BY <1>1, <1>2, FrontElements
<1>6. ASSUME tpc[t] = "operation"
      PROVE  /\ Len(SubSeq(q, 1, Len(q) - 1)) = 1
             /\ SubSeq(q, 1, Len(q) - 1)[1] = q[1]
  <2>1. Len(q) = 2 /\ 2 - 1 = 1 BY SMT, <1>1, <1>6
  <2>2. Len(SubSeq(q, 1, 1)) = 1 /\ SubSeq(q, 1, 1)[1] = q[1]
    BY SMT, <1>1, <2>1
  <2>3. QED BY <2>1, <2>2
<1>7. ASSUME tpc[t] = "session" PROVE SubSeq(q, 1, Len(q) - 1) = <<>>
  <2>1. Len(q) = 1 /\ 1 - 1 = 0 BY SMT, <1>1, <1>7
  <2>2. SubSeq(q, 1, 0) = <<>> BY SMT, <1>1
  <2>3. QED BY <2>1, <2>2
<1>8. /\ t_scopeStack' \in [Threads -> Seq(Spans)]
      /\ \A u \in Threads \ {t} : t_scopeStack'[u] = t_scopeStack[u]
  BY <1>3, <1>5 DEF Inv, TypeOK
<1> HIDE DEF q
<1>9. QED BY <1>4, <1>5, <1>6, <1>7, <1>8 DEF q, Last

LEMMA StacksClose == ASSUME Inv, NEW t \in Threads, CloseScope(t) PROVE Stacks'
<1>1. /\ UNCHANGED <<trace, root, session>>
      /\ tpc' = [tpc EXCEPT ![t] = IF @ = "operation" THEN "session" ELSE "idle"]
      /\ tpc[t] # "idle"
  BY DEF CloseScope
<1>2. Started' = Started BY <1>1 DEF Started
<1>3. ASSUME NEW u \in Threads
      PROVE  /\ tpc'[u] = "idle" => t_scopeStack'[u] = <<>>
             /\ tpc'[u] = "session" => Len(t_scopeStack'[u]) = 1
             /\ tpc'[u] = "operation" => Len(t_scopeStack'[u]) = 2
             /\ tpc'[u] # "idle" => /\ root[u] \in Spans
                                    /\ t_scopeStack'[u][1] = root[u]
                                    /\ trace[root[u]] = root[u]
             /\ Injective(t_scopeStack'[u])
             /\ Elements(t_scopeStack'[u]) \subseteq Elements(t_scopeStack[u])
             /\ Elements(t_scopeStack[u]) \subseteq Started
  <2>1. CASE u = t
    <3>1. /\ Injective(t_scopeStack'[t])
          /\ Elements(t_scopeStack'[t]) \subseteq Elements(t_scopeStack[t])
          /\ Elements(t_scopeStack[t]) \subseteq Started
      BY PopEffect DEF Inv, Stacks
    <3>2. CASE tpc[t] = "operation"
      <4>1. /\ tpc'[t] = "session" /\ root[t] \in Spans
            /\ t_scopeStack[t][1] = root[t] /\ trace[root[t]] = root[t]
        BY <1>1, <3>2 DEF Inv, Stacks, TypeOK
      <4>2. Len(t_scopeStack'[t]) = 1 /\ t_scopeStack'[t][1] = t_scopeStack[t][1]
        BY <3>2, PopEffect
      <4>3. QED BY <2>1, <3>1, <4>1, <4>2
    <3>3. CASE tpc[t] # "operation"
      <4>1. tpc[t] = "session" /\ tpc'[t] = "idle" BY <1>1, <3>3 DEF Inv, TypeOK
      <4>2. t_scopeStack'[t] = <<>> BY <4>1, PopEffect
      <4>3. QED BY <2>1, <3>1, <4>1, <4>2
    <3>4. QED BY <3>2, <3>3
  <2>2. CASE u # t
    <3>1. tpc'[u] = tpc[u] /\ t_scopeStack'[u] = t_scopeStack[u]
      BY <1>1, <2>2, PopEffect DEF Inv, TypeOK
    <3>2. QED BY <3>1 DEF Inv, Stacks
  <2>3. QED BY <2>1, <2>2
<1>4. ASSUME NEW u \in Threads, NEW v \in Threads, u # v
      PROVE  Elements(t_scopeStack'[u]) \cap Elements(t_scopeStack'[v]) = {}
  <2>1. Elements(t_scopeStack[u]) \cap Elements(t_scopeStack[v]) = {}
    BY <1>4 DEF Inv, Stacks
  <2>2. QED BY <1>3, <2>1
<1>5. session' = trace' BY <1>1 DEF Inv, Stacks
<1>6. QED BY <1>1, <1>2, <1>3, <1>4, <1>5 DEF Stacks

\* The span that is popped is the one that joins the pending ones.
LEMMA ConservedClose ==
  ASSUME Inv, Conserved, NEW t \in Threads, CloseScope(t)
  PROVE  Conserved'
<1> DEFINE s == Last(t_scopeStack[t])
<1>1. /\ m_pending' = Append(m_pending, s)
      /\ UNCHANGED <<trace, batch, delivered, lost>>
  BY DEF CloseScope, enqueue
<1>2. s \in Elements(t_scopeStack[t]) /\ s \in Spans BY PopEffect
<1>3. s \in Open /\ s \in Started
  BY <1>2, OpenElements DEF Inv, Stacks
<1>4. Open' = Open \ {s}
  <2>1. ASSUME NEW u \in Threads
        PROVE  Elements(t_scopeStack'[u]) = Elements(t_scopeStack[u]) \ {s}
    <3>1. CASE u = t BY <3>1, PopEffect
    <3>2. CASE u # t
      <4>1. Elements(t_scopeStack[t]) \cap Elements(t_scopeStack[u]) = {}
        BY <3>2 DEF Inv, Stacks
      <4>2. QED BY <1>2, <3>2, <4>1, PopEffect
    <3>3. QED BY <3>1, <3>2
  <2>2. Open' = UNION {Elements(t_scopeStack'[u]) : u \in Threads}
    BY DEF Open, ToSet, Elements
  <2>3. QED BY SMT, <2>1, <2>2, OpenElements
<1>5. Started' = Started BY <1>1 DEF Started
<1> HIDE DEF s
<1>6. s \notin Unposted /\ s \notin delivered /\ s \notin lost
  BY <1>3 DEF Conserved
<1>7. Elements(m_pending') = Elements(m_pending) \cup {s} /\ Injective(m_pending')
  BY SMT, <1>1, <1>2, <1>6, AppendElements DEF Conserved, Unposted, Inv, TypeOK
<1>8. Unposted' = Unposted \cup {s} BY <1>1, <1>7 DEF Unposted
<1>9. Started' \ Open' = (Started \ Open) \cup {s} BY <1>3, <1>4, <1>5
<1>10. QED BY SMT, <1>1, <1>6, <1>7, <1>8, <1>9 DEF Conserved, Unposted

LEMMA InvClose ==
  ASSUME Inv, Conserved, NEW t \in Threads, CloseScope(t)
  PROVE  Inv' /\ Conserved'
<1> USE DEF CloseScope, enqueue
<1>1. m_pending' \in Seq(Spans)
  <2>1. Last(t_scopeStack[t]) \in Spans BY PopEffect
  <2>2. QED BY SMT, <2>1 DEF Inv, TypeOK
<1>2. fpc' \in {"unborn", "test", "wait", "woken", "post", "exited"}
  BY DEF Inv, TypeOK
<1>3. fpc = "post" => fpc' = "post" OBVIOUS
<1>4. t_scopeStack' \in [Threads -> Seq(Spans)] BY PopEffect
<1>5. TypeOK' BY <1>1, <1>2, <1>3, <1>4 DEF Inv, TypeOK
<1>6. ~joined /\ dpc = "idle" BY DEF Inv, ExitOrder
<1>7. ExitOrder' BY <1>6 DEF ExitOrder
<1>8. QED BY <1>5, <1>7, StacksClose, ConservedClose DEF Inv
-----------------------------------------------------------------------------
(***************************************************************************)
(* The exporter                                                            *)
(***************************************************************************)
\* Steps of the exporter leave the scopes as they are.
LEMMA ScopesKept ==
  ASSUME Inv, UNCHANGED scopeVars
  PROVE  Stacks' /\ Started' = Started /\ Open' = Open
  BY SMT DEF Inv, Stacks, Started, Open, scopeVars

\* flush() moves the queue into an empty batch: no span is left in both.
LEMMA SwapKeeps ==
  ASSUME Inv, Conserved, UNCHANGED scopeVars, UNCHANGED <<delivered, lost>>,
         Swap, batch = <<>>
  PROVE  Conserved'
<1>1. Elements(batch) = {} /\ Elements(<<>>) = {} /\ Injective(<<>>)
  BY SMT DEF Elements, Injective
<1>2. batch' = m_pending /\ m_pending' = <<>> BY DEF Swap
<1>3. Unposted' = Unposted BY <1>1, <1>2 DEF Unposted
<1>4. /\ Injective(m_pending') /\ Injective(batch')
      /\ Elements(m_pending') \cap Elements(batch') = {}
  BY <1>1, <1>2 DEF Conserved
<1>5. QED BY <1>3, <1>4, ScopesKept DEF Conserved

\* A POST that returned has delivered the batch or lost it, all of it.
LEMMA PostKeeps ==
  ASSUME Inv, Conserved, UNCHANGED scopeVars, UNCHANGED m_pending, httpPost
  PROVE  Conserved' /\ delivered' \in SUBSET Spans /\ lost' \in SUBSET Spans
<1>1. Elements(<<>>) = {} /\ Injective(<<>>) BY SMT DEF Elements, Injective
<1>2. ToSet(batch) = Elements(batch) BY DEF ToSet, Elements
<1>3. Elements(batch) \subseteq Spans
  <2>1. batch \in Seq(Spans) BY DEF Inv, TypeOK
  <2>2. QED BY SMT, <2>1 DEF Elements
<1>4. /\ batch' = <<>>
      /\ \/ delivered' = delivered \cup Elements(batch) /\ lost' = lost
         \/ lost' = lost \cup Elements(batch) /\ delivered' = delivered
  BY <1>2 DEF httpPost
<1>5. Unposted' = Elements(m_pending) /\ Elements(batch') = {} /\ Injective(batch')
  BY <1>1, <1>4 DEF Unposted
<1>6. delivered' \in SUBSET Spans /\ lost' \in SUBSET Spans
  BY <1>3, <1>4 DEF Inv, TypeOK
<1>7. /\ Elements(m_pending) \cap Elements(batch) = {}
      /\ (Elements(m_pending) \cup Elements(batch)) \cap (delivered \cup lost) = {}
      /\ delivered \cap lost = {}
      /\ Elements(m_pending) \cup Elements(batch) \cup delivered \cup lost
           = Started \ Open
      /\ Injective(m_pending)
  BY DEF Conserved, Unposted
<1>8. /\ Unposted' \cap (delivered' \cup lost') = {}
      /\ delivered' \cap lost' = {}
      /\ Unposted' \cup delivered' \cup lost' = Started \ Open
  <2>1. CASE delivered' = delivered \cup Elements(batch) /\ lost' = lost
    BY <1>5, <1>7, <2>1
  <2>2. CASE lost' = lost \cup Elements(batch) /\ delivered' = delivered
    BY <1>5, <1>7, <2>2
  <2>3. QED BY <1>4, <2>1, <2>2
<1>9. QED BY <1>5, <1>6, <1>7, <1>8, ScopesKept DEF Conserved

\* Steps that touch neither the spans nor the places they can be in.
LEMMA PlacesKept ==
  ASSUME Inv, Conserved, UNCHANGED scopeVars,
         UNCHANGED <<m_pending, batch, delivered, lost>>
  PROVE  Conserved'
  BY ScopesKept DEF Conserved, Unposted

LEMMA InvFlusher ==
  ASSUME Inv, Conserved, Flusher
  PROVE  Inv' /\ Conserved'
<1> USE DEF scopeVars
<1>1. CASE FlusherStarts \/ WaitReturns
  <2>1. TypeOK' BY <1>1 DEF FlusherStarts, WaitReturns, LoopTest, Inv, TypeOK
  <2>2. ExitOrder' BY SMT, <1>1 DEF FlusherStarts, WaitReturns, Inv, ExitOrder
  <2>3. QED BY <1>1, <2>1, <2>2, ScopesKept, PlacesKept
            DEF FlusherStarts, WaitReturns, Inv
<1>2. CASE FlusherFlushes
  <2>1. fpc = "woken" /\ dpc \in {"idle", "notify", "join"} /\ batch = <<>>
    BY <1>2 DEF FlusherFlushes, Inv, TypeOK, ExitOrder
  <2>2. TypeOK'
    BY <1>2, <2>1 DEF FlusherFlushes, Swap, LoopTest, Inv, TypeOK
  <2>3. ExitOrder' BY <1>2, <2>1 DEF FlusherFlushes, Inv, ExitOrder
  <2>4. Conserved'
    BY <1>2, <2>1, SwapKeeps, PlacesKept DEF FlusherFlushes
  <2>5. QED BY <1>2, <2>2, <2>3, <2>4, ScopesKept DEF FlusherFlushes, Inv
<1>3. CASE FlusherPosts
  <2>1. Conserved' /\ delivered' \in SUBSET Spans /\ lost' \in SUBSET Spans
    BY <1>3, PostKeeps DEF FlusherPosts
  <2>2. batch' = <<>> /\ batch' \in Seq(Spans)
    BY SMT, <1>3 DEF FlusherPosts, httpPost
  <2>3. TypeOK' BY <1>3, <2>1, <2>2 DEF FlusherPosts, Inv, TypeOK
  <2>4. ExitOrder' BY <1>3 DEF FlusherPosts, Inv, ExitOrder
  <2>5. QED BY <1>3, <2>1, <2>3, <2>4, ScopesKept DEF FlusherPosts, Inv
<1>4. QED BY <1>1, <1>2, <1>3 DEF Flusher

LEMMA InvDestructor ==
  ASSUME Inv, Conserved, DestructorStops \/ Destructor
  PROVE  Inv' /\ Conserved'
<1> USE DEF scopeVars
<1>1. CASE DestructorStops
  <2>1. m_running' \in BOOLEAN BY <1>1 DEF DestructorStops
  <2>2. dpc = "idle" /\ dpc' = "notify" BY <1>1 DEF DestructorStops
  <2>3. TypeOK' BY <1>1, <2>1, <2>2 DEF DestructorStops, Inv, TypeOK
  <2>4. ExitOrder' BY <1>1 DEF DestructorStops, Inv, ExitOrder
  <2>5. QED BY <1>1, <2>3, <2>4, ScopesKept, PlacesKept DEF DestructorStops, Inv
<1>2. CASE DestructorNotifies \/ DestructorJoins
  <2>1. TypeOK' BY <1>2 DEF DestructorNotifies, DestructorJoins, Inv, TypeOK
  <2>2. ExitOrder' BY <1>2 DEF DestructorNotifies, DestructorJoins, Inv, ExitOrder
  <2>3. QED BY <1>2, <2>1, <2>2, ScopesKept, PlacesKept
            DEF DestructorNotifies, DestructorJoins, Inv
<1>3. CASE DestructorFlushes
  <2>1. dpc = "flush" /\ fpc = "exited" /\ joined /\ batch = <<>>
    BY <1>3 DEF DestructorFlushes, Inv, TypeOK, ExitOrder
  <2>2. TypeOK' BY <1>3, <2>1 DEF DestructorFlushes, Swap, Inv, TypeOK
  <2>3. ExitOrder'
    <3>1. m_pending' = <<>> /\ UNCHANGED <<tpc, joined, fpc>>
      BY <1>3 DEF DestructorFlushes, Swap
    <3>2. QED BY <2>1, <3>1 DEF Inv, ExitOrder
  <2>4. Conserved'
    BY <1>3, <2>1, SwapKeeps, PlacesKept DEF DestructorFlushes
  <2>5. QED BY <1>3, <2>2, <2>3, <2>4, ScopesKept DEF DestructorFlushes, Inv
<1>4. CASE DestructorPosts
  <2>1. Conserved' /\ delivered' \in SUBSET Spans /\ lost' \in SUBSET Spans
    BY <1>4, PostKeeps DEF DestructorPosts
  <2>2. batch' = <<>> /\ batch' \in Seq(Spans)
    BY SMT, <1>4 DEF DestructorPosts, httpPost
  <2>3. TypeOK' BY <1>4, <2>1, <2>2 DEF DestructorPosts, Inv, TypeOK
  <2>4. ExitOrder' BY <1>4 DEF DestructorPosts, Inv, ExitOrder
  <2>5. QED BY <1>4, <2>1, <2>3, <2>4, ScopesKept DEF DestructorPosts, Inv
<1>5. QED BY <1>1, <1>2, <1>3, <1>4 DEF Destructor

LEMMA InvNext == ASSUME Inv, Conserved, [Next]_vars PROVE Inv' /\ Conserved'
<1>1. CASE \E t \in Threads : \E s \in Spans : OpenConnection(t, s) \/ OpenOperation(t, s)
  BY <1>1, InvOpen
<1>2. CASE \E t \in Threads : CloseScope(t) BY <1>2, InvClose
<1>3. CASE JoinWorkers
  <2>1. joined' \in BOOLEAN BY <1>3 DEF JoinWorkers
  <2>2. TypeOK' BY <1>3, <2>1 DEF JoinWorkers, scopeVars, exportVars, Inv, TypeOK
  <2>3. ExitOrder'
    BY <1>3 DEF JoinWorkers, scopeVars, exportVars, Inv, ExitOrder
  <2>4. QED BY <1>3, <2>2, <2>3, ScopesKept, PlacesKept
            DEF JoinWorkers, exportVars, Inv
<1>4. CASE UNCHANGED vars
  <2>1. TypeOK' /\ ExitOrder'
    BY <1>4 DEF vars, scopeVars, exportVars, Inv, TypeOK, ExitOrder
  <2>2. QED BY <1>4, <2>1, ScopesKept, PlacesKept DEF vars, exportVars, Inv
<1>5. QED BY <1>1, <1>2, <1>3, <1>4, InvFlusher, InvDestructor DEF Next
-----------------------------------------------------------------------------
(***************************************************************************)
(* The theorems                                                            *)
(***************************************************************************)
\* Inv and Conserved together are inductive.
THEOREM SpecInv == Spec => [](Inv /\ Conserved)
<1>1. Inv /\ Conserved /\ [Next]_vars => (Inv /\ Conserved)' BY InvNext
<1>2. QED BY InvInit, <1>1, PTL DEF Spec

\* Every variable keeps its type, and flush()'s batch is empty outside a POST.
THEOREM TypeCorrect == Spec => []TypeOK
<1>1. Inv => TypeOK BY DEF Inv
<1>2. QED BY SpecInv, <1>1, PTL

\* Any number of workers and spans: a finished span is pending, in the batch,
\* delivered or lost, in one of them and once.
THEOREM NoSpanTwice == Spec => []SpansConserved
<1>1. Inv /\ Conserved => SpansConserved
  <2> SUFFICES ASSUME Inv, Conserved PROVE SpansConserved OBVIOUS
  <2> DEFINE places == m_pending \o batch
  <2>1. m_pending \in Seq(Spans) /\ batch \in Seq(Spans) BY DEF Inv, TypeOK
  <2>2. Elements(places) = Unposted /\ Injective(places)
    BY SMT, <2>1, ConcatElements DEF Conserved, Unposted
  <2>3. ToSet(places) = Unposted BY <2>2 DEF ToSet, Elements
  <2>4. IsInjective(places) BY <2>2 DEF IsInjective, Injective
  <2> HIDE DEF places
  <2>5. QED BY <2>3, <2>4 DEF Conserved, SpansConserved, places
<1>2. QED BY SpecInv, <1>1, PTL

\* However the pool reuses its threads, two spans share a trace exactly when
\* they belong to the same session.
THEOREM TraceIsSession == Spec => []OneTracePerSession
<1>1. Inv => OneTracePerSession BY DEF Inv, Stacks, OneTracePerSession
<1>2. QED BY SpecInv, <1>1, PTL

\* When ~BatchExporter has returned no finished span is left without a POST.
THEOREM NothingLeftAtExit == Spec => []FlushedAtExit
<1>1. Inv => FlushedAtExit
  <2> SUFFICES ASSUME Inv, dpc = "done" PROVE m_pending = <<>> /\ batch = <<>>
    BY DEF FlushedAtExit
  <2>1. m_pending = <<>> /\ fpc = "exited" BY DEF Inv, ExitOrder
  <2>2. QED BY <2>1 DEF Inv, TypeOK
<1>2. QED BY SpecInv, <1>1, PTL
=============================================================================
