--------------------------- MODULE SequenceLemmas ---------------------------
(***************************************************************************)
(* Facts about sequences that the other proofs use: the shape of a stream  *)
(* after an element is appended or taken (EopClient, ClientPrograms), and  *)
(* the elements of a queue without duplicates (WorkQueueThreads,           *)
(* ServerLifecycle, OtelScope).                                            *)
(***************************************************************************)
EXTENDS Sequences, Naturals, TLAPS

\* A stream, and the same with an element appended.
LEMMA StreamAppend ==
  ASSUME NEW S, NEW q \in Seq(S), NEW x \in S
  PROVE  /\ Len(q) \in Nat /\ DOMAIN q = 1..Len(q) /\ (Len(q) = 0 <=> q = <<>>)
         /\ \A i \in DOMAIN q : q[i] \in S
         /\ Append(q, x) \in Seq(S) /\ Append(q, x) # <<>> /\ Len(Append(q, x)) = Len(q) + 1
         /\ Append(q, x)[Len(q) + 1] = x
         /\ \A i \in DOMAIN Append(q, x) :
              \/ i = Len(q) + 1 /\ Append(q, x)[i] = x
              \/ i \in DOMAIN q /\ Append(q, x)[i] = q[i]
OBVIOUS

\* A stream that is not empty, and what is left when its first element is taken.
LEMMA StreamRest ==
  ASSUME NEW S, NEW q \in Seq(S), q # <<>>
  PROVE  /\ Len(q) \in Nat /\ Len(q) > 0 /\ DOMAIN q = 1..Len(q) /\ 1 \in DOMAIN q
         /\ Head(q) = q[1] /\ Head(q) \in S
         /\ Tail(q) \in Seq(S) /\ Len(Tail(q)) = Len(q) - 1
         /\ \A i \in DOMAIN Tail(q) : i + 1 \in DOMAIN q /\ Tail(q)[i] = q[i + 1]
         /\ Tail(q) # <<>> => Len(q) - 1 \in DOMAIN Tail(q)
         /\ Tail(q) = <<>> <=> Len(q) = 1
<1>1. /\ Len(q) \in Nat /\ Len(q) > 0 /\ DOMAIN q = 1..Len(q) /\ 1 \in DOMAIN q
      /\ Head(q) = q[1] /\ Head(q) \in S
      /\ Tail(q) \in Seq(S) /\ Len(Tail(q)) = Len(q) - 1
      /\ DOMAIN Tail(q) = 1..(Len(q) - 1)
      /\ \A i \in 1..(Len(q) - 1) : Tail(q)[i] = q[i + 1]
  OBVIOUS
<1>2. ASSUME NEW t \in Seq(S) PROVE t = <<>> <=> Len(t) = 0 OBVIOUS
<1>3. Tail(q) = <<>> <=> Len(Tail(q)) = 0 BY <1>1, <1>2
<1>4. QED BY <1>1, <1>3

Injective(q) == \A i, j \in DOMAIN q : q[i] = q[j] => i = j
Elements(q) == {q[i] : i \in DOMAIN q}

\* Appending a new element keeps a sequence free of duplicates.
LEMMA AppendElements ==
  ASSUME NEW S, NEW q \in Seq(S), NEW x \in S
  PROVE  /\ Elements(Append(q, x)) = Elements(q) \cup {x}
         /\ Injective(q) /\ x \notin Elements(q) => Injective(Append(q, x))
<1> DEFINE r == Append(q, x)
<1>1. /\ DOMAIN q = 1..Len(q) /\ Len(q) \in Nat
      /\ DOMAIN r = 1..(Len(q) + 1)
      /\ \A i \in 1..Len(q) : r[i] = q[i]
      /\ r[Len(q) + 1] = x
  OBVIOUS
<1> HIDE DEF r
<1>2. Elements(r) = Elements(q) \cup {x}
  <2>1. ASSUME NEW y \in Elements(r) PROVE y \in Elements(q) \cup {x}
    BY <1>1 DEF Elements
  <2>2. ASSUME NEW y \in Elements(q) PROVE y \in Elements(r)
    <3>1. PICK i \in 1..Len(q) : y = q[i] BY <1>1 DEF Elements
    <3>2. i \in DOMAIN r /\ y = r[i] BY <3>1, <1>1
    <3>3. QED BY <3>2 DEF Elements
  <2>3. x \in Elements(r)
    <3>1. Len(q) + 1 \in DOMAIN r /\ x = r[Len(q) + 1] BY <1>1
    <3>2. QED BY <3>1 DEF Elements
  <2>4. QED BY <2>1, <2>2, <2>3
<1>3. ASSUME Injective(q), x \notin Elements(q) PROVE Injective(r)
  <2> SUFFICES ASSUME NEW i \in DOMAIN r, NEW j \in DOMAIN r, r[i] = r[j]
               PROVE  i = j
    BY DEF Injective
  <2>1. \A k \in 1..Len(q) : q[k] # x
    BY <1>1, <1>3 DEF Elements
  <2>2. CASE i \in 1..Len(q) /\ j \in 1..Len(q)
    BY <2>2, <1>1, <1>3 DEF Injective
  <2>3. CASE i = Len(q) + 1 /\ j \in 1..Len(q) BY <2>3, <2>1, <1>1
  <2>4. CASE j = Len(q) + 1 /\ i \in 1..Len(q) BY <2>4, <2>1, <1>1
  <2>5. QED BY <2>2, <2>3, <2>4, <1>1
<1>4. QED BY <1>2, <1>3 DEF r

\* Of a sequence without duplicates the head is not in the tail.
LEMMA TailElements ==
  ASSUME NEW S, NEW q \in Seq(S), q # <<>>, Injective(q)
  PROVE  /\ Elements(Tail(q)) = Elements(q) \ {Head(q)}
         /\ Injective(Tail(q))
         /\ Head(q) \in Elements(q)
<1> DEFINE r == Tail(q)
<1>1. /\ DOMAIN q = 1..Len(q) /\ Len(q) \in Nat /\ Len(q) > 0
      /\ DOMAIN r = 1..(Len(q) - 1)
      /\ \A i \in 1..(Len(q) - 1) : r[i] = q[i + 1]
      /\ Head(q) = q[1]
  OBVIOUS
<1> HIDE DEF r
<1>2. Elements(r) = Elements(q) \ {Head(q)}
  <2>1. ASSUME NEW y \in Elements(r) PROVE y \in Elements(q) \ {Head(q)}
    <3>1. PICK i \in 1..(Len(q) - 1) : y = q[i + 1] BY <1>1 DEF Elements
    <3>2. i + 1 \in DOMAIN q /\ 1 \in DOMAIN q /\ i + 1 # 1 BY <3>1, <1>1
    <3>3. q[i + 1] # q[1] BY <3>2 DEF Injective
    <3>4. QED BY <3>1, <3>2, <3>3, <1>1 DEF Elements
  <2>2. ASSUME NEW y \in Elements(q), y # Head(q) PROVE y \in Elements(r)
    <3>1. PICK i \in 1..Len(q) : y = q[i] BY <1>1 DEF Elements
    <3>2. i # 1 BY <3>1, <2>2, <1>1
    <3>3. i - 1 \in DOMAIN r /\ r[i - 1] = y BY <3>1, <3>2, <1>1
    <3>4. QED BY <3>3 DEF Elements
  <2>3. QED BY <2>1, <2>2
<1>3. Injective(r)
  <2> SUFFICES ASSUME NEW i \in DOMAIN r, NEW j \in DOMAIN r, r[i] = r[j]
               PROVE  i = j
    BY DEF Injective
  <2>1. i + 1 \in DOMAIN q /\ j + 1 \in DOMAIN q /\ q[i + 1] = q[j + 1] BY <1>1
  <2>2. i + 1 = j + 1 BY <2>1 DEF Injective
  <2>3. QED BY <2>2, <1>1
<1>4. Head(q) \in Elements(q) BY <1>1 DEF Elements
<1>5. QED BY <1>2, <1>3, <1>4 DEF r
=============================================================================
