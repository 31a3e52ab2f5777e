--------------------------- MODULE SemTableProofs ---------------------------
(***************************************************************************)
(* Proofs about the table of semaphores (semaphores/sem.c) on the linked   *)
(* queues of lib/queue.c, for any processes, names and faults.             *)
(***************************************************************************)
EXTENDS SemTable, FiniteSetTheorems, WellFoundedInduction, TLAPS

(* Linked lists.  s is the list of the nodes of queue q.                    *)
Value == Nat \cup Client
Cells(m) == m \in [DOMAIN m -> [value : Value, next : Node \cup {NULL}]] /\ DOMAIN m \subseteq Node
QueueType == [first : Node \cup {NULL}, last : Node \cup {NULL}, size : Nat]
Rng(s) == {s[k] : k \in DOMAIN s}

Chain(m, q, s) ==
  /\ s \in Seq(DOMAIN m) /\ q \in QueueType /\ q.size = Len(s)
  /\ \A i, j \in 1..Len(s) : s[i] = s[j] => i = j
  /\ q.first = IF Len(s) = 0 THEN NULL ELSE s[1]
  /\ Len(s) # 0 => q.last = s[Len(s)]
  /\ \A k \in 1..Len(s) : m[s[k]].next = IF k = Len(s) THEN NULL ELSE s[k + 1]

(* The queues qs share memory m, and use it up.                             *)
NodesOf(m, q) == NodesFrom(m, q.first)
Laid(m, qs) ==
  /\ Cells(m)
  /\ \A j \in DOMAIN qs : Chain(m, qs[j], NodesOf(m, qs[j]))
  /\ \A i, j \in DOMAIN qs : i # j => Rng(NodesOf(m, qs[i])) \cap Rng(NodesOf(m, qs[j])) = {}
  /\ DOMAIN m = UNION {Rng(NodesOf(m, qs[j])) : j \in DOMAIN qs}

(* What the queues hold, and an operation that makes q of queue j.          *)
View(m, qs) == [j \in DOMAIN qs |-> Contents(m, qs[j])]
Put(qs, j, q) == [i \in DOMAIN qs |-> IF i = j THEN q ELSE qs[i]]
Kept(m, qs, j, m2, qs2) == \A i \in DOMAIN qs \ {j} : Contents(m2, qs2[i]) = Contents(m, qs[i])

-----------------------------------------------------------------------------
(* A set of numbers that is not empty has a least one. *)
LEMMA Least ==
  ASSUME NEW S \in SUBSET Nat, S # {}
  PROVE  \E k \in S : \A l \in S : k <= l
  <1>1. PICK i \in S : \A j \in S : ~(<<j, i>> \in OpToRel(<, Nat))
    BY NatLessThanWellFounded, WFMin
  <1>2. \A j \in S : ~(j < i)
    BY <1>1 DEF OpToRel
  <1> QED BY <1>2

LEMMA MinIs ==
  ASSUME NEW S \in SUBSET Nat, NEW k \in S, \A l \in S : k <= l
  PROVE  Min(S) = k
  <1>1. \A x \in S : (\A y \in S : x <= y) => x = k
    OBVIOUS
  <1> QED BY <1>1 DEF Min

LEMMA MinOf ==
  ASSUME NEW S \in SUBSET Nat, S # {}
  PROVE  Min(S) \in S /\ \A l \in S : Min(S) <= l
  <1>1. PICK k \in S : \A l \in S : k <= l
    BY Least
  <1>2. Min(S) = k
    BY <1>1, MinIs
  <1> QED BY <1>1, <1>2

(* The links of a list, for any number of steps.                            *)
LinkStep(m, n, f, k) ==
  IF k = 0 THEN n ELSE IF f[k - 1] \in DOMAIN m THEN m[f[k - 1]].next ELSE NULL

LEMMA LinksExist ==
  ASSUME NEW m, NEW n
  PROVE  \A e \in Nat : \E f : f = [k \in 0..e |-> LinkStep(m, n, f, k)]
  <1> DEFINE Good(e) == \E f : f = [k \in 0..e |-> LinkStep(m, n, f, k)]
             Bad == {e \in Nat : ~Good(e)}
  <1>1. SUFFICES ASSUME Bad # {} PROVE FALSE
    OBVIOUS
  <1>2. PICK e \in Bad : \A l \in Bad : e <= l
    BY <1>1, Least
  <1>3. e # 0
    <2> DEFINE f == [k \in 0..0 |-> n]
    <2>1. f = [k \in 0..0 |-> LinkStep(m, n, f, k)]
      BY DEF LinkStep
    <2> QED BY <2>1, <1>2
  <1>4. PICK f : f = [k \in 0..(e - 1) |-> LinkStep(m, n, f, k)]
    <2>1. e - 1 \in Nat /\ e - 1 \notin Bad
      BY <1>2, <1>3
    <2> QED BY <2>1
  <1> DEFINE g == [k \in 0..e |-> IF k < e THEN f[k] ELSE LinkStep(m, n, f, k)]
  <1>5. \A k \in 0..e : g[k] = LinkStep(m, n, g, k)
    <2> TAKE k \in 0..e
    <2>1. CASE k = e
      <3>1. g[k] = LinkStep(m, n, f, k) /\ g[k - 1] = f[k - 1] /\ k # 0
        BY <2>1, <1>2, <1>3
      <3> QED BY <3>1 DEF LinkStep
    <2>2. CASE k < e
      <3>1. k \in 0..(e - 1) /\ g[k] = f[k]
        BY <2>2, <1>2
      <3>2. k # 0 => g[k - 1] = f[k - 1]
        BY <2>2, <1>2
      <3>3. f[k] = LinkStep(m, n, f, k)
        BY <1>4, <3>1
      <3> QED BY <3>1, <3>2, <3>3 DEF LinkStep
    <2> QED BY <2>1, <2>2, <1>2
  <1>6. g = [k \in 0..e |-> LinkStep(m, n, g, k)]
    BY <1>5
  <1> QED BY <1>6, <1>2

LEMMA LinksFacts ==
  ASSUME NEW m, NEW n, Cardinality(DOMAIN m) \in Nat
  PROVE  /\ DOMAIN Links(m, n) = 0..Cardinality(DOMAIN m)
         /\ Links(m, n)[0] = n
         /\ \A k \in 1..Cardinality(DOMAIN m) :
              Links(m, n)[k] = IF Links(m, n)[k - 1] \in DOMAIN m
                               THEN m[Links(m, n)[k - 1]].next ELSE NULL
  <1>1. \E f : f = [k \in 0..Cardinality(DOMAIN m) |-> LinkStep(m, n, f, k)]
    BY LinksExist
  <1>2. \E f : f = [k \in 0..Cardinality(DOMAIN m) |->
                      IF k = 0 THEN n
                      ELSE IF f[k - 1] \in DOMAIN m THEN m[f[k - 1]].next ELSE NULL]
    BY <1>1 DEF LinkStep
  <1>3. Links(m, n) = [k \in 0..Cardinality(DOMAIN m) |->
                      IF k = 0 THEN n
                      ELSE IF Links(m, n)[k - 1] \in DOMAIN m
                           THEN m[Links(m, n)[k - 1]].next ELSE NULL]
    BY <1>2, Zenon DEF Links
  <1> QED BY <1>3

LEMMA CellsFinite ==
  ASSUME NEW m, Cells(m)
  PROVE  IsFiniteSet(DOMAIN m) /\ Cardinality(DOMAIN m) \in Nat
  BY NodeAssumption, FS_Subset, FS_CardinalityType DEF Cells

LEMMA ChainShort ==
  ASSUME NEW m, Cells(m), NEW q, NEW s, Chain(m, q, s)
  PROVE  Len(s) \in Nat /\ Len(s) <= Cardinality(DOMAIN m)
  <1>1. Len(s) \in Nat /\ s \in [1..Len(s) -> DOMAIN m]
    BY DEF Chain
  <1>2. s \in Injection(1..Len(s), DOMAIN m)
    BY <1>1 DEF Chain, Injection, IsInjective
  <1>3. Cardinality(1..Len(s)) <= Cardinality(DOMAIN m)
    BY <1>2, CellsFinite, FS_Injection
  <1>4. Cardinality(1..Len(s)) = Len(s)
    BY <1>1, FS_Interval
  <1> QED BY <1>1, <1>3, <1>4

(* Whoever follows the links of a queue passes its nodes in order.          *)
LEMMA ChainLinks ==
  ASSUME NEW m, Cells(m), NEW q, NEW s, Chain(m, q, s)
  PROVE  \A k \in 0..Len(s) : Links(m, q.first)[k] = IF k = Len(s) THEN NULL ELSE s[k + 1]
  <1> DEFINE f == Links(m, q.first)
             Bad == {k \in 0..Len(s) : f[k] # IF k = Len(s) THEN NULL ELSE s[k + 1]}
  <1>1. /\ Len(s) \in Nat /\ Len(s) <= Cardinality(DOMAIN m) /\ Cardinality(DOMAIN m) \in Nat
        /\ f[0] = q.first
        /\ \A k \in 1..Cardinality(DOMAIN m) :
             f[k] = IF f[k - 1] \in DOMAIN m THEN m[f[k - 1]].next ELSE NULL
    BY CellsFinite, ChainShort, LinksFacts
  <1>2. SUFFICES ASSUME Bad # {} PROVE FALSE
    OBVIOUS
  <1>3. PICK k \in Bad : \A l \in Bad : k <= l
    <2>1. Bad \in SUBSET Nat
      BY <1>1
    <2> QED BY <2>1, <1>2, Least
  <1>4. k # 0
    BY <1>1, <1>3 DEF Chain
  <1>5. k - 1 \in 0..Len(s) /\ k - 1 \notin Bad /\ k - 1 # Len(s) /\ k \in 1..Len(s)
    BY <1>1, <1>3, <1>4
  <1>6. f[k - 1] = s[k]
    BY <1>1, <1>5
  <1>7. s[k] \in DOMAIN m /\ m[s[k]].next = IF k = Len(s) THEN NULL ELSE s[k + 1]
    BY <1>5 DEF Chain
  <1>8. f[k] = m[s[k]].next
    BY <1>1, <1>5, <1>6, <1>7
  <1> QED BY <1>3, <1>7, <1>8

LEMMA ChainNodes ==
  ASSUME NEW m, Cells(m), NEW q, NEW s, Chain(m, q, s)
  PROVE  NodesOf(m, q) = s
  <1> DEFINE f == Links(m, q.first)
             ends == {k \in DOMAIN f : f[k] \notin DOMAIN m}
  <1>1. /\ Len(s) \in Nat /\ Len(s) <= Cardinality(DOMAIN m) /\ Cardinality(DOMAIN m) \in Nat
        /\ DOMAIN f = 0..Cardinality(DOMAIN m)
    BY CellsFinite, ChainShort, LinksFacts
  <1>2. \A k \in 0..Len(s) : f[k] = IF k = Len(s) THEN NULL ELSE s[k + 1]
    BY ChainLinks
  <1>3. NULL \notin DOMAIN m
    BY NodeAssumption DEF Cells, NULL
  <1>4. Len(s) \in ends
    BY <1>1, <1>2, <1>3
  <1>5. \A k \in ends : Len(s) <= k
    <2> SUFFICES ASSUME NEW k \in ends, k < Len(s) PROVE FALSE
      BY <1>1
    <2>1. f[k] = s[k + 1] /\ k + 1 \in 1..Len(s)
      BY <1>1, <1>2
    <2> QED BY <2>1 DEF Chain
  <1>6. Min(ends) = Len(s)
    <2>1. ends \in SUBSET Nat
      BY <1>1
    <2> QED BY <2>1, <1>4, <1>5, MinIs
  <1>7. NodesFrom(m, q.first) = [k \in 1..Len(s) |-> f[k - 1]]
    BY <1>4, <1>6, Zenon DEF NodesFrom
  <1>8. \A k \in 1..Len(s) : f[k - 1] = s[k]
    BY <1>1, <1>2
  <1>9. s = [k \in 1..Len(s) |-> s[k]]
    BY DEF Chain
  <1> QED BY <1>7, <1>8, <1>9 DEF NodesOf

(* A list is not touched by what happens to nodes outside it.               *)
LEMMA ChainKept ==
  ASSUME NEW m, NEW m2, Cells(m2), NEW q, NEW s, Chain(m, q, s),
         \A a \in Rng(s) : a \in DOMAIN m2 /\ m2[a] = m[a]
  PROVE  Chain(m2, q, s) /\ NodesOf(m2, q) = s
  <1>1. s \in Seq(DOMAIN m2) /\ \A k \in 1..Len(s) : m2[s[k]] = m[s[k]]
    BY DEF Chain, Rng
  <1>2. Chain(m2, q, s)
    BY <1>1 DEF Chain
  <1> QED BY <1>2, ChainNodes

LEMMA ContentsOf ==
  ASSUME NEW m, NEW q, NEW s, s = NodesOf(m, q)
  PROVE  Contents(m, q) = [k \in DOMAIN s |-> m[s[k]].value]
  BY DEF Contents, NodesOf

LEMMA ChainFacts ==
  ASSUME NEW m, NEW q, NEW s, Chain(m, q, s)
  PROVE  /\ Len(s) \in Nat /\ DOMAIN s = 1..Len(s) /\ s \in [1..Len(s) -> DOMAIN m]
         /\ Rng(s) \subseteq DOMAIN m /\ q.size = Len(s)
         /\ \A k \in 1..Len(s) : s[k] \in Rng(s)
  BY DEF Chain, Rng

LEMMA LaidFacts ==
  ASSUME NEW m, NEW qs, Laid(m, qs), NEW j \in DOMAIN qs
  PROVE  Cells(m) /\ Chain(m, qs[j], NodesOf(m, qs[j])) /\ Rng(NodesOf(m, qs[j])) \subseteq DOMAIN m
  BY ChainFacts DEF Laid

LEMMA ChainNext ==
  ASSUME NEW m, NEW q, NEW s, Chain(m, q, s)
  PROVE  /\ \A k \in 1..Len(s) : k < Len(s) =>
              /\ k + 1 \in 1..Len(s) /\ m[s[k]].next = s[k + 1] /\ s[k] # s[Len(s)]
         /\ Len(s) # 0 => /\ Len(s) \in 1..Len(s) /\ m[s[Len(s)]].next = NULL
                         /\ q.first = s[1] /\ q.last = s[Len(s)]
         /\ Len(s) = 0 => q.first = NULL
  <1>1. Len(s) \in Nat
    BY ChainFacts
  <1>2. \A i, j \in 1..Len(s) : s[i] = s[j] => i = j
    BY Zenon DEF Chain
  <1>3. \A k \in 1..Len(s) : m[s[k]].next = IF k = Len(s) THEN NULL ELSE s[k + 1]
    BY Zenon DEF Chain
  <1>4. /\ q.first = IF Len(s) = 0 THEN NULL ELSE s[1]
        /\ Len(s) # 0 => q.last = s[Len(s)]
    BY Zenon DEF Chain
  <1> QED BY <1>1, <1>2, <1>3, <1>4

(* An operation on queue j, whose nodes are s2 after it, leaves the others  *)
(* as they are.                                                             *)
OnlyQueue(m, qs, j, m2, qs2, s2) ==
  LET rest == DOMAIN m \ Rng(NodesOf(m, qs[j]))
  IN /\ Cells(m2) /\ Chain(m2, qs2[j], s2)
     /\ DOMAIN qs2 = DOMAIN qs /\ \A i \in DOMAIN qs \ {j} : qs2[i] = qs[i]
     /\ \A a \in rest : m2[a] = m[a]
     /\ DOMAIN m2 = rest \cup Rng(s2) /\ Rng(s2) \cap rest = {}

LEMMA OneQueue ==
  ASSUME NEW m, NEW qs, Laid(m, qs), NEW j \in DOMAIN qs,
         NEW m2, NEW qs2, NEW s2, OnlyQueue(m, qs, j, m2, qs2, s2)
  PROVE  Laid(m2, qs2) /\ NodesOf(m2, qs2[j]) = s2 /\ Kept(m, qs, j, m2, qs2)
  <1>0. PICK rest : rest = DOMAIN m \ Rng(NodesOf(m, qs[j]))
    OBVIOUS
  <1>00. /\ Cells(m2) /\ Chain(m2, qs2[j], s2)
         /\ DOMAIN qs2 = DOMAIN qs /\ \A i \in DOMAIN qs \ {j} : qs2[i] = qs[i]
         /\ \A a \in rest : m2[a] = m[a]
         /\ DOMAIN m2 = rest \cup Rng(s2) /\ Rng(s2) \cap rest = {}
    BY <1>0 DEF OnlyQueue
  <1>1. NodesOf(m2, qs2[j]) = s2
    BY <1>00, ChainNodes
  <1>2. ASSUME NEW i \in DOMAIN qs \ {j}
        PROVE  /\ Chain(m2, qs2[i], NodesOf(m2, qs2[i])) /\ NodesOf(m2, qs2[i]) = NodesOf(m, qs[i])
               /\ Rng(NodesOf(m, qs[i])) \subseteq rest
               /\ Contents(m2, qs2[i]) = Contents(m, qs[i])
    <2> DEFINE s == NodesOf(m, qs[i])
    <2>1. Chain(m, qs[i], s) /\ Rng(s) \subseteq rest
      BY <1>0, LaidFacts DEF Laid
    <2>2. \A a \in Rng(s) : a \in DOMAIN m2 /\ m2[a] = m[a]
      BY <1>00, <2>1
    <2>3. Chain(m2, qs[i], s) /\ NodesOf(m2, qs[i]) = s
      BY <1>00, <2>1, <2>2, ChainKept
    <2>4. Contents(m, qs[i]) = [k \in DOMAIN s |-> m[s[k]].value]
          /\ Contents(m2, qs[i]) = [k \in DOMAIN s |-> m2[s[k]].value]
      BY <1>00, <2>3, ContentsOf
    <2>5. \A k \in DOMAIN s : m2[s[k]] = m[s[k]]
      BY <2>2 DEF Rng
    <2> QED BY <1>00, <2>1, <2>3, <2>4, <2>5
  <1>3. \A i \in DOMAIN qs2 : Chain(m2, qs2[i], NodesOf(m2, qs2[i]))
    BY <1>00, <1>1, <1>2
  <1>4. \A i, k \in DOMAIN qs2 : i # k =>
          Rng(NodesOf(m2, qs2[i])) \cap Rng(NodesOf(m2, qs2[k])) = {}
    <2> TAKE i, k \in DOMAIN qs2
    <2> HAVE i # k
    <2>1. CASE i = j
      BY <1>00, <1>1, <1>2, <2>1
    <2>2. CASE k = j
      BY <1>00, <1>1, <1>2, <2>2
    <2>3. CASE i # j /\ k # j
      BY <1>00, <1>2, <2>3 DEF Laid
    <2> QED BY <2>1, <2>2, <2>3
  <1>5. rest = UNION {Rng(NodesOf(m, qs[i])) : i \in DOMAIN qs \ {j}}
    BY <1>0 DEF Laid
  <1>6. DOMAIN m2 = UNION {Rng(NodesOf(m2, qs2[i])) : i \in DOMAIN qs2}
    BY <1>00, <1>1, <1>2, <1>5
  <1>7. Kept(m, qs, j, m2, qs2)
    BY <1>2 DEF Kept
  <1> QED BY <1>00, <1>1, <1>3, <1>4, <1>6, <1>7 DEF Laid

LEMMA AppendFacts ==
  ASSUME NEW S, NEW s \in Seq(S), NEW x
  PROVE  /\ Append(s, x) \in Seq(S \cup {x}) /\ Len(Append(s, x)) = Len(s) + 1
         /\ Append(s, x)[Len(s) + 1] = x
         /\ \A k \in 1..Len(s) : Append(s, x)[k] = s[k]
  OBVIOUS

(* enqueue.                                                                 *)
LEMMA EnqueueQueue ==
  ASSUME NEW m, NEW qs, Laid(m, qs), NEW j \in DOMAIN qs, Room(m), NEW v \in Value,
         NEW r, r = Enqueue(m, qs[j], v), NEW qs2, qs2 = Put(qs, j, r.q)
  PROVE  /\ Laid(r.mem, qs2) /\ Kept(m, qs, j, r.mem, qs2)
         /\ Contents(r.mem, r.q) = Append(Contents(m, qs[j]), v)
  <1>0. PICK q, s, n : q = qs[j] /\ s = NodesOf(m, q) /\ n = Allocate(m)
    OBVIOUS
  <1>00. PICK m2, q2, s2, rest : m2 = r.mem /\ q2 = r.q /\ s2 = Append(s, n) /\ rest = DOMAIN m \ Rng(s)
    OBVIOUS
  <1>1. /\ Cells(m) /\ Chain(m, q, s) /\ Rng(s) \subseteq DOMAIN m
        /\ Len(s) \in Nat /\ DOMAIN s = 1..Len(s) /\ s \in Seq(DOMAIN m)
        /\ q.size = Len(s) /\ q \in QueueType
    BY <1>0, LaidFacts, ChainFacts DEF Chain
  <1>2. n \in Node /\ n \notin DOMAIN m
    <2>1. Node \ DOMAIN m \in SUBSET Nat /\ Node \ DOMAIN m # {}
      BY NodeAssumption DEF Room
    <2> QED BY <1>0, <2>1, MinOf DEF Allocate
  <1>3. /\ DOMAIN m2 = DOMAIN m \cup {n} /\ m2 \in [DOMAIN m \cup {n} -> [value : Value, next : Node \cup {NULL}]]
        /\ m2[n] = [value |-> v, next |-> NULL]
        /\ \A a \in DOMAIN m : m2[a].value = m[a].value
        /\ \A a \in DOMAIN m : Len(s) = 0 \/ a # s[Len(s)] => m2[a] = m[a]
        /\ Len(s) # 0 => m2[s[Len(s)]].next = n
        /\ q2 \in QueueType /\ q2.size = Len(s) + 1 /\ q2.last = n
        /\ q2.first = IF Len(s) = 0 THEN n ELSE s[1]
    <2>1. CASE Len(s) = 0
      <3>1. q.size = 0
        BY <1>1, <2>1
      <3>2. r = [mem |-> With(m, n, v), q |-> [first |-> n, last |-> n, size |-> 1]]
        BY <1>0, <3>1 DEF Enqueue
      <3>3. m \in [DOMAIN m -> [value : Value, next : Node \cup {NULL}]]
        BY <1>1 DEF Cells
      <3> QED BY <1>00, <1>1, <1>2, <2>1, <3>2, <3>3 DEF With, QueueType
    <2>2. CASE Len(s) # 0
      <3>1. q.size # 0 /\ q.last = s[Len(s)] /\ q.first = s[1] /\ s[Len(s)] \in DOMAIN m
        <4>1. q.first = (IF Len(s) = 0 THEN NULL ELSE s[1]) /\ (Len(s) # 0 => q.last = s[Len(s)])
          BY <1>1, Zenon DEF Chain
        <4>2. Len(s) \in 1..Len(s) /\ s \in [1..Len(s) -> DOMAIN m]
          BY <1>1, <2>2
        <4> QED BY <1>1, <2>2, <4>1, <4>2
      <3>2. PICK t : t = [m EXCEPT ![s[Len(s)]].next = n]
        OBVIOUS
      <3>3. r = [mem |-> With(t, n, v), q |-> [q EXCEPT !.last = n, !.size = @ + 1]]
        BY <1>0, <3>1, <3>2 DEF Enqueue
      <3>4. m \in [DOMAIN m -> [value : Value, next : Node \cup {NULL}]]
        BY <1>1 DEF Cells
      <3>5. /\ t \in [DOMAIN m -> [value : Value, next : Node \cup {NULL}]]
            /\ \A a \in DOMAIN m : t[a].value = m[a].value /\ (a # s[Len(s)] => t[a] = m[a])
            /\ t[s[Len(s)]].next = n
        BY <1>2, <3>1, <3>2, <3>4
      <3>6. m2 = With(t, n, v) /\ DOMAIN t = DOMAIN m
        BY <1>00, <3>3, <3>5
      <3>7. m2 = [a \in DOMAIN m \cup {n} |-> IF a = n THEN [value |-> v, next |-> NULL] ELSE t[a]]
        BY <3>6 DEF With
      <3>8. q2 = [q EXCEPT !.last = n, !.size = @ + 1]
        BY <1>00, <3>3
      <3>9. q2 \in QueueType /\ q2.size = Len(s) + 1 /\ q2.last = n /\ q2.first = s[1]
        <4>1. q = [first |-> q.first, last |-> q.last, size |-> q.size] /\ q.first \in Node \cup {NULL}
          BY <1>1 DEF QueueType
        <4>2. q2 = [first |-> s[1], last |-> n, size |-> Len(s) + 1]
          BY <1>1, <3>1, <3>8, <4>1
        <4> QED BY <1>1, <1>2, <3>1, <4>1, <4>2 DEF QueueType
      <3> QED BY <1>1, <1>2, <2>2, <3>1, <3>5, <3>7, <3>9
    <2> QED BY <2>1, <2>2
  <1>4. /\ s2 \in Seq(DOMAIN m2) /\ Len(s2) = Len(s) + 1 /\ s2[Len(s) + 1] = n
        /\ \A k \in 1..Len(s) : s2[k] = s[k] /\ s[k] \in DOMAIN m
    BY <1>00, <1>1, <1>3, AppendFacts
  <1>5. Cells(m2)
    BY <1>1, <1>2, <1>3 DEF Cells
  <1>6. Chain(m2, q2, s2)
    <2>1. \A i, k \in 1..Len(s2) : s2[i] = s2[k] => i = k
      <3>1. \A i, k \in 1..Len(s) : s[i] = s[k] => i = k
        BY <1>1, Zenon DEF Chain
      <3>2. \A k \in 1..Len(s) : s2[k] = s[k] /\ s2[k] # n
        BY <1>2, <1>4
      <3>3. \A k \in 1..Len(s2) : k = Len(s) + 1 \/ k \in 1..Len(s)
        BY <1>1, <1>4
      <3> QED BY <1>4, <3>1, <3>2, <3>3
    <2>2. q2.first = s2[1]
      BY <1>1, <1>3, <1>4
    <2>3. \A k \in 1..Len(s2) : m2[s2[k]].next = IF k = Len(s2) THEN NULL ELSE s2[k + 1]
      <3> TAKE k \in 1..Len(s2)
      <3>0. k \in Nat /\ k >= 1 /\ k <= Len(s) + 1 /\ Len(s) \in Nat /\ Len(s2) = Len(s) + 1
        <4>1. Len(s2) = Len(s) + 1 /\ Len(s) \in Nat
          BY <1>1, <1>4
        <4> QED BY <4>1
      <3>1. CASE k = Len(s) + 1
        BY <1>1, <1>3, <1>4, <3>1
      <3>2. CASE k = Len(s) /\ k \in 1..Len(s)
        <4>1. s2[k] = s[Len(s)] /\ s2[k + 1] = n /\ k # Len(s2) /\ Len(s) # 0
          BY <1>4, <3>0, <3>2
        <4> QED BY <1>3, <4>1
      <3>3. CASE k < Len(s) /\ k \in 1..Len(s)
        <4>1. s[k] # s[Len(s)] /\ m[s[k]].next = s[k + 1] /\ k + 1 \in 1..Len(s)
          BY <1>1, <3>3, ChainNext
        <4>2. s2[k] = s[k] /\ s2[k + 1] = s[k + 1] /\ k # Len(s2) /\ s[k] \in DOMAIN m
          BY <1>4, <3>0, <3>3, <4>1
        <4> QED BY <1>3, <4>1, <4>2
      <3>4. k = Len(s) + 1 \/ (k = Len(s) /\ k \in 1..Len(s)) \/ (k < Len(s) /\ k \in 1..Len(s))
        BY <3>0
      <3> QED BY <3>1, <3>2, <3>3, <3>4
    <2>4. Len(s2) # 0 /\ q2.last = s2[Len(s2)] /\ q2.size = Len(s2)
      BY <1>1, <1>3, <1>4
    <2> QED BY <1>1, <1>3, <1>4, <2>1, <2>2, <2>3, <2>4 DEF Chain
  <1>7. Rng(s2) = Rng(s) \cup {n}
    <2>1. DOMAIN s2 = 1..(Len(s) + 1) /\ Len(s) + 1 \in DOMAIN s2
      BY <1>1, <1>4
    <2>2. \A k \in DOMAIN s2 : k \in DOMAIN s \/ k = Len(s) + 1
      BY <1>1, <2>1
    <2>3. \A k \in DOMAIN s : k \in DOMAIN s2 /\ s2[k] = s[k]
      BY <1>1, <1>4, <2>1
    <2> QED BY <1>4, <2>1, <2>2, <2>3 DEF Rng
  <1>8. Laid(m2, qs2) /\ NodesOf(m2, q2) = s2 /\ Kept(m, qs, j, m2, qs2)
    <2>1. \A a \in rest : m2[a] = m[a]
      BY <1>00, <1>1, <1>3, ChainFacts
    <2>2. DOMAIN m2 = rest \cup Rng(s2) /\ Rng(s2) \cap rest = {}
      BY <1>00, <1>1, <1>2, <1>3, <1>7
    <2>3. q2 = qs2[j] /\ Chain(m2, qs2[j], s2) /\ rest = DOMAIN m \ Rng(NodesOf(m, qs[j]))
      BY <1>0, <1>00, <1>6 DEF Put
    <2>4. DOMAIN qs2 = DOMAIN qs /\ \A i \in DOMAIN qs \ {j} : qs2[i] = qs[i]
      BY DEF Put
    <2>5. OnlyQueue(m, qs, j, m2, qs2, s2)
      BY <1>5, <2>1, <2>2, <2>3, <2>4 DEF OnlyQueue
    <2> QED BY <2>3, <2>5, OneQueue
  <1>9. Contents(m2, q2) = Append(Contents(m, q), v)
    <2>1. Contents(m, q) = [k \in 1..Len(s) |-> m[s[k]].value]
      BY <1>0, <1>1, ContentsOf
    <2>2. Contents(m2, q2) = [k \in 1..(Len(s) + 1) |-> m2[s2[k]].value]
      BY <1>4, <1>8, ContentsOf
    <2>3. \A k \in 1..Len(s) : m2[s2[k]].value = m[s[k]].value
      BY <1>3, <1>4
    <2>4. m2[s2[Len(s) + 1]].value = v
      BY <1>3, <1>4
    <2>5. Append([k \in 1..Len(s) |-> m[s[k]].value], v)
            = [k \in 1..(Len(s) + 1) |-> IF k = Len(s) + 1 THEN v ELSE m[s[k]].value]
      BY <1>1
    <2> QED BY <1>1, <2>1, <2>2, <2>3, <2>4, <2>5
  <1> QED BY <1>0, <1>00, <1>8, <1>9

LEMMA IsSeq ==
  ASSUME NEW S, NEW L \in Nat, NEW s \in [1..L -> S]
  PROVE  s \in Seq(S) /\ Len(s) = L
  OBVIOUS

LEMMA PutView ==
  ASSUME NEW m, NEW qs, NEW j \in DOMAIN qs, NEW m2, NEW q2, NEW t, Contents(m2, q2) = t,
         Kept(m, qs, j, m2, Put(qs, j, q2))
  PROVE  View(m2, Put(qs, j, q2)) = Put(View(m, qs), j, t)
  BY DEF View, Put, Kept

LEMMA EnqueueLaid ==
  ASSUME NEW m, NEW qs, Laid(m, qs), NEW j \in DOMAIN qs, Room(m), NEW v \in Value,
         NEW r, r = Enqueue(m, qs[j], v)
  PROVE  /\ Laid(r.mem, Put(qs, j, r.q))
         /\ View(r.mem, Put(qs, j, r.q)) = Put(View(m, qs), j, Append(View(m, qs)[j], v))
  <1>1. PICK qs2 : qs2 = Put(qs, j, r.q)
    OBVIOUS
  <1>2. PICK t, q2 : t = Append(Contents(m, qs[j]), v) /\ q2 = r.q
    OBVIOUS
  <1>3. /\ Laid(r.mem, qs2) /\ Kept(m, qs, j, r.mem, qs2)
        /\ Contents(r.mem, r.q) = Append(Contents(m, qs[j]), v)
    BY <1>1, EnqueueQueue
  <1>4. View(m, qs)[j] = Contents(m, qs[j])
    BY DEF View
  <1>5. View(r.mem, Put(qs, j, q2)) = Put(View(m, qs), j, t)
    <2>1. Contents(r.mem, q2) = t /\ Kept(m, qs, j, r.mem, Put(qs, j, q2))
      BY <1>1, <1>2, <1>3
    <2> QED BY <2>1, PutView
  <1> QED BY <1>1, <1>2, <1>3, <1>4, <1>5

LEMMA ContentsFacts ==
  ASSUME NEW m, NEW qs, Laid(m, qs), NEW j \in DOMAIN qs, NEW s, s = NodesOf(m, qs[j])
  PROVE  /\ Chain(m, qs[j], s) /\ Len(s) \in Nat /\ s \in [1..Len(s) -> DOMAIN m] /\ DOMAIN s = 1..Len(s)
         /\ qs[j].size = Len(s)
         /\ Contents(m, qs[j]) = [k \in 1..Len(s) |-> m[s[k]].value]
         /\ Contents(m, qs[j]) \in Seq(Value) /\ Len(Contents(m, qs[j])) = Len(s)
  <1>1. Chain(m, qs[j], s) /\ Cells(m)
    BY LaidFacts
  <1>2. Len(s) \in Nat /\ s \in [1..Len(s) -> DOMAIN m] /\ DOMAIN s = 1..Len(s) /\ qs[j].size = Len(s)
    BY <1>1, ChainFacts
  <1>3. Contents(m, qs[j]) = [k \in 1..Len(s) |-> m[s[k]].value]
    BY <1>2, ContentsOf
  <1>4. \A a \in DOMAIN m : m[a].value \in Value
    BY <1>1 DEF Cells
  <1>5. Contents(m, qs[j]) \in [1..Len(s) -> Value]
    BY <1>2, <1>3, <1>4
  <1>6. Contents(m, qs[j]) \in Seq(Value) /\ Len(Contents(m, qs[j])) = Len(s)
    BY <1>2, <1>5, IsSeq
  <1> QED BY <1>1, <1>2, <1>3, <1>6

(* Node number k of a queue is unlinked and freed. *)
Cut(s, k) == [i \in 1..(Len(s) - 1) |-> IF i < k THEN s[i] ELSE s[i + 1]]
Unlinked(m, q, s, k, m2, q2) ==
  /\ Cells(m2) /\ DOMAIN m2 = DOMAIN m \ {s[k]}
  /\ \A a \in DOMAIN m2 : m2[a].value = m[a].value /\ (k = 1 \/ a # s[k - 1] => m2[a] = m[a])
  /\ k # 1 => m2[s[k - 1]].next = m[s[k]].next
  /\ q2 \in QueueType /\ q2.size = q.size - 1
  /\ q2.first = IF k = 1 THEN m[s[k]].next ELSE q.first
  /\ Len(s) # 1 => q2.last = IF k = Len(s) THEN s[k - 1] ELSE q.last

Apart(s) == \A i, j \in DOMAIN s : s[i] = s[j] => i = j
Shorter(L, s, k, t) ==
  /\ L # 0 /\ L - 1 \in Nat /\ Len(t) = L - 1 /\ DOMAIN t = 1..(L - 1)
  /\ \A i \in 1..(L - 1) :
       /\ i \in 1..L /\ i + 1 \in 1..L /\ i # L
       /\ i < k => t[i] = s[i]
       /\ ~(i < k) => t[i] = s[i + 1]

LEMMA InPlace ==
  ASSUME NEW L \in Nat, NEW i \in 1..(L - 1)
  PROVE  i \in 1..L /\ i + 1 \in 1..L /\ i # L /\ L # 0 /\ L - 1 \in Nat
  OBVIOUS

LEMMA RngFacts ==
  ASSUME NEW s
  PROVE  (\A k \in DOMAIN s : s[k] \in Rng(s)) /\ (\A x \in Rng(s) : \E k \in DOMAIN s : x = s[k])
  BY DEF Rng

LEMMA CutFacts ==
  ASSUME NEW L \in Nat, NEW S, NEW s \in [1..L -> S], NEW k \in 1..L
  PROVE  Shorter(L, s, k, Cut(s, k)) /\ Cut(s, k) \in Seq(S)
  <1>1. L = Len(s)
    BY IsSeq
  <1>2. L # 0 /\ L - 1 \in Nat
    OBVIOUS
  <1>3. \A i \in 1..(L - 1) : i \in 1..L /\ i + 1 \in 1..L /\ i # L
    BY <1>1, InPlace
  <1>4. PICK N : N = L - 1
    OBVIOUS
  <1>5. Cut(s, k) = [i \in 1..N |-> IF i < k THEN s[i] ELSE s[i + 1]]
    BY <1>1, <1>4 DEF Cut
  <1>6. Cut(s, k) \in [1..N -> S]
    BY <1>3, <1>4, <1>5
  <1>7. Cut(s, k) \in Seq(S) /\ Len(Cut(s, k)) = N
    BY <1>2, <1>4, <1>6, IsSeq
  <1> QED BY <1>2, <1>3, <1>4, <1>5, <1>7 DEF Shorter

(* What is left of a list without repetitions. *)
LEMMA CutRange ==
  ASSUME NEW L \in Nat, NEW S, NEW s \in [1..L -> S], NEW k \in 1..L,
         Apart(s)
  PROVE  Apart(Cut(s, k)) /\ Rng(Cut(s, k)) = Rng(s) \ {s[k]}
  <1>0. PICK t : t = Cut(s, k)
    OBVIOUS
  <1>1. /\ L # 0 /\ DOMAIN s = 1..L /\ DOMAIN t = 1..(L - 1) /\ k \in Nat
        /\ \A i \in 1..(L - 1) :
             /\ i \in 1..L /\ i + 1 \in 1..L /\ i # L
             /\ i < k => t[i] = s[i]
             /\ ~(i < k) => t[i] = s[i + 1]
    <2>1. Shorter(L, s, k, t)
      BY <1>0, CutFacts
    <2> QED BY <2>1 DEF Shorter
  <1>01. \A i, j \in 1..L : s[i] = s[j] => i = j
    BY <1>1 DEF Apart
  <1>2. ASSUME NEW i \in 1..(L - 1), NEW j \in 1..(L - 1), t[i] = t[j]
        PROVE  i = j
    <2>0. i \in Nat /\ j \in Nat
      BY <1>1
    <2>1. CASE i < k /\ j < k
      BY <1>1, <1>01, <1>2, <2>1
    <2>2. CASE i < k /\ ~(j < k)
      <3>1. i = j + 1
        BY <1>1, <1>01, <1>2, <2>2
      <3> QED BY <1>1, <2>0, <2>2, <3>1
    <2>3. CASE ~(i < k) /\ j < k
      <3>1. i + 1 = j
        BY <1>1, <1>01, <1>2, <2>3
      <3> QED BY <1>1, <2>0, <2>3, <3>1
    <2>4. CASE ~(i < k) /\ ~(j < k)
      <3>1. i + 1 = j + 1
        BY <1>1, <1>01, <1>2, <2>4
      <3> QED BY <2>0, <3>1
    <2> QED BY <2>1, <2>2, <2>3, <2>4
  <1>3. \A i \in 1..(L - 1) : t[i] \in Rng(s) /\ t[i] # s[k]
    <2> TAKE i \in 1..(L - 1)
    <2>0. i \in Nat
      BY <1>1
    <2>1. CASE i < k
      <3>1. t[i] = s[i] /\ i \in 1..L /\ i # k
        BY <1>1, <2>1
      <3> QED BY <1>1, <1>01, <3>1, RngFacts
    <2>2. CASE ~(i < k)
      <3>1. t[i] = s[i + 1] /\ i + 1 \in 1..L /\ i + 1 # k
        BY <1>1, <2>0, <2>2
      <3> QED BY <1>1, <1>01, <3>1, RngFacts
    <2> QED BY <2>1, <2>2
  <1>4. \A i \in 1..L : i # k => s[i] \in Rng(t)
    <2> TAKE i \in 1..L
    <2> HAVE i # k
    <2>1. CASE i < k
      <3>1. i \in 1..(L - 1)
        BY <1>1, <2>1
      <3>2. t[i] = s[i] /\ i \in DOMAIN t
        BY <1>1, <2>1, <3>1
      <3> QED BY <3>2, RngFacts
    <2>2. CASE i > k
      <3>1. i - 1 \in 1..(L - 1) /\ ~(i - 1 < k) /\ (i - 1) + 1 = i
        BY <1>1, <2>2
      <3>2. t[i - 1] = s[i] /\ i - 1 \in DOMAIN t
        BY <1>1, <3>1
      <3> QED BY <3>2, RngFacts
    <2> QED BY <1>1, <2>1, <2>2
  <1>5. Rng(t) = Rng(s) \ {s[k]}
    <2>1. \A x \in Rng(t) : x \in Rng(s) /\ x # s[k]
      BY <1>1, <1>3, RngFacts
    <2>2. \A x \in Rng(s) : x # s[k] => x \in Rng(t)
      BY <1>1, <1>4, RngFacts
    <2> QED BY <2>1, <2>2
  <1> QED BY <1>0, <1>1, <1>2, <1>5 DEF Apart

LEMMA UnlinkChain ==
  ASSUME NEW m, Cells(m), NEW q, NEW s, Chain(m, q, s), NEW k \in 1..Len(s),
         NEW m2, NEW q2, Unlinked(m, q, s, k, m2, q2)
  PROVE  Chain(m2, q2, Cut(s, k)) /\ Rng(Cut(s, k)) = Rng(s) \ {s[k]}
  <1>0. PICK L, t : L = Len(s) /\ t = Cut(s, k)
    OBVIOUS
  <1>1. /\ L \in Nat /\ DOMAIN s = 1..L /\ s \in [1..L -> DOMAIN m] /\ q.size = L /\ k \in 1..L
        /\ Rng(s) \subseteq DOMAIN m
    BY <1>0, ChainFacts
  <1>2. \A i, j \in 1..L : s[i] = s[j] => i = j
    BY <1>0, Zenon DEF Chain
  <1>3. /\ L # 0 /\ L - 1 \in Nat /\ Len(t) = L - 1 /\ DOMAIN t = 1..(L - 1)
        /\ \A i \in 1..(L - 1) :
             /\ i \in 1..L /\ i + 1 \in 1..L /\ i # L
             /\ i < k => t[i] = s[i]
             /\ ~(i < k) => t[i] = s[i + 1]
    <2>1. Shorter(L, s, k, t)
      BY <1>0, <1>1, CutFacts
    <2> QED BY <2>1 DEF Shorter
  <1>4. (\A i, j \in 1..(L - 1) : t[i] = t[j] => i = j) /\ Rng(t) = Rng(s) \ {s[k]}
    <2>1. Apart(s)
      BY <1>1, <1>2 DEF Apart
    <2>2. L \in Nat /\ s \in [1..L -> DOMAIN m] /\ k \in 1..L
      BY <1>1
    <2>3. Apart(Cut(s, k)) /\ Rng(Cut(s, k)) = Rng(s) \ {s[k]}
      BY <2>1, <2>2, CutRange, Zenon
    <2> QED BY <1>0, <1>3, <2>3 DEF Apart
  <1>5. /\ Cells(m2) /\ DOMAIN m2 = DOMAIN m \ {s[k]}
        /\ \A a \in DOMAIN m2 : k = 1 \/ a # s[k - 1] => m2[a] = m[a]
        /\ k # 1 => m2[s[k - 1]].next = m[s[k]].next
        /\ q2 \in QueueType /\ q2.size = L - 1
        /\ q2.first = IF k = 1 THEN m[s[k]].next ELSE q.first
        /\ L # 1 => q2.last = IF k = L THEN s[k - 1] ELSE q.last
    BY <1>0, <1>1 DEF Unlinked
  <1>6. /\ \A i \in 1..L : i < L => m[s[i]].next = s[i + 1]
        /\ m[s[L]].next = NULL /\ q.first = s[1] /\ q.last = s[L]
    <2>1. /\ \A i \in 1..Len(s) : i < Len(s) =>
               i + 1 \in 1..Len(s) /\ m[s[i]].next = s[i + 1] /\ s[i] # s[Len(s)]
          /\ Len(s) # 0 => /\ Len(s) \in 1..Len(s) /\ m[s[Len(s)]].next = NULL
                         /\ q.first = s[1] /\ q.last = s[Len(s)]
      BY ChainNext
    <2> QED BY <1>0, <1>3, <2>1
  <1>7. \A i \in 1..(L - 1) : t[i] \in DOMAIN m2
    <2>1. \A i \in 1..(L - 1) : t[i] \in Rng(t)
      BY <1>3, RngFacts
    <2> QED BY <1>1, <1>4, <1>5, <2>1
  <1>8. t \in Seq(DOMAIN m2)
    <2>1. t = [i \in 1..(L - 1) |-> t[i]]
      <3>1. t = [i \in 1..(Len(s) - 1) |-> IF i < k THEN s[i] ELSE s[i + 1]]
        BY <1>0 DEF Cut
      <3> QED BY <1>0, <3>1
    <2>2. t \in [1..(L - 1) -> DOMAIN m2]
      BY <1>7, <2>1
    <2> QED BY <1>3, <2>2, IsSeq
  <1>9. q2.first = IF L - 1 = 0 THEN NULL ELSE t[1]
    <2>1. CASE L - 1 = 0
      <3>1. k = 1 /\ L = 1
        BY <1>1, <2>1
      <3> QED BY <1>5, <1>6, <3>1
    <2>2. CASE L - 1 # 0
      <3>1. 1 \in 1..(L - 1) /\ 1 \in 1..L /\ 1 < L /\ 1 + 1 = 2
        BY <1>1, <1>3, <2>2
      <3>2. CASE k = 1
        <4>1. t[1] = s[2]
          BY <1>3, <3>1, <3>2
        <4> QED BY <1>5, <1>6, <2>2, <3>1, <3>2, <4>1
      <3>3. CASE k # 1
        <4>1. 1 < k
          BY <1>1, <3>3
        <4> QED BY <1>3, <1>5, <1>6, <2>2, <3>1, <3>3, <4>1
      <3> QED BY <3>2, <3>3
    <2> QED BY <2>1, <2>2
  <1>10. L - 1 # 0 => q2.last = t[L - 1]
    <2> HAVE L - 1 # 0
    <2>1. L # 1 /\ L - 1 \in 1..(L - 1) /\ (L - 1) + 1 = L /\ k - 1 < k
      BY <1>1, <1>3
    <2>2. CASE k = L
      <3>1. t[L - 1] = s[k - 1]
        BY <1>3, <2>1, <2>2
      <3> QED BY <1>5, <2>1, <2>2, <3>1
    <2>3. CASE k # L
      <3>1. ~(L - 1 < k)
        BY <1>1, <2>3
      <3>2. t[L - 1] = s[L]
        BY <1>3, <2>1, <3>1
      <3> QED BY <1>5, <1>6, <2>1, <2>3, <3>2
    <2> QED BY <2>2, <2>3
  <1>11. \A i \in 1..(L - 1) : m2[t[i]].next = IF i = L - 1 THEN NULL ELSE t[i + 1]
    <2> TAKE i \in 1..(L - 1)
    <2>0. i \in Nat /\ i >= 1 /\ i <= L - 1 /\ k \in Nat /\ k >= 1 /\ k <= L
      BY <1>1
    <2>1. t[i] \in DOMAIN m2 /\ i \in 1..L /\ i + 1 \in 1..L
      BY <1>3, <1>7
    <2>2. CASE i + 1 < k
      <3>0. i # L - 1 /\ i + 1 \in 1..(L - 1) /\ i < k /\ i < L /\ k # 1 /\ k - 1 # i /\ k - 1 \in 1..L
        BY <1>1, <2>0, <2>2
      <3>1. t[i] = s[i]
        BY <1>3, <3>0
      <3>2. t[i + 1] = s[i + 1]
        BY <1>3, <2>2, <3>0
      <3>3. s[i] # s[k - 1]
        BY <1>2, <2>1, <3>0
      <3> QED BY <1>5, <1>6, <2>1, <3>0, <3>1, <3>2, <3>3
    <2>3. CASE i + 1 = k
      <3>1. t[i] = s[i] /\ k # 1 /\ k - 1 = i /\ i < k
        BY <1>3, <2>0, <2>3
      <3>2. m2[t[i]].next = m[s[k]].next
        BY <1>5, <3>1
      <3>3. CASE i = L - 1
        <4>1. k = L
          BY <1>1, <2>0, <2>3, <3>3
        <4> QED BY <1>6, <3>2, <3>3, <4>1
      <3>4. CASE i # L - 1
        <4>1. i + 1 \in 1..(L - 1) /\ ~(i + 1 < k) /\ k < L /\ k \in 1..L
          BY <1>1, <2>0, <2>3, <3>4
        <4>2. t[i + 1] = s[(i + 1) + 1]
          BY <1>3, <4>1
        <4>3. m[s[k]].next = s[k + 1]
          BY <1>6, <4>1
        <4> QED BY <2>3, <3>2, <3>4, <4>2, <4>3
      <3> QED BY <3>3, <3>4
    <2>4. CASE i + 1 > k
      <3>1. ~(i < k)
        BY <2>0, <2>4
      <3>2. t[i] = s[i + 1]
        BY <1>3, <3>1
      <3>3. k = 1 \/ s[i + 1] # s[k - 1]
        <4>1. SUFFICES ASSUME k # 1 PROVE s[i + 1] # s[k - 1]
          OBVIOUS
        <4>2. k - 1 \in 1..L /\ k - 1 # i + 1
          BY <1>1, <2>0, <2>4, <4>1
        <4> QED BY <1>2, <2>1, <4>2
      <3>4. m2[t[i]].next = m[s[i + 1]].next
        BY <1>5, <2>1, <3>2, <3>3
      <3>5. CASE i = L - 1
        <4>1. i + 1 = L
          BY <1>1, <3>5
        <4> QED BY <1>6, <3>4, <3>5, <4>1
      <3>6. CASE i # L - 1
        <4>1. i + 1 \in 1..(L - 1) /\ ~(i + 1 < k) /\ i + 1 < L
          BY <1>1, <2>0, <2>4, <3>6
        <4>2. t[i + 1] = s[(i + 1) + 1]
          BY <1>3, <4>1
        <4>3. m[s[i + 1]].next = s[(i + 1) + 1]
          BY <1>6, <2>1, <4>1
        <4> QED BY <3>4, <3>6, <4>2, <4>3
      <3> QED BY <3>5, <3>6
    <2> QED BY <2>0, <2>2, <2>3, <2>4
  <1>12. Chain(m2, q2, t)
    BY <1>3, <1>4, <1>5, <1>8, <1>9, <1>10, <1>11 DEF Chain
  <1> QED BY <1>0, <1>4, <1>12

LEMMA UnlinkLaid ==
  ASSUME NEW m, NEW qs, Laid(m, qs), NEW j \in DOMAIN qs, NEW s, s = NodesOf(m, qs[j]),
         NEW k \in 1..Len(s), NEW m2, NEW q2, Unlinked(m, qs[j], s, k, m2, q2)
  PROVE  /\ Laid(m2, Put(qs, j, q2))
         /\ View(m2, Put(qs, j, q2)) = Put(View(m, qs), j, Cut(View(m, qs)[j], k))
  <1>0. PICK qs2, t : qs2 = Put(qs, j, q2) /\ t = Cut(s, k)
    OBVIOUS
  <1>1. PICK L : L = Len(s)
    OBVIOUS
  <1>2. /\ Cells(m) /\ Chain(m, qs[j], s) /\ L \in Nat /\ s \in [1..L -> DOMAIN m] /\ k \in 1..L
        /\ Contents(m, qs[j]) = [i \in 1..L |-> m[s[i]].value]
        /\ Len(Contents(m, qs[j])) = L /\ Rng(s) \subseteq DOMAIN m /\ DOMAIN s = 1..L
    BY <1>1, ContentsFacts, LaidFacts
  <1>3. Shorter(L, s, k, t)
    BY <1>0, <1>2, CutFacts
  <1>4. Chain(m2, q2, t) /\ Rng(t) = Rng(s) \ {s[k]}
    BY <1>0, <1>2, UnlinkChain
  <1>5. /\ Cells(m2) /\ DOMAIN m2 = DOMAIN m \ {s[k]}
        /\ \A a \in DOMAIN m2 : m2[a].value = m[a].value /\ (k = 1 \/ a # s[k - 1] => m2[a] = m[a])
    BY DEF Unlinked
  <1>6. s[k] \in Rng(s) /\ (k # 1 => s[k - 1] \in Rng(s))
    <2>1. k # 1 => k - 1 \in 1..L
      BY <1>2
    <2> QED BY <1>2, <2>1, RngFacts
  <1>7. OnlyQueue(m, qs, j, m2, qs2, t)
    <2>1. PICK rest : rest = DOMAIN m \ Rng(s)
      OBVIOUS
    <2>2. DOMAIN qs2 = DOMAIN qs /\ qs2[j] = q2 /\ \A i \in DOMAIN qs \ {j} : qs2[i] = qs[i]
      BY <1>0 DEF Put
    <2>3. \A a \in rest : a \in DOMAIN m2 /\ m2[a] = m[a]
      BY <1>5, <1>6, <2>1
    <2>4. DOMAIN m2 = rest \cup Rng(t) /\ Rng(t) \cap rest = {}
      BY <1>2, <1>4, <1>5, <1>6, <2>1
    <2> QED BY <1>4, <1>5, <2>1, <2>2, <2>3, <2>4 DEF OnlyQueue
  <1>8. Laid(m2, qs2) /\ NodesOf(m2, qs2[j]) = t /\ Kept(m, qs, j, m2, qs2)
    BY <1>7, OneQueue
  <1>9. Contents(m2, q2) = Cut(Contents(m, qs[j]), k)
    <2>1. qs2[j] = q2
      BY <1>0 DEF Put
    <2>2. Contents(m2, q2) = [i \in 1..(L - 1) |-> m2[t[i]].value]
      BY <1>3, <1>8, <2>1, ContentsOf DEF Shorter
    <2>3. Cut(Contents(m, qs[j]), k)
            = [i \in 1..(L - 1) |-> IF i < k THEN Contents(m, qs[j])[i] ELSE Contents(m, qs[j])[i + 1]]
      BY <1>2 DEF Cut
    <2>4. ASSUME NEW i \in 1..(L - 1)
          PROVE  m2[t[i]].value = IF i < k THEN Contents(m, qs[j])[i] ELSE Contents(m, qs[j])[i + 1]
      <3>1. t[i] \in DOMAIN m2
        <4>1. t[i] \in Rng(t)
          BY <1>3, RngFacts DEF Shorter
        <4> QED BY <1>2, <1>4, <1>5, <4>1
      <3>2. m2[t[i]].value = m[t[i]].value
        BY <1>5, <3>1
      <3>3. /\ i \in 1..L /\ i + 1 \in 1..L
            /\ i < k => t[i] = s[i]
            /\ ~(i < k) => t[i] = s[i + 1]
        BY <1>3 DEF Shorter
      <3> QED BY <1>2, <3>2, <3>3
    <2> QED BY <2>2, <2>3, <2>4
  <1>10. View(m, qs)[j] = Contents(m, qs[j])
    BY DEF View
  <1>11. View(m2, qs2) = Put(View(m, qs), j, Cut(Contents(m, qs[j]), k))
    BY <1>0, <1>8, <1>9, PutView
  <1> QED BY <1>0, <1>8, <1>10, <1>11

(* dequeue.                                                                 *)
LEMMA DequeueLaid ==
  ASSUME NEW m, NEW qs, Laid(m, qs), NEW j \in DOMAIN qs, View(m, qs)[j] # <<>>,
         NEW r, r = Dequeue(m, qs[j])
  PROVE  /\ Laid(r.mem, Put(qs, j, r.q))
         /\ View(r.mem, Put(qs, j, r.q)) = Put(View(m, qs), j, Cut(View(m, qs)[j], 1))
  <1>0. PICK q, s : q = qs[j] /\ s = NodesOf(m, q)
    OBVIOUS
  <1>1. PICK L : L = Len(s)
    OBVIOUS
  <1>2. /\ Cells(m) /\ Chain(m, q, s) /\ L \in Nat /\ s \in [1..L -> DOMAIN m]
        /\ q.size = L /\ Contents(m, q) = [i \in 1..L |-> m[s[i]].value]
    BY <1>0, <1>1, ContentsFacts, LaidFacts
  <1>3. L # 0 /\ 1 \in 1..L
    <2>1. Contents(m, q) # <<>>
      BY <1>0 DEF View
    <2> QED BY <1>2, <2>1
  <1>4. q.first = s[1] /\ q.last = s[L] /\ s[1] \in DOMAIN m
    BY <1>1, <1>2, <1>3, ChainNext
  <1>5. /\ r.mem = [a \in DOMAIN m \ {s[1]} |-> m[a]]
        /\ r.q = [q EXCEPT !.first = m[s[1]].next, !.size = @ - 1]
    BY <1>0, <1>4 DEF Dequeue, Without
  <1>6. /\ m \in [DOMAIN m -> [value : Value, next : Node \cup {NULL}]] /\ DOMAIN m \subseteq Node
        /\ q \in QueueType
    BY <1>2 DEF Cells, Chain
  <1>7. Cells(r.mem) /\ DOMAIN r.mem = DOMAIN m \ {s[1]} /\ \A a \in DOMAIN r.mem : r.mem[a] = m[a]
    BY <1>5, <1>6 DEF Cells
  <1>8. r.q \in QueueType /\ r.q.size = q.size - 1 /\ r.q.first = m[s[1]].next /\ r.q.last = q.last
    <2>1. /\ q = [first |-> q.first, last |-> q.last, size |-> q.size]
          /\ q.last \in Node \cup {NULL} /\ m[s[1]].next \in Node \cup {NULL}
      BY <1>4, <1>6 DEF QueueType
    <2>2. r.q = [first |-> m[s[1]].next, last |-> q.last, size |-> q.size - 1]
      BY <1>5, <2>1
    <2> QED BY <1>2, <1>3, <2>1, <2>2 DEF QueueType
  <1>9. L # 1 => 1 # L
    OBVIOUS
  <1>10. Unlinked(m, qs[j], s, 1, r.mem, r.q)
    BY <1>0, <1>1, <1>7, <1>8, <1>9 DEF Unlinked
  <1> QED BY <1>0, <1>1, <1>3, <1>10, UnlinkLaid

(* takeElement.                                                             *)
LEMMA TakeLaid ==
  ASSUME NEW m, NEW qs, Laid(m, qs), NEW j \in DOMAIN qs, NEW v,
         NEW k \in DOMAIN View(m, qs)[j], View(m, qs)[j][k] = v,
         \A i \in DOMAIN View(m, qs)[j] : View(m, qs)[j][i] = v => i = k,
         NEW r, r = TakeElement(m, qs[j], v)
  PROVE  /\ Laid(r.mem, Put(qs, j, r.q))
         /\ View(r.mem, Put(qs, j, r.q)) = Put(View(m, qs), j, Cut(View(m, qs)[j], k))
  <1>0. PICK q, s : q = qs[j] /\ s = NodesOf(m, q)
    OBVIOUS
  <1>1. PICK L : L = Len(s)
    OBVIOUS
  <1>2. /\ Cells(m) /\ Chain(m, q, s) /\ L \in Nat /\ s \in [1..L -> DOMAIN m] /\ DOMAIN s = 1..L
        /\ q.size = L /\ Contents(m, q) = [i \in 1..L |-> m[s[i]].value]
    BY <1>0, <1>1, ContentsFacts, LaidFacts
  <1>3. k \in 1..L /\ m[s[k]].value = v /\ \A i \in 1..L : m[s[i]].value = v => i = k
    BY <1>0, <1>2 DEF View
  <1>4. Min({i \in DOMAIN s : m[s[i]].value = v}) = k
    <2>1. {i \in DOMAIN s : m[s[i]].value = v} = {k}
      BY <1>2, <1>3
    <2> QED BY <1>3, <2>1, MinIs
  <1>5. PICK n, after, before : n = s[k] /\ after = m[n].next /\ before = IF k = 1 THEN NULL ELSE s[k - 1]
    OBVIOUS
  <1>6. /\ r.mem = Without(IF k = 1 THEN m ELSE [m EXCEPT ![before].next = after], n)
        /\ r.q = [first |-> IF k = 1 THEN after ELSE q.first,
                  last |-> IF after = NULL THEN before ELSE q.last,
                  size |-> q.size - 1]
    BY <1>0, <1>4, <1>5 DEF TakeElement, NodesOf
  <1>7. /\ m \in [DOMAIN m -> [value : Value, next : Node \cup {NULL}]] /\ DOMAIN m \subseteq Node
        /\ q \in QueueType
    BY <1>2 DEF Cells, Chain
  <1>8. n \in DOMAIN m /\ after \in Node \cup {NULL} /\ (k # 1 => before \in DOMAIN m /\ before # n)
    <2>1. k # 1 => k - 1 \in 1..L /\ k - 1 # k
      BY <1>2, <1>3
    <2>2. k # 1 => s[k - 1] # s[k]
      BY <1>1, <1>2, <1>3, <2>1 DEF Chain
    <2> QED BY <1>2, <1>3, <1>5, <1>7, <2>1, <2>2
  <1>9. PICK t : t = IF k = 1 THEN m ELSE [m EXCEPT ![before].next = after]
    OBVIOUS
  <1>10. /\ t \in [DOMAIN m -> [value : Value, next : Node \cup {NULL}]]
         /\ \A a \in DOMAIN m : t[a].value = m[a].value /\ (k = 1 \/ a # before => t[a] = m[a])
         /\ k # 1 => t[before].next = after
    BY <1>7, <1>8, <1>9
  <1>11. r.mem = [a \in DOMAIN m \ {n} |-> t[a]]
    BY <1>6, <1>9, <1>10 DEF Without
  <1>12. /\ Cells(r.mem) /\ DOMAIN r.mem = DOMAIN m \ {n}
         /\ \A a \in DOMAIN r.mem : r.mem[a].value = m[a].value /\ (k = 1 \/ a # before => r.mem[a] = m[a])
         /\ k # 1 => r.mem[before].next = after
    BY <1>7, <1>8, <1>10, <1>11 DEF Cells
  <1>13. after = NULL <=> k = L
    <2>1. k = L => after = NULL
      BY <1>1, <1>2, <1>3, <1>5, ChainNext
    <2>2. k # L => k < L /\ k + 1 \in 1..L
      BY <1>2, <1>3
    <2>3. k # L => after = s[k + 1] /\ s[k + 1] \in DOMAIN m
      BY <1>1, <1>2, <1>3, <1>5, <2>2, ChainNext
    <2>4. NULL \notin DOMAIN m
      BY <1>7, NodeAssumption DEF NULL
    <2> QED BY <2>1, <2>3, <2>4
  <1>14. r.q \in QueueType
    <2>1. q.first \in Node \cup {NULL} /\ q.last \in Node \cup {NULL} /\ before \in Node \cup {NULL} /\ L - 1 \in Nat
      BY <1>2, <1>3, <1>5, <1>7, <1>8 DEF QueueType
    <2> QED BY <1>2, <1>6, <1>8, <2>1 DEF QueueType
  <1>15. Unlinked(m, q, s, k, r.mem, r.q)
    <2>1. k # 1 => before = s[k - 1]
      BY <1>5
    <2>2. L # 1 => r.q.last = IF k = L THEN s[k - 1] ELSE q.last
      BY <1>3, <1>6, <1>13, <2>1
    <2>3. r.q.size = q.size - 1 /\ r.q.first = IF k = 1 THEN m[s[k]].next ELSE q.first
      BY <1>5, <1>6
    <2> QED BY <1>1, <1>5, <1>12, <1>14, <2>1, <2>2, <2>3 DEF Unlinked
  <1> QED BY <1>0, <1>1, <1>3, <1>15, UnlinkLaid

(* freeQueue of queue j, which is gone with its nodes.                      *)
Drop(f, j) == [i \in DOMAIN f \ {j} |-> f[i]]
Add(f, j, x) == [i \in DOMAIN f \cup {j} |-> IF i = j THEN x ELSE f[i]]

LEMMA DropLaid ==
  ASSUME NEW m, NEW qs, Laid(m, qs), NEW j \in DOMAIN qs, NEW m2, m2 = FreeQueue(m, qs[j])
  PROVE  Laid(m2, Drop(qs, j)) /\ View(m2, Drop(qs, j)) = Drop(View(m, qs), j)
  <1>0. PICK q, s : q = qs[j] /\ s = NodesOf(m, q)
    OBVIOUS
  <1>1. PICK L : L = Len(s)
    OBVIOUS
  <1>2. L \in Nat /\ DOMAIN s = 1..L /\ q.size = L /\ Cells(m)
    BY <1>0, <1>1, ContentsFacts, LaidFacts
  <1>3. m2 = [a \in DOMAIN m \ Rng(s) |-> m[a]]
    <2>1. Min({q.size, Len(s)}) = L
      <3>1. {q.size, Len(s)} = {L}
        BY <1>1, <1>2
      <3> QED BY <1>2, <3>1, MinIs
    <2>2. m2 = [a \in DOMAIN m \ {s[k] : k \in 1..L} |-> m[a]]
      BY <1>0, <2>1 DEF FreeQueue, NodesOf
    <2> QED BY <1>2, <2>2 DEF Rng
  <1>4. Cells(m2)
    BY <1>2, <1>3 DEF Cells
  <1>5. ASSUME NEW i \in DOMAIN qs \ {j}
        PROVE  /\ Chain(m2, qs[i], NodesOf(m2, qs[i])) /\ NodesOf(m2, qs[i]) = NodesOf(m, qs[i])
               /\ Contents(m2, qs[i]) = Contents(m, qs[i])
    <2> DEFINE t == NodesOf(m, qs[i])
    <2>1. Chain(m, qs[i], t) /\ Rng(t) \subseteq DOMAIN m /\ Rng(t) \cap Rng(s) = {}
      BY <1>0, LaidFacts DEF Laid
    <2>2. \A a \in Rng(t) : a \in DOMAIN m2 /\ m2[a] = m[a]
      BY <1>3, <2>1
    <2>3. Chain(m2, qs[i], t) /\ NodesOf(m2, qs[i]) = t
      BY <1>4, <2>1, <2>2, ChainKept
    <2>4. /\ Contents(m, qs[i]) = [k \in DOMAIN t |-> m[t[k]].value]
          /\ Contents(m2, qs[i]) = [k \in DOMAIN t |-> m2[t[k]].value]
      BY <2>3, ContentsOf
    <2>5. \A k \in DOMAIN t : m2[t[k]] = m[t[k]]
      BY <2>2 DEF Rng
    <2> QED BY <2>3, <2>4, <2>5
  <1>6. PICK qs2 : qs2 = Drop(qs, j)
    OBVIOUS
  <1>7. DOMAIN qs2 = DOMAIN qs \ {j} /\ \A i \in DOMAIN qs2 : qs2[i] = qs[i]
    BY <1>6 DEF Drop
  <1>8. \A i \in DOMAIN qs2 : Chain(m2, qs2[i], NodesOf(m2, qs2[i]))
    BY <1>5, <1>7
  <1>9. \A i, k \in DOMAIN qs2 : i # k =>
          Rng(NodesOf(m2, qs2[i])) \cap Rng(NodesOf(m2, qs2[k])) = {}
    BY <1>5, <1>7 DEF Laid
  <1>10. DOMAIN m2 = UNION {Rng(NodesOf(m2, qs2[i])) : i \in DOMAIN qs2}
    <2>1. DOMAIN m2 = UNION {Rng(NodesOf(m, qs[i])) : i \in DOMAIN qs \ {j}}
      BY <1>0, <1>3 DEF Laid
    <2> QED BY <1>5, <1>7, <2>1
  <1>11. Laid(m2, qs2)
    BY <1>4, <1>8, <1>9, <1>10 DEF Laid
  <1>12. View(m2, qs2) = Drop(View(m, qs), j)
    BY <1>5, <1>7 DEF View, Drop
  <1> QED BY <1>6, <1>11, <1>12

(* initQueue of one more queue.                                             *)
LEMMA AddLaid ==
  ASSUME NEW m, NEW qs, Laid(m, qs), NEW j, j \notin DOMAIN qs
  PROVE  Laid(m, Add(qs, j, EmptyQueue)) /\ View(m, Add(qs, j, EmptyQueue)) = Add(View(m, qs), j, <<>>)
  <1>1. Chain(m, EmptyQueue, <<>>)
    BY DEF Chain, EmptyQueue, QueueType
  <1>2. Cells(m)
    BY DEF Laid
  <1>3. NodesOf(m, EmptyQueue) = <<>>
    BY <1>1, <1>2, ChainNodes
  <1>4. Rng(<<>>) = {}
    BY DEF Rng
  <1>5. Contents(m, EmptyQueue) = <<>>
    <2>1. Contents(m, EmptyQueue) = [k \in DOMAIN <<>> |-> m[<<>>[k]].value]
      BY <1>3, ContentsOf
    <2> QED BY <2>1
  <1>6. PICK qs2 : qs2 = Add(qs, j, EmptyQueue)
    OBVIOUS
  <1>7. DOMAIN qs2 = DOMAIN qs \cup {j} /\ qs2[j] = EmptyQueue /\ \A i \in DOMAIN qs : qs2[i] = qs[i]
    BY <1>6 DEF Add
  <1>8. \A i \in DOMAIN qs2 : Chain(m, qs2[i], NodesOf(m, qs2[i]))
    BY <1>1, <1>3, <1>7 DEF Laid
  <1>9. \A i, k \in DOMAIN qs2 : i # k =>
          Rng(NodesOf(m, qs2[i])) \cap Rng(NodesOf(m, qs2[k])) = {}
    <2> TAKE i, k \in DOMAIN qs2
    <2> HAVE i # k
    <2>1. CASE i = j \/ k = j
      <3>1. Rng(NodesOf(m, qs2[i])) = {} \/ Rng(NodesOf(m, qs2[k])) = {}
        BY <1>3, <1>4, <1>7, <2>1
      <3> QED BY <3>1
    <2>2. CASE i # j /\ k # j
      BY <1>7, <2>2 DEF Laid
    <2> QED BY <2>1, <2>2
  <1>10. DOMAIN m = UNION {Rng(NodesOf(m, qs2[i])) : i \in DOMAIN qs2}
    <2>1. DOMAIN m = UNION {Rng(NodesOf(m, qs[i])) : i \in DOMAIN qs}
      BY DEF Laid
    <2>2. \A i \in DOMAIN qs2 : i \in DOMAIN qs \/ Rng(NodesOf(m, qs2[i])) = {}
      BY <1>3, <1>4, <1>7
    <2> QED BY <1>7, <2>1, <2>2
  <1>11. Laid(m, qs2)
    BY <1>2, <1>8, <1>9, <1>10 DEF Laid
  <1>12. View(m, qs2) = Add(View(m, qs), j, <<>>)
    BY <1>5, <1>7 DEF View, Add
  <1> QED BY <1>6, <1>11, <1>12

(* find: what it returns for a list of numbers.                             *)
LEMMA FindIs ==
  ASSUME NEW m, NEW q, NEW s, s = Contents(m, q), s \in Seq(Nat), NEW W
  PROVE  /\ FindFirst(m, q, W) = NULL <=> Rng(s) \cap W = {}
         /\ FindFirst(m, q, W) # NULL => FindFirst(m, q, W) \in Rng(s) \cap W
  <1>1. DOMAIN s \subseteq Nat /\ \A k \in DOMAIN s : s[k] \in Nat
    OBVIOUS
  <1>2. NULL \notin Nat
    BY DEF NULL
  <1>3. PICK found : found = {k \in DOMAIN s : s[k] \in W}
    OBVIOUS
  <1>4. FindFirst(m, q, W) = IF found = {} THEN NULL ELSE s[Min(found)]
    BY <1>3 DEF FindFirst
  <1>5. CASE found = {}
    <2>1. Rng(s) \cap W = {}
      BY <1>3, <1>5 DEF Rng
    <2> QED BY <1>4, <1>5, <2>1
  <1>6. CASE found # {}
    <2>1. found \in SUBSET Nat
      BY <1>1, <1>3
    <2>2. Min(found) \in found
      BY <1>6, <2>1, MinOf
    <2>3. Min(found) \in DOMAIN s /\ s[Min(found)] \in W
      BY <1>3, <2>2
    <2>4. s[Min(found)] \in Rng(s) \cap W
      BY <2>3, RngFacts
    <2> QED BY <1>1, <1>2, <1>4, <1>6, <2>3, <2>4
  <1> QED BY <1>5, <1>6

(* dequeue, several times: what is left of list v after i of them.          *)
Rest(v, i) == [l \in 1..(Len(v) - i) |-> v[l + i]]
DequeueStep(m, q, f, i) ==
  IF i = 0 THEN [mem |-> m, q |-> q]
  ELSE [mem |-> Dequeue(f[i - 1].mem, f[i - 1].q).mem, q |-> Dequeue(f[i - 1].mem, f[i - 1].q).q]

LEMMA DequeuesExist ==
  ASSUME NEW m, NEW q
  PROVE  \A e \in Nat : \E f : f = [k \in 0..e |-> DequeueStep(m, q, f, k)]
  <1> DEFINE Good(e) == \E f : f = [k \in 0..e |-> DequeueStep(m, q, f, k)]
             Bad == {e \in Nat : ~Good(e)}
  <1>1. SUFFICES ASSUME Bad # {} PROVE FALSE
    OBVIOUS
  <1>2. PICK e \in Bad : \A l \in Bad : e <= l
    BY <1>1, Least
  <1>3. e # 0
    <2> DEFINE f == [k \in 0..0 |-> [mem |-> m, q |-> q]]
    <2>1. f = [k \in 0..0 |-> DequeueStep(m, q, f, k)]
      BY DEF DequeueStep
    <2> QED BY <2>1, <1>2
  <1>4. PICK f : f = [k \in 0..(e - 1) |-> DequeueStep(m, q, f, k)]
    <2>1. e - 1 \in Nat /\ e - 1 \notin Bad
      BY <1>2, <1>3
    <2> QED BY <2>1
  <1> DEFINE g == [k \in 0..e |-> IF k < e THEN f[k] ELSE DequeueStep(m, q, f, k)]
  <1>5. \A k \in 0..e : g[k] = DequeueStep(m, q, g, k)
    <2> TAKE k \in 0..e
    <2>1. CASE k = e
      <3>1. g[k] = DequeueStep(m, q, f, k) /\ g[k - 1] = f[k - 1] /\ k # 0
        BY <2>1, <1>2, <1>3
      <3> QED BY <3>1 DEF DequeueStep
    <2>2. CASE k < e
      <3>1. k \in 0..(e - 1) /\ g[k] = f[k]
        BY <2>2, <1>2
      <3>2. k # 0 => g[k - 1] = f[k - 1]
        BY <2>2, <1>2
      <3>3. f[k] = DequeueStep(m, q, f, k)
        BY <1>4, <3>1
      <3> QED BY <3>1, <3>2, <3>3 DEF DequeueStep
    <2> QED BY <2>1, <2>2, <1>2
  <1>6. g = [k \in 0..e |-> DequeueStep(m, q, g, k)]
    BY <1>5
  <1> QED BY <1>6, <1>2

LEMMA DequeuedIs ==
  ASSUME NEW s, NEW k \in Nat
  PROVE  \E f : /\ f = [i \in 0..k |-> DequeueStep(mem, sems[s].blocked, f, i)]
                /\ Dequeued(s, k) = f[k]
  <1>1. \E f : f = [i \in 0..k |-> DequeueStep(mem, sems[s].blocked, f, i)]
    BY DequeuesExist
  <1> DEFINE f == CHOOSE f : f = [i \in 0..k |-> DequeueStep(mem, sems[s].blocked, f, i)]
  <1>2. f = [i \in 0..k |-> DequeueStep(mem, sems[s].blocked, f, i)]
    BY <1>1
  <1>3. Dequeued(s, k) = f[k]
    BY Zenon DEF Dequeued, DequeueStep
  <1> QED BY <1>2, <1>3

LEMMA RestFacts ==
  ASSUME NEW S, NEW v \in Seq(S)
  PROVE  /\ Rest(v, 0) = v
         /\ \A i \in Nat : i < Len(v) => Rest(v, i) # <<>> /\ Cut(Rest(v, i), 1) = Rest(v, i + 1)
  <1>1. PICK L \in Nat : L = Len(v)
    OBVIOUS
  <1>2. v \in [1..L -> S]
    BY <1>1
  <1>3. Rest(v, 0) = v
    BY <1>1, <1>2 DEF Rest
  <1>4. ASSUME NEW i \in Nat, i < L
        PROVE  Rest(v, i) # <<>> /\ Cut(Rest(v, i), 1) = Rest(v, i + 1)
    <2>1. PICK N \in Nat : N = L - i /\ N # 0
      BY <1>4
    <2>2. PICK t : t = Rest(v, i)
      OBVIOUS
    <2>3. t = [l \in 1..N |-> v[l + i]]
      BY <1>1, <2>1, <2>2 DEF Rest
    <2>4. \A l \in 1..N : l + i \in 1..L
      BY <2>1
    <2>5. t \in [1..N -> S]
      BY <1>2, <2>3, <2>4
    <2>6. Len(t) = N
      BY <2>5, IsSeq
    <2>7. Cut(t, 1) = [l \in 1..(N - 1) |-> IF l < 1 THEN t[l] ELSE t[l + 1]]
      BY <2>6 DEF Cut
    <2>8. \A l \in 1..(N - 1) : ~(l < 1) /\ t[l + 1] = v[l + (i + 1)]
      <3> TAKE l \in 1..(N - 1)
      <3>1. l + 1 \in 1..N /\ (l + 1) + i = l + (i + 1) /\ ~(l < 1)
        BY <2>1
      <3> QED BY <2>3, <3>1
    <2>9. Rest(v, i + 1) = [l \in 1..(N - 1) |-> v[l + (i + 1)]]
      <3>1. Len(v) - (i + 1) = N - 1
        BY <1>1, <2>1
      <3> QED BY <3>1 DEF Rest
    <2>10. t # <<>>
      BY <2>1, <2>6
    <2> QED BY <2>2, <2>7, <2>8, <2>9, <2>10
  <1> QED BY <1>1, <1>3, <1>4

LEMMA PutFacts ==
  ASSUME NEW f, NEW j \in DOMAIN f, NEW a, NEW b
  PROVE  /\ DOMAIN Put(f, j, a) = DOMAIN f /\ Put(f, j, a)[j] = a
         /\ Put(Put(f, j, a), j, b) = Put(f, j, b)
         /\ a = f[j] /\ f = [i \in DOMAIN f |-> f[i]] => Put(f, j, a) = f
  BY DEF Put

LEMMA DequeuedLaid ==
  ASSUME NEW qs, Laid(mem, qs), qs = [i \in DOMAIN qs |-> qs[i]],
         NEW j \in DOMAIN qs, NEW s, qs[j] = sems[s].blocked,
         NEW v, v = View(mem, qs)[j], NEW k \in Nat, k <= Len(v),
         NEW r, r = Dequeued(s, k)
  PROVE  /\ Laid(r.mem, Put(qs, j, r.q))
         /\ View(r.mem, Put(qs, j, r.q)) = Put(View(mem, qs), j, Rest(v, k))
  <1>1. PICK f : /\ f = [i \in 0..k |-> DequeueStep(mem, sems[s].blocked, f, i)]
                 /\ r = f[k]
    BY DequeuedIs
  <1>2. v \in Seq(Value) /\ Len(v) \in Nat
    <2>1. v = Contents(mem, qs[j])
      BY DEF View
    <2> QED BY <2>1, ContentsFacts
  <1> DEFINE Good(i) == /\ Laid(f[i].mem, Put(qs, j, f[i].q))
                        /\ View(f[i].mem, Put(qs, j, f[i].q)) = Put(View(mem, qs), j, Rest(v, i))
             Bad == {i \in 0..k : ~Good(i)}
  <1>3. SUFFICES ASSUME Bad # {} PROVE FALSE
    BY <1>1
  <1>4. PICK i \in Bad : \A l \in Bad : i <= l
    <2>1. Bad \in SUBSET Nat
      OBVIOUS
    <2> QED BY <1>3, <2>1, Least
  <1>5. i # 0
    <2>1. f[0] = [mem |-> mem, q |-> qs[j]]
      BY <1>1 DEF DequeueStep
    <2>2. Put(qs, j, qs[j]) = qs
      BY PutFacts
    <2>3. Put(View(mem, qs), j, v) = View(mem, qs)
      BY DEF View, Put
    <2>4. Rest(v, 0) = v
      BY <1>2, RestFacts
    <2>5. Good(0)
      BY <2>1, <2>2, <2>3, <2>4
    <2> QED BY <2>5, <1>4
  <1>6. PICK h \in 0..k : h = i - 1 /\ h < Len(v) /\ h + 1 = i
    BY <1>2, <1>4, <1>5
  <1>7. Good(h)
    BY <1>4, <1>6
  <1>8. PICK m, q, qs2, w : m = f[h].mem /\ q = f[h].q /\ qs2 = Put(qs, j, q) /\ w = Rest(v, h)
    OBVIOUS
  <1>9. Laid(m, qs2) /\ View(m, qs2) = Put(View(mem, qs), j, w) /\ j \in DOMAIN qs2 /\ qs2[j] = q
    BY <1>7, <1>8, PutFacts
  <1>10. j \in DOMAIN View(mem, qs)
    BY DEF View
  <1>11. View(m, qs2)[j] = w /\ w # <<>> /\ Cut(w, 1) = Rest(v, i)
    <2>1. View(m, qs2)[j] = w
      BY <1>9, <1>10, PutFacts
    <2>2. h \in Nat /\ h < Len(v)
      BY <1>6
    <2>3. Rest(v, h) # <<>> /\ Cut(Rest(v, h), 1) = Rest(v, h + 1)
      BY <1>2, <2>2, RestFacts
    <2> QED BY <1>6, <1>8, <2>1, <2>3
  <1>12. PICK r2 : r2 = Dequeue(m, q)
    OBVIOUS
  <1>13. /\ Laid(r2.mem, Put(qs2, j, r2.q))
         /\ View(r2.mem, Put(qs2, j, r2.q)) = Put(View(m, qs2), j, Cut(w, 1))
    BY <1>9, <1>11, <1>12, DequeueLaid
  <1>14. f[i].mem = r2.mem /\ f[i].q = r2.q
    <2>1. f[i] = DequeueStep(mem, sems[s].blocked, f, i)
      BY <1>1, <1>4
    <2> QED BY <1>5, <1>6, <1>8, <1>12, <2>1 DEF DequeueStep
  <1>15. Put(qs2, j, r2.q) = Put(qs, j, r2.q) /\ Put(View(m, qs2), j, Cut(w, 1)) = Put(View(mem, qs), j, Rest(v, i))
    BY <1>8, <1>9, <1>10, <1>11, PutFacts
  <1>16. Good(i)
    BY <1>13, <1>14, <1>15
  <1> QED BY <1>4, <1>16

-----------------------------------------------------------------------------
(* The table.  q is the queue of its identifiers, t the t_sem, n the next   *)
(* identifier; QsOf are all the queues there are.                           *)
Names == {Unnamed} \cup {Spelling[c] : c \in Opener}
Sem == [value : Int, name : Names, attached : Int, lock : BOOLEAN,
        hasQueue : BOOLEAN, blocked : QueueType]
QsOf(q, t) == [j \in {NULL} \cup DOMAIN t |-> IF j = NULL THEN q ELSE t[j].blocked]
Sound(m, q, t, n) ==
  /\ Laid(m, QsOf(q, t))
  /\ n \in Nat /\ DOMAIN t \subseteq 0..(n - 1)
  /\ t \in [DOMAIN t -> Sem]
  /\ Contents(m, q) \in Seq(DOMAIN t) /\ Apart(Contents(m, q))

Shape(m, q, t, n) ==
  /\ NULL \notin DOMAIN t /\ n \notin DOMAIN t /\ n # NULL
  /\ DOMAIN QsOf(q, t) = {NULL} \cup DOMAIN t
  /\ QsOf(q, t)[NULL] = q /\ \A i \in DOMAIN t : QsOf(q, t)[i] = t[i].blocked
  /\ DOMAIN View(m, QsOf(q, t)) = {NULL} \cup DOMAIN t
  /\ View(m, QsOf(q, t))[NULL] = Contents(m, q)
  /\ \A i \in DOMAIN t : View(m, QsOf(q, t))[i] = Contents(m, t[i].blocked)

LEMMA SoundFacts ==
  ASSUME NEW m, NEW q, NEW t, NEW n, Sound(m, q, t, n)
  PROVE  Shape(m, q, t, n)
  <1>1. NULL \notin DOMAIN t /\ n \notin DOMAIN t /\ n # NULL
    BY DEF Sound, NULL
  <1>2. /\ DOMAIN QsOf(q, t) = {NULL} \cup DOMAIN t
        /\ QsOf(q, t)[NULL] = q /\ \A i \in DOMAIN t : QsOf(q, t)[i] = t[i].blocked
    BY <1>1 DEF QsOf
  <1> QED BY <1>1, <1>2 DEF View, Shape

(* What Sound says of other values of the same shape.                       *)
LEMMA SoundIf ==
  ASSUME NEW m2, NEW q2, NEW t2, NEW n2 \in Nat, Laid(m2, QsOf(q2, t2)),
         t2 \in [DOMAIN t2 -> Sem], DOMAIN t2 \subseteq 0..(n2 - 1),
         NEW v, v \in Seq(DOMAIN t2), Apart(v), Contents(m2, q2) = v
  PROVE  Sound(m2, q2, t2, n2)
  BY DEF Sound

(* An operation on the queue of one semaphore, which holds w after it.      *)
OnlyWaiters(m, q, t, s, m2, t2, w) ==
  /\ Contents(m2, q) = Contents(m, q) /\ Contents(m2, t2[s].blocked) = w
  /\ \A i \in DOMAIN t \ {s} : Contents(m2, t2[i].blocked) = Contents(m, t[i].blocked)

Requeued(m, q, t, s, m2, q2, t2, w) ==
  /\ Laid(m2, Put(QsOf(q, t), s, q2))
  /\ View(m2, Put(QsOf(q, t), s, q2)) = Put(View(m, QsOf(q, t)), s, w)
  /\ t2 \in [DOMAIN t -> Sem] /\ t2[s].blocked = q2
  /\ \A i \in DOMAIN t \ {s} : t2[i].blocked = t[i].blocked

LEMMA PutSound ==
  ASSUME NEW m, NEW q, NEW t, NEW n, Sound(m, q, t, n), NEW s \in DOMAIN t,
         NEW m2, NEW q2, NEW t2, NEW w, Requeued(m, q, t, s, m2, q2, t2, w)
  PROVE  Sound(m2, q, t2, n) /\ OnlyWaiters(m, q, t, s, m2, t2, w)
  <1>0. PICK qs2 : qs2 = Put(QsOf(q, t), s, q2)
    OBVIOUS
  <1>01. Laid(m2, qs2) /\ View(m2, qs2) = Put(View(m, QsOf(q, t)), s, w)
    BY <1>0 DEF Requeued
  <1>02. /\ t2 \in [DOMAIN t -> Sem] /\ t2[s].blocked = q2
         /\ \A i \in DOMAIN t \ {s} : t2[i].blocked = t[i].blocked
    BY DEF Requeued
  <1>1. DOMAIN t2 = DOMAIN t
    BY <1>02
  <1>2. /\ NULL \notin DOMAIN t /\ DOMAIN QsOf(q, t) = {NULL} \cup DOMAIN t
        /\ QsOf(q, t)[NULL] = q /\ \A i \in DOMAIN t : QsOf(q, t)[i] = t[i].blocked
        /\ DOMAIN View(m, QsOf(q, t)) = {NULL} \cup DOMAIN t
        /\ View(m, QsOf(q, t))[NULL] = Contents(m, q)
        /\ \A i \in DOMAIN t : View(m, QsOf(q, t))[i] = Contents(m, t[i].blocked)
    <2>1. Shape(m, q, t, n)
      BY SoundFacts
    <2> QED BY <2>1 DEF Shape
  <1>3. /\ DOMAIN qs2 = {NULL} \cup DOMAIN t /\ qs2[NULL] = q
        /\ \A i \in DOMAIN t : qs2[i] = t2[i].blocked
    BY <1>0, <1>02, <1>2 DEF Put
  <1>4. qs2 = QsOf(q, t2)
    <2>1. QsOf(q, t2) = [j \in {NULL} \cup DOMAIN t |-> IF j = NULL THEN q ELSE t2[j].blocked]
      BY <1>1 DEF QsOf
    <2>2. qs2 = [j \in {NULL} \cup DOMAIN t |-> qs2[j]]
      BY <1>0, <1>2 DEF Put
    <2> QED BY <1>2, <1>3, <2>1, <2>2
  <1>5. View(m2, qs2) = Put(View(m, QsOf(q, t)), s, w)
    BY <1>01
  <1>6. /\ Contents(m2, q) = Contents(m, q)
        /\ Contents(m2, t2[s].blocked) = w
        /\ \A i \in DOMAIN t \ {s} : Contents(m2, t2[i].blocked) = Contents(m, t[i].blocked)
    <2>1. \A i \in {NULL} \cup DOMAIN t :
            Contents(m2, qs2[i]) = IF i = s THEN w ELSE View(m, QsOf(q, t))[i]
      <3>1. \A i \in {NULL} \cup DOMAIN t : View(m2, qs2)[i] = Contents(m2, qs2[i])
        BY <1>3 DEF View
      <3>2. \A i \in {NULL} \cup DOMAIN t :
              Put(View(m, QsOf(q, t)), s, w)[i] = IF i = s THEN w ELSE View(m, QsOf(q, t))[i]
        BY <1>2 DEF Put
      <3> QED BY <1>5, <3>1, <3>2
    <2> QED BY <1>2, <1>3, <2>1
  <1>7. Sound(m2, q, t2, n)
    BY <1>01, <1>02, <1>1, <1>4, <1>6 DEF Sound
  <1> QED BY <1>6, <1>7 DEF OnlyWaiters

LEMMA FieldSound ==
  ASSUME NEW m, NEW q, NEW t, NEW n, Sound(m, q, t, n),
         NEW t2 \in [DOMAIN t -> Sem], \A i \in DOMAIN t : t2[i].blocked = t[i].blocked,
         NEW n2 \in Nat, n <= n2
  PROVE  Sound(m, q, t2, n2)
  <1>1. DOMAIN t2 = DOMAIN t
    OBVIOUS
  <1>2. QsOf(q, t2) = QsOf(q, t)
    BY <1>1 DEF QsOf
  <1>3. DOMAIN t \subseteq 0..(n2 - 1)
    BY DEF Sound
  <1> QED BY <1>1, <1>2, <1>3 DEF Sound

(* createSem.                                                               *)
LEMMA CreateSound ==
  ASSUME NEW m, NEW q, NEW t, NEW n, Sound(m, q, t, n),
         NEW new \in Sem, new.blocked = EmptyQueue, NEW t2, t2 = Add(t, n, new)
  PROVE  /\ Sound(m, q, t2, n + 1)
         /\ Contents(m, new.blocked) = <<>>
         /\ Room(m) => LET r == Enqueue(m, q, n)
                       IN /\ Sound(r.mem, r.q, t2, n + 1)
                          /\ Contents(r.mem, r.q) = Append(Contents(m, q), n)
                          /\ Contents(r.mem, new.blocked) = <<>>
                          /\ \A i \in DOMAIN t : Contents(r.mem, t[i].blocked) = Contents(m, t[i].blocked)
  <1>0. PICK qs, qs2 : qs = QsOf(q, t) /\ qs2 = Add(qs, n, EmptyQueue)
    OBVIOUS
  <1>1. /\ NULL \notin DOMAIN t /\ n \notin DOMAIN t /\ n # NULL /\ n \in Nat
        /\ DOMAIN qs = {NULL} \cup DOMAIN t
        /\ qs[NULL] = q /\ \A i \in DOMAIN t : qs[i] = t[i].blocked
        /\ Laid(m, qs)
    BY <1>0, SoundFacts DEF Sound, Shape
  <1>2. /\ DOMAIN t2 = DOMAIN t \cup {n} /\ t2[n] = new /\ \A i \in DOMAIN t : t2[i] = t[i]
        /\ t2 \in [DOMAIN t2 -> Sem] /\ DOMAIN t2 \subseteq 0..((n + 1) - 1) /\ n + 1 \in Nat
    <2>1. DOMAIN t2 = DOMAIN t \cup {n} /\ t2[n] = new /\ \A i \in DOMAIN t : t2[i] = t[i]
      BY <1>1 DEF Add
    <2>2. t \in [DOMAIN t -> Sem] /\ DOMAIN t \subseteq 0..(n - 1)
      BY DEF Sound
    <2>3. t2 \in [DOMAIN t2 -> Sem]
      BY <2>1, <2>2 DEF Add
    <2>4. DOMAIN t2 \subseteq 0..((n + 1) - 1)
      BY <1>1, <2>1, <2>2
    <2> QED BY <1>1, <2>1, <2>3, <2>4
  <1>3. Laid(m, qs2) /\ View(m, qs2) = Add(View(m, qs), n, <<>>)
    BY <1>0, <1>1, AddLaid
  <1>4. /\ DOMAIN qs2 = {NULL} \cup DOMAIN t2 /\ qs2[NULL] = q /\ qs2[n] = EmptyQueue
        /\ \A i \in DOMAIN t : qs2[i] = t[i].blocked
    BY <1>0, <1>1, <1>2 DEF Add
  <1>5. \A p : Put(qs2, NULL, p) = QsOf(p, t2)
    BY <1>1, <1>2, <1>4 DEF Put, QsOf
  <1>6. qs2 = QsOf(q, t2)
    <2>1. Put(qs2, NULL, q) = qs2
      <3>1. qs2 = [i \in DOMAIN qs2 |-> qs2[i]]
        BY <1>0 DEF Add
      <3> QED BY <1>4, <3>1 DEF Put
    <2> QED BY <1>5, <2>1
  <1>7. Contents(m, q) \in Seq(DOMAIN t2) /\ Apart(Contents(m, q))
    <2>1. Contents(m, q) \in Seq(DOMAIN t) /\ Apart(Contents(m, q))
      BY DEF Sound
    <2> QED BY <1>2, <2>1
  <1>8. Sound(m, q, t2, n + 1)
    BY <1>2, <1>3, <1>6, <1>7, SoundIf
  <1>9. Contents(m, new.blocked) = <<>>
    <2>1. View(m, qs2)[n] = Contents(m, EmptyQueue)
      BY <1>4, <1>2 DEF View
    <2>2. View(m, qs2)[n] = <<>>
      BY <1>3 DEF Add
    <2> QED BY <2>1, <2>2
  <1>10. ASSUME Room(m), NEW r, r = Enqueue(m, q, n)
         PROVE  /\ Sound(r.mem, r.q, t2, n + 1)
                /\ Contents(r.mem, r.q) = Append(Contents(m, q), n)
                /\ Contents(r.mem, new.blocked) = <<>>
                /\ \A i \in DOMAIN t : Contents(r.mem, t[i].blocked) = Contents(m, t[i].blocked)
    <2>1. PICK m3, p, w : m3 = r.mem /\ p = r.q /\ w = Append(Contents(m, q), n)
      OBVIOUS
    <2>2. n \in Value /\ NULL \in DOMAIN qs2 /\ r = Enqueue(m, qs2[NULL], n)
      BY <1>1, <1>4, <1>10 DEF Value
    <2>3. /\ Laid(r.mem, Put(qs2, NULL, r.q))
          /\ View(r.mem, Put(qs2, NULL, r.q)) = Put(View(m, qs2), NULL, Append(View(m, qs2)[NULL], n))
      BY <1>3, <1>10, <2>2, EnqueueLaid
    <2>4. PICK qs3 : qs3 = QsOf(p, t2)
      OBVIOUS
    <2>5. View(m, qs2)[NULL] = Contents(m, q)
      BY <1>4, <2>2 DEF View
    <2>6. Laid(m3, qs3) /\ View(m3, qs3) = Put(View(m, qs2), NULL, w)
      BY <1>5, <2>1, <2>3, <2>4, <2>5
    <2>7. /\ DOMAIN qs3 = {NULL} \cup DOMAIN t2 /\ qs3[NULL] = p /\ qs3[n] = new.blocked
          /\ \A i \in DOMAIN t : qs3[i] = t[i].blocked
      BY <1>1, <1>2, <2>4 DEF QsOf
    <2>8. \A i \in {NULL} \cup DOMAIN t2 :
            Contents(m3, qs3[i]) = IF i = NULL THEN w ELSE View(m, qs2)[i]
      <3>1. \A i \in {NULL} \cup DOMAIN t2 : View(m3, qs3)[i] = Contents(m3, qs3[i])
        BY <2>7 DEF View
      <3>2. \A i \in {NULL} \cup DOMAIN t2 :
              Put(View(m, qs2), NULL, w)[i] = IF i = NULL THEN w ELSE View(m, qs2)[i]
        BY <1>4 DEF Put, View
      <3> QED BY <2>6, <3>1, <3>2
    <2>9. View(m, qs2)[n] = <<>> /\ \A i \in DOMAIN t : View(m, qs2)[i] = Contents(m, t[i].blocked)
      <3>1. View(m, qs2)[n] = <<>>
        BY <1>3 DEF Add
      <3>2. \A i \in DOMAIN t : View(m, qs2)[i] = Contents(m, qs2[i])
        BY <1>2, <1>4 DEF View
      <3> QED BY <1>4, <3>1, <3>2
    <2>10. /\ Contents(m3, p) = w /\ Contents(m3, new.blocked) = <<>>
           /\ \A i \in DOMAIN t : Contents(m3, t[i].blocked) = Contents(m, t[i].blocked)
      BY <1>1, <1>2, <2>7, <2>8, <2>9
    <2>11. w \in Seq(DOMAIN t2) /\ Apart(w)
      <3>1. PICK v : v = Contents(m, q)
        OBVIOUS
      <3>2. v \in Seq(DOMAIN t) /\ Apart(v) /\ w = Append(v, n)
        BY <2>1, <3>1 DEF Sound
      <3>3. w \in Seq(DOMAIN t \cup {n}) /\ Len(w) = Len(v) + 1 /\ w[Len(v) + 1] = n
            /\ \A k \in 1..Len(v) : w[k] = v[k]
        BY <3>2, AppendFacts
      <3>4. PICK L \in Nat : L = Len(v)
        BY <3>2
      <3>5. DOMAIN v = 1..L /\ DOMAIN w = 1..(L + 1) /\ \A k \in 1..L : v[k] \in DOMAIN t
        BY <3>2, <3>3, <3>4
      <3>6. \A k \in DOMAIN w : k = L + 1 \/ k \in DOMAIN v
        BY <3>5
      <3> QED BY <1>1, <1>2, <3>2, <3>3, <3>4, <3>5, <3>6 DEF Apart
    <2>12. Sound(m3, p, t2, n + 1)
      BY <1>2, <2>4, <2>6, <2>10, <2>11, SoundIf
    <2> QED BY <2>1, <2>10, <2>12
  <1> QED BY <1>8, <1>9, <1>10

(* semClose, when it destroys semaphore s.                                  *)
LEMMA DestroySound ==
  ASSUME NEW m, NEW q, NEW t, NEW n, Sound(m, q, t, n), NEW s \in Rng(Contents(m, q)),
         NEW r, r = TakeElement(m, q, s), NEW m2, m2 = FreeQueue(r.mem, t[s].blocked),
         NEW t2, t2 = Drop(t, s)
  PROVE  /\ Sound(m2, r.q, t2, n)
         /\ Rng(Contents(m2, r.q)) = Rng(Contents(m, q)) \ {s}
         /\ \A i \in DOMAIN t2 : Contents(m2, t[i].blocked) = Contents(m, t[i].blocked)
  <1>0. PICK qs, p, qs1, qs2 : qs = QsOf(q, t) /\ p = r.q /\ qs1 = Put(qs, NULL, p) /\ qs2 = Drop(qs1, s)
    OBVIOUS
  <1>1. PICK v : v = Contents(m, q)
    OBVIOUS
  <1>2. /\ NULL \notin DOMAIN t /\ DOMAIN qs = {NULL} \cup DOMAIN t
        /\ qs[NULL] = q /\ \A i \in DOMAIN t : qs[i] = t[i].blocked
        /\ DOMAIN View(m, qs) = {NULL} \cup DOMAIN t
        /\ View(m, qs)[NULL] = v
        /\ \A i \in DOMAIN t : View(m, qs)[i] = Contents(m, t[i].blocked)
    <2>1. Shape(m, q, t, n)
      BY SoundFacts
    <2> QED BY <1>0, <1>1, <2>1 DEF Shape
  <1>3. /\ Laid(m, qs) /\ v \in Seq(DOMAIN t) /\ Apart(v) /\ n \in Nat
        /\ DOMAIN t \subseteq 0..(n - 1) /\ t \in [DOMAIN t -> Sem]
    BY <1>0, <1>1 DEF Sound
  <1>4. PICK k \in DOMAIN v : v[k] = s
    BY <1>1, RngFacts
  <1>5. s \in DOMAIN t /\ s # NULL
    BY <1>2, <1>3, <1>4
  <1>6. \A i \in DOMAIN v : v[i] = s => i = k
    BY <1>3, <1>4 DEF Apart
  <1>7. Laid(r.mem, qs1) /\ View(r.mem, qs1) = Put(View(m, qs), NULL, Cut(v, k))
    <2>1. NULL \in DOMAIN qs /\ r = TakeElement(m, qs[NULL], s)
      BY <1>2
    <2>2. k \in DOMAIN View(m, qs)[NULL] /\ View(m, qs)[NULL][k] = s
          /\ \A i \in DOMAIN View(m, qs)[NULL] : View(m, qs)[NULL][i] = s => i = k
      BY <1>2, <1>4, <1>6
    <2>3. /\ Laid(r.mem, Put(qs, NULL, r.q))
          /\ View(r.mem, Put(qs, NULL, r.q)) = Put(View(m, qs), NULL, Cut(View(m, qs)[NULL], k))
      BY <1>3, <2>1, <2>2, TakeLaid
    <2> QED BY <1>0, <1>2, <2>3
  <1>8. DOMAIN qs1 = {NULL} \cup DOMAIN t /\ qs1[NULL] = p /\ \A i \in DOMAIN t : qs1[i] = t[i].blocked
    BY <1>0, <1>2 DEF Put
  <1>9. Laid(m2, qs2) /\ View(m2, qs2) = Drop(View(r.mem, qs1), s)
    BY <1>0, <1>5, <1>7, <1>8, DropLaid
  <1>10. DOMAIN t2 = DOMAIN t \ {s} /\ (\A i \in DOMAIN t2 : t2[i] = t[i]) /\ t2 \in [DOMAIN t2 -> Sem]
    BY <1>3 DEF Drop
  <1>11. qs2 = QsOf(p, t2)
    <2>1. qs2 = [i \in DOMAIN qs1 \ {s} |-> qs1[i]]
      BY <1>0 DEF Drop
    <2>2. DOMAIN qs1 \ {s} = {NULL} \cup DOMAIN t2
      BY <1>5, <1>8, <1>10
    <2>3. \A i \in {NULL} \cup DOMAIN t2 : qs1[i] = IF i = NULL THEN p ELSE t2[i].blocked
      BY <1>2, <1>8, <1>10
    <2> QED BY <2>1, <2>2, <2>3 DEF QsOf
  <1>12. \A i \in {NULL} \cup DOMAIN t2 :
           Contents(m2, qs2[i]) = IF i = NULL THEN Cut(v, k) ELSE View(m, qs)[i]
    <2>1. DOMAIN qs2 = {NULL} \cup DOMAIN t2
      BY <1>11 DEF QsOf
    <2>2. \A i \in {NULL} \cup DOMAIN t2 : View(m2, qs2)[i] = Contents(m2, qs2[i])
      BY <2>1 DEF View
    <2>3. \A i \in {NULL} \cup DOMAIN t2 : i \in {NULL} \cup DOMAIN t /\ i # s
      BY <1>5, <1>10
    <2>4. \A i \in {NULL} \cup DOMAIN t2 : Drop(View(r.mem, qs1), s)[i] = View(r.mem, qs1)[i]
      BY <1>8, <2>3 DEF Drop, View
    <2>5. \A i \in {NULL} \cup DOMAIN t2 :
            Put(View(m, qs), NULL, Cut(v, k))[i] = IF i = NULL THEN Cut(v, k) ELSE View(m, qs)[i]
      BY <1>2, <2>3 DEF Put
    <2> QED BY <1>7, <1>9, <2>2, <2>4, <2>5
  <1>13. /\ Contents(m2, p) = Cut(v, k)
         /\ \A i \in DOMAIN t2 : Contents(m2, t[i].blocked) = Contents(m, t[i].blocked)
    <2>1. qs2[NULL] = p /\ \A i \in DOMAIN t2 : qs2[i] = t[i].blocked /\ i # NULL /\ i \in DOMAIN t
      BY <1>2, <1>10, <1>11 DEF QsOf
    <2> QED BY <1>2, <1>12, <2>1
  <1>14. Apart(Cut(v, k)) /\ Rng(Cut(v, k)) = Rng(v) \ {s} /\ Cut(v, k) \in Seq(DOMAIN t)
    <2>1. PICK L \in Nat : L = Len(v)
      BY <1>3
    <2>2. v \in [1..L -> DOMAIN t] /\ k \in 1..L
      BY <1>3, <1>4, <2>1
    <2>3. Apart(Cut(v, k)) /\ Rng(Cut(v, k)) = Rng(v) \ {v[k]}
      BY <1>3, <2>2, CutRange, Zenon
    <2>4. Shorter(L, v, k, Cut(v, k)) /\ Cut(v, k) \in Seq(DOMAIN t)
      BY <2>2, CutFacts, Zenon
    <2> QED BY <1>4, <2>3, <2>4
  <1>15. Cut(v, k) \in Seq(DOMAIN t2)
    <2>1. PICK w : w = Cut(v, k)
      OBVIOUS
    <2>2. \A i \in DOMAIN w : w[i] \in DOMAIN t2
      <3> TAKE i \in DOMAIN w
      <3>1. w[i] \in Rng(w) /\ w[i] \in DOMAIN t
        BY <1>14, <2>1, RngFacts
      <3> QED BY <1>10, <1>14, <2>1, <3>1
    <2> QED BY <1>14, <2>1, <2>2
  <1>16. DOMAIN t2 \subseteq 0..(n - 1)
    BY <1>3, <1>10
  <1>17. Sound(m2, p, t2, n)
    BY <1>3, <1>9, <1>10, <1>11, <1>13, <1>14, <1>15, <1>16, SoundIf
  <1> QED BY <1>0, <1>1, <1>13, <1>14, <1>17

(* semWait puts c to sleep, and semPost takes the first k pids.             *)
LEMMA SleepSound ==
  ASSUME NEW m, NEW q, NEW t, NEW n, Sound(m, q, t, n), NEW s \in DOMAIN t, NEW c \in Client, Room(m),
         NEW r, r = Enqueue(m, t[s].blocked, c), NEW t2, t2 = [t EXCEPT ![s].blocked = r.q]
  PROVE  /\ Sound(r.mem, q, t2, n)
         /\ OnlyWaiters(m, q, t, s, r.mem, t2, Append(Contents(m, t[s].blocked), c))
  <1>0. PICK qs, w, m2, q2 : /\ qs = QsOf(q, t) /\ w = Append(Contents(m, t[s].blocked), c)
                             /\ m2 = r.mem /\ q2 = r.q
    OBVIOUS
  <1>1. /\ Laid(m, qs) /\ t \in [DOMAIN t -> Sem] /\ s \in DOMAIN qs /\ qs[s] = t[s].blocked
        /\ View(m, qs)[s] = Contents(m, t[s].blocked)
    <2>1. Shape(m, q, t, n)
      BY SoundFacts
    <2> QED BY <1>0, <2>1 DEF Shape, Sound
  <1>2. Laid(m2, Put(qs, s, q2)) /\ View(m2, Put(qs, s, q2)) = Put(View(m, qs), s, w)
    <2>1. c \in Value /\ r = Enqueue(m, qs[s], c)
      BY <1>1 DEF Value
    <2>2. /\ Laid(r.mem, Put(qs, s, r.q))
          /\ View(r.mem, Put(qs, s, r.q)) = Put(View(m, qs), s, Append(View(m, qs)[s], c))
      BY <1>1, <2>1, EnqueueLaid
    <2> QED BY <1>0, <1>1, <2>2
  <1>3. q2 \in QueueType
    <2>1. Chain(m2, Put(qs, s, q2)[s], NodesOf(m2, Put(qs, s, q2)[s]))
      BY <1>1, <1>2, LaidFacts, PutFacts
    <2>2. Put(qs, s, q2)[s] = q2
      BY <1>1, PutFacts
    <2> QED BY <2>1, <2>2 DEF Chain
  <1>4. t2 \in [DOMAIN t -> Sem] /\ t2[s].blocked = q2 /\ \A i \in DOMAIN t \ {s} : t2[i] = t[i]
    <2>1. t2 = [t EXCEPT ![s].blocked = q2]
      BY <1>0
    <2>2. t[s] \in Sem
      BY <1>1
    <2>3. [t[s] EXCEPT !.blocked = q2] \in Sem /\ [t[s] EXCEPT !.blocked = q2].blocked = q2
      BY <1>3, <2>2 DEF Sem
    <2> QED BY <1>1, <2>1, <2>3
  <1>5. Sound(m2, q, t2, n) /\ OnlyWaiters(m, q, t, s, m2, t2, w)
    <2>1. Laid(m2, Put(QsOf(q, t), s, q2)) /\ View(m2, Put(QsOf(q, t), s, q2)) = Put(View(m, QsOf(q, t)), s, w)
      BY <1>0, <1>2
    <2>2. \A i \in DOMAIN t \ {s} : t2[i].blocked = t[i].blocked
      BY <1>4
    <2>3. Requeued(m, q, t, s, m2, q2, t2, w)
      BY <1>4, <2>1, <2>2 DEF Requeued
    <2> QED BY <2>3, PutSound
  <1> QED BY <1>0, <1>5

-----------------------------------------------------------------------------
(* What each system call makes of the table.                                *)
TableInv == Sound(mem, semQueue, sems, semId)
Pids(i) == Contents(mem, sems[i].blocked)

LEMMA TableIs == Table = Rng(Contents(mem, semQueue)) /\ Table' = Rng(Contents(mem', semQueue'))
  BY DEF Table, Rng

LEMMA TableFacts ==
  ASSUME TableInv
  PROVE  /\ Table \subseteq DOMAIN sems /\ DOMAIN sems \subseteq 0..(semId - 1) /\ semId \in Nat
         /\ semId \notin DOMAIN sems /\ NULL \notin DOMAIN sems
         /\ sems \in [DOMAIN sems -> Sem]
         /\ \A i \in DOMAIN sems : Pids(i) \in Seq(Value)
  <1>1. Shape(mem, semQueue, sems, semId)
    BY SoundFacts DEF TableInv
  <1>2. Contents(mem, semQueue) \in Seq(DOMAIN sems)
    BY DEF TableInv, Sound
  <1>3. Table \subseteq DOMAIN sems
    BY <1>2, TableIs DEF Rng
  <1>4. ASSUME NEW i \in DOMAIN sems
        PROVE  Pids(i) \in Seq(Value)
    <2>1. Laid(mem, QsOf(semQueue, sems)) /\ i \in DOMAIN QsOf(semQueue, sems)
          /\ QsOf(semQueue, sems)[i] = sems[i].blocked
      BY <1>1 DEF TableInv, Sound, Shape
    <2>2. Contents(mem, QsOf(semQueue, sems)[i]) \in Seq(Value)
      BY <2>1, ContentsFacts
    <2> QED BY <2>1, <2>2 DEF Pids
  <1> QED BY <1>1, <1>3, <1>4 DEF TableInv, Sound, Shape

LEMMA FindSemIs ==
  ASSUME TableInv, NEW i
  PROVE  FindSem(i) = IF i \in Table THEN i ELSE NULL
  <1>1. PICK s : s = Contents(mem, semQueue)
    OBVIOUS
  <1>2. s \in Seq(Nat) /\ Table = Rng(s)
    <2>1. s \in Seq(DOMAIN sems) /\ \A j \in DOMAIN sems : j \in Nat
      BY <1>1 DEF TableInv, Sound
    <2>2. s \in Seq(Nat)
      BY <2>1
    <2> QED BY <1>1, <2>2, TableIs
  <1>3. /\ FindFirst(mem, semQueue, {i}) = NULL <=> Table \cap {i} = {}
        /\ FindFirst(mem, semQueue, {i}) # NULL => FindFirst(mem, semQueue, {i}) \in Table \cap {i}
    BY <1>1, <1>2, FindIs
  <1> QED BY <1>3 DEF FindSem

LEMMA FindSemNameIs ==
  ASSUME TableInv, NEW name, NEW s, s = FindSemName(name)
  PROVE  /\ s = NULL => \A i \in Table : Lower[sems[i].name] # Lower[name]
         /\ s # NULL => s \in Table /\ Lower[sems[s].name] = Lower[name]
  <1>1. PICK v : v = Contents(mem, semQueue)
    OBVIOUS
  <1>2. PICK W : W = {i \in DOMAIN sems : Lower[sems[i].name] = Lower[name]}
    OBVIOUS
  <1>3. v \in Seq(Nat) /\ Table = Rng(v)
    <2>1. v \in Seq(DOMAIN sems) /\ \A j \in DOMAIN sems : j \in Nat
      BY <1>1 DEF TableInv, Sound
    <2>2. v \in Seq(Nat)
      BY <2>1
    <2> QED BY <1>1, <2>2, TableIs
  <1>4. /\ FindFirst(mem, semQueue, W) = NULL <=> Table \cap W = {}
        /\ FindFirst(mem, semQueue, W) # NULL => FindFirst(mem, semQueue, W) \in Table \cap W
    BY <1>1, <1>3, FindIs
  <1>5. s = FindFirst(mem, semQueue, W)
    BY <1>2 DEF FindSemName
  <1>6. Table \subseteq DOMAIN sems
    BY TableFacts
  <1> QED BY <1>2, <1>4, <1>5, <1>6

(* createSem: a new semaphore, in the table or not.                         *)
NewSem(name, listed) ==
  /\ TableInv' /\ semId' = semId + 1
  /\ \E new \in Sem :
       /\ new.value = 1 /\ new.name = name /\ new.attached = 1
       /\ new.lock = FALSE /\ new.blocked = EmptyQueue
       /\ sems' = Add(sems, semId, new)
  /\ Table' = IF listed THEN Table \cup {semId} ELSE Table
  /\ \A i \in DOMAIN sems' : Pids(i)' = IF i \in DOMAIN sems THEN Pids(i) ELSE <<>>

LEMMA CreateStep ==
  ASSUME TableInv, NEW name \in Names, NEW listed \in BOOLEAN, listed => Room(mem),
         NEW hasQueue \in BOOLEAN, CreateSem(1, name, 1, listed, hasQueue)
  PROVE  NewSem(name, listed)
  <1>0. PICK new, r : /\ new = [value |-> 1, name |-> name, attached |-> 1, lock |-> FALSE,
                                hasQueue |-> hasQueue, blocked |-> EmptyQueue]
                      /\ r = Enqueue(mem, semQueue, semId)
    OBVIOUS
  <1>1. /\ sems' = Add(sems, semId, new) /\ semId' = semId + 1
        /\ IF listed THEN mem' = r.mem /\ semQueue' = r.q ELSE UNCHANGED <<mem, semQueue>>
    BY <1>0 DEF CreateSem, Add
  <1>2. /\ new \in Sem /\ new.value = 1 /\ new.name = name /\ new.attached = 1
        /\ new.lock = FALSE /\ new.blocked = EmptyQueue
    BY <1>0 DEF Sem, EmptyQueue, QueueType
  <1>3. listed \in BOOLEAN /\ (listed => Room(mem))
    OBVIOUS
  <1>4. Sound(mem, semQueue, sems, semId)
    BY DEF TableInv
  <1>5. /\ Sound(mem, semQueue, sems', semId + 1)
        /\ Contents(mem, new.blocked) = <<>>
        /\ Room(mem) => LET x == Enqueue(mem, semQueue, semId)
                        IN /\ Sound(x.mem, x.q, sems', semId + 1)
                           /\ Contents(x.mem, x.q) = Append(Contents(mem, semQueue), semId)
                           /\ Contents(x.mem, new.blocked) = <<>>
                           /\ \A i \in DOMAIN sems : Contents(x.mem, sems[i].blocked) = Contents(mem, sems[i].blocked)
    BY <1>1, <1>2, <1>4, CreateSound
  <1>6. /\ Sound(mem, semQueue, sems', semId + 1)
        /\ Contents(mem, new.blocked) = <<>>
        /\ listed => /\ Sound(r.mem, r.q, sems', semId + 1)
                     /\ Contents(r.mem, r.q) = Append(Contents(mem, semQueue), semId)
                     /\ Contents(r.mem, new.blocked) = <<>>
                     /\ \A i \in DOMAIN sems : Contents(r.mem, sems[i].blocked) = Contents(mem, sems[i].blocked)
    BY <1>0, <1>3, <1>5
  <1>7. /\ Sound(mem', semQueue', sems', semId + 1)
        /\ Contents(mem', new.blocked) = <<>>
        /\ \A i \in DOMAIN sems : Contents(mem', sems[i].blocked) = Contents(mem, sems[i].blocked)
        /\ Contents(mem', semQueue') = IF listed THEN Append(Contents(mem, semQueue), semId)
                                                 ELSE Contents(mem, semQueue)
    <2>1. CASE listed
      BY <1>1, <1>6, <2>1
    <2>2. CASE ~listed
      BY <1>1, <1>6, <2>2
    <2> QED BY <2>1, <2>2
  <1>8. sems'[semId] = new /\ \A i \in DOMAIN sems : sems'[i] = sems[i]
    BY <1>1, TableFacts DEF Add
  <1>9. Table' = IF listed THEN Table \cup {semId} ELSE Table
    <2>1. PICK v : v = Contents(mem, semQueue)
      OBVIOUS
    <2>2. v \in Seq(DOMAIN sems)
      BY <1>4, <2>1 DEF Sound
    <2>3. Rng(Append(v, semId)) = Rng(v) \cup {semId}
      <3>1. PICK L, w : L = Len(v) /\ w = Append(v, semId)
        OBVIOUS
      <3>2. /\ w \in Seq(DOMAIN sems \cup {semId}) /\ Len(w) = L + 1 /\ w[L + 1] = semId
            /\ \A k \in 1..L : w[k] = v[k]
        BY <2>2, <3>1, AppendFacts
      <3>3. L \in Nat /\ DOMAIN v = 1..L /\ DOMAIN w = 1..(L + 1)
        BY <2>2, <3>1, <3>2
      <3>4. \A k \in DOMAIN w : k = L + 1 \/ k \in DOMAIN v
        BY <3>3
      <3>5. \A k \in DOMAIN v : k \in DOMAIN w /\ w[k] = v[k]
        BY <3>2, <3>3
      <3>6. L + 1 \in DOMAIN w
        BY <3>3
      <3> QED BY <3>1, <3>2, <3>4, <3>5, <3>6 DEF Rng
    <2> QED BY <1>7, <2>1, <2>3, TableIs
  <1>10. DOMAIN sems' = DOMAIN sems \cup {semId}
    BY <1>1 DEF Add
  <1>11. \A i \in DOMAIN sems' : Pids(i)' = IF i \in DOMAIN sems THEN Pids(i) ELSE <<>>
    BY <1>7, <1>8, <1>10 DEF Pids
  <1>12. TableInv'
    BY <1>1, <1>7 DEF TableInv
  <1> QED BY <1>1, <1>2, <1>9, <1>11, <1>12 DEF NewSem

(* A semaphore of that name, in the table or not, where an identifier and   *)
(* a place in the memory are left.                                          *)
LEMMA CreatesStep ==
  ASSUME TableInv, NEW name \in Names, Creates(name)
  PROVE  \E listed \in BOOLEAN : NewSem(name, listed)
  <1>1. PICK listed \in BOOLEAN, hasQueue \in BOOLEAN :
          (listed => Room(mem)) /\ CreateSem(1, name, 1, listed, hasQueue)
    BY DEF Creates
  <1> QED BY <1>1, CreateStep

(* semClose: one semaphore less.                                            *)
GoneSem(s) ==
  /\ TableInv' /\ semId' = semId /\ sems' = Drop(sems, s) /\ Table' = Table \ {s}
  /\ \A i \in DOMAIN sems' : Pids(i)' = Pids(i)

LEMMA DestroyStep ==
  ASSUME TableInv, NEW s \in Table, NEW r, r = TakeElement(mem, semQueue, s),
         mem' = FreeQueue(r.mem, sems[s].blocked), semQueue' = r.q,
         sems' = [i \in DOMAIN sems \ {s} |-> sems[i]], semId' = semId
  PROVE  GoneSem(s)
  <1>1. sems' = Drop(sems, s) /\ s \in Rng(Contents(mem, semQueue))
    BY TableIs DEF Drop
  <1>2. PICK m2 : m2 = FreeQueue(r.mem, sems[s].blocked)
    OBVIOUS
  <1>3. /\ Sound(m2, r.q, sems', semId)
        /\ Rng(Contents(m2, r.q)) = Rng(Contents(mem, semQueue)) \ {s}
        /\ \A i \in DOMAIN sems' : Contents(m2, sems[i].blocked) = Contents(mem, sems[i].blocked)
    BY <1>1, <1>2, DestroySound DEF TableInv
  <1>4. TableInv' /\ Table' = Table \ {s}
    BY <1>2, <1>3, TableIs DEF TableInv
  <1>5. \A i \in DOMAIN sems' : sems'[i] = sems[i]
    BY <1>1 DEF Drop
  <1> QED BY <1>1, <1>2, <1>3, <1>4, <1>5 DEF GoneSem, Pids

(* What the other calls make of semaphore s.                                *)
SemChanged(s, value, attached, lock, w) ==
  /\ TableInv' /\ semId' = semId /\ Table' = Table /\ DOMAIN sems' = DOMAIN sems
  /\ \A i \in DOMAIN sems :
       /\ sems'[i].name = sems[i].name
       /\ sems'[i].value = IF i = s THEN value ELSE sems[i].value
       /\ sems'[i].attached = IF i = s THEN attached ELSE sems[i].attached
       /\ sems'[i].lock = IF i = s THEN lock ELSE sems[i].lock
       /\ Pids(i)' = IF i = s THEN w ELSE Pids(i)

LEMMA SemRecord ==
  ASSUME NEW x \in Sem
  PROVE  /\ \A v : [x EXCEPT !.value = v].value = v
                   /\ [x EXCEPT !.value = v].name = x.name /\ [x EXCEPT !.value = v].attached = x.attached
                   /\ [x EXCEPT !.value = v].lock = x.lock /\ [x EXCEPT !.value = v].blocked = x.blocked
         /\ \A v : [x EXCEPT !.attached = v].attached = v
                   /\ [x EXCEPT !.attached = v].name = x.name /\ [x EXCEPT !.attached = v].value = x.value
                   /\ [x EXCEPT !.attached = v].lock = x.lock /\ [x EXCEPT !.attached = v].blocked = x.blocked
         /\ \A v : [x EXCEPT !.lock = v].lock = v
                   /\ [x EXCEPT !.lock = v].name = x.name /\ [x EXCEPT !.lock = v].value = x.value
                   /\ [x EXCEPT !.lock = v].attached = x.attached /\ [x EXCEPT !.lock = v].blocked = x.blocked
         /\ \A v \in Int : [x EXCEPT !.value = v] \in Sem /\ [x EXCEPT !.attached = v] \in Sem
         /\ \A v \in BOOLEAN : [x EXCEPT !.lock = v] \in Sem
  BY DEF Sem

(* A call that leaves the queues alone: x is what becomes of the t_sem s.   *)
LEMMA FieldStep ==
  ASSUME TableInv, NEW s \in DOMAIN sems, NEW x \in Sem,
         x.name = sems[s].name, x.blocked = sems[s].blocked,
         sems' = [sems EXCEPT ![s] = x], UNCHANGED <<mem, semQueue, semId>>
  PROVE  SemChanged(s, x.value, x.attached, x.lock, Pids(s))
  <1>1. sems \in [DOMAIN sems -> Sem] /\ semId \in Nat
    BY TableFacts
  <1>2. /\ sems' \in [DOMAIN sems -> Sem] /\ DOMAIN sems' = DOMAIN sems
        /\ sems'[s] = x /\ \A i \in DOMAIN sems \ {s} : sems'[i] = sems[i]
    BY <1>1
  <1>3. \A i \in DOMAIN sems : sems'[i].blocked = sems[i].blocked
    BY <1>2
  <1>4. Sound(mem, semQueue, sems', semId)
    <2>1. semId <= semId
      BY <1>1
    <2> QED BY <1>1, <1>2, <1>3, <2>1, FieldSound DEF TableInv
  <1>5. TableInv' /\ Table' = Table
    BY <1>4, TableIs DEF TableInv
  <1>6. \A i \in DOMAIN sems : Pids(i)' = Pids(i)
    BY <1>3 DEF Pids
  <1> QED BY <1>2, <1>5, <1>6 DEF SemChanged

LEMMA SleepStep ==
  ASSUME TableInv, NEW s \in DOMAIN sems, NEW c \in Client, Room(mem),
         NEW r, r = Enqueue(mem, sems[s].blocked, c),
         sems' = [sems EXCEPT ![s].blocked = r.q], mem' = r.mem, UNCHANGED <<semQueue, semId>>
  PROVE  SemChanged(s, sems[s].value, sems[s].attached, sems[s].lock, Append(Pids(s), c))
  <1>1. sems \in [DOMAIN sems -> Sem]
    BY TableFacts
  <1>2. /\ Sound(r.mem, semQueue, sems', semId)
        /\ OnlyWaiters(mem, semQueue, sems, s, r.mem, sems', Append(Contents(mem, sems[s].blocked), c))
    BY SleepSound DEF TableInv
  <1>3. /\ DOMAIN sems' = DOMAIN sems
        /\ \A i \in DOMAIN sems : /\ sems'[i].name = sems[i].name /\ sems'[i].value = sems[i].value
                                  /\ sems'[i].attached = sems[i].attached /\ sems'[i].lock = sems[i].lock
    <2>1. sems' = [sems EXCEPT ![s] = [sems[s] EXCEPT !.blocked = r.q]]
      OBVIOUS
    <2>2. PICK x : x = [sems[s] EXCEPT !.blocked = r.q]
      OBVIOUS
    <2>3. x.name = sems[s].name /\ x.value = sems[s].value /\ x.attached = sems[s].attached /\ x.lock = sems[s].lock
      <3>1. sems[s] \in Sem
        BY <1>1
      <3> QED BY <2>2, <3>1 DEF Sem
    <2>4. sems' = [sems EXCEPT ![s] = x]
      BY <2>1, <2>2
    <2> QED BY <1>1, <2>3, <2>4
  <1>4. TableInv' /\ Table' = Table
    BY <1>2, TableIs DEF TableInv, OnlyWaiters
  <1>5. \A i \in DOMAIN sems : Pids(i)' = IF i = s THEN Append(Pids(s), c) ELSE Pids(i)
    BY <1>2 DEF Pids, OnlyWaiters
  <1> QED BY <1>3, <1>4, <1>5 DEF SemChanged

(* The pids a semPost passes: it stops at the first that is alive.          *)
Alive(p) == {k \in DOMAIN p : at[p[k]] # "dead"}
Passed(p) == IF Alive(p) = {} THEN Len(p) ELSE Min(Alive(p))

LEMMA PassedFacts ==
  ASSUME NEW S, NEW p \in Seq(S)
  PROVE  /\ Passed(p) \in Nat /\ Passed(p) <= Len(p)
         /\ Alive(p) = {} => Passed(p) = Len(p) /\ \A l \in 1..Len(p) : at[p[l]] = "dead"
         /\ Alive(p) # {} => /\ Passed(p) \in 1..Len(p) /\ at[p[Passed(p)]] # "dead"
                             /\ \A l \in 1..Len(p) : l < Passed(p) => at[p[l]] = "dead"
  <1>1. PICK L \in Nat : L = Len(p) /\ DOMAIN p = 1..L
    OBVIOUS
  <1>2. CASE Alive(p) = {}
    BY <1>1, <1>2 DEF Passed, Alive
  <1>3. CASE Alive(p) # {}
    <2>1. Alive(p) \in SUBSET Nat
      BY <1>1 DEF Alive
    <2>2. Passed(p) \in Alive(p) /\ \A l \in Alive(p) : Passed(p) <= l
      BY <1>3, <2>1, MinOf DEF Passed
    <2>3. Passed(p) \in 1..L /\ at[p[Passed(p)]] # "dead"
      BY <1>1, <2>2 DEF Alive
    <2>4. \A l \in 1..L : l < Passed(p) => at[p[l]] = "dead"
      <3> SUFFICES ASSUME NEW l \in 1..L, l < Passed(p), at[p[l]] # "dead" PROVE FALSE
        OBVIOUS
      <3>1. l \in Alive(p)
        BY <1>1 DEF Alive
      <3> QED BY <2>2, <2>3, <3>1
    <2> QED BY <1>1, <1>3, <2>3, <2>4
  <1> QED BY <1>2, <1>3

LEMMA WokenFacts ==
  ASSUME NEW s, NEW p, p = Pids(s), NEW S, p \in Seq(S), NEW w, w = Woken(s)
  PROVE  /\ Len(w) = Passed(p)
         /\ (w # <<>> /\ at[w[Len(w)]] # "dead") <=> Alive(p) # {}
         /\ Alive(p) # {} => w[Len(w)] = p[Passed(p)]
  <1>1. PICK L \in Nat : L = Len(p) /\ DOMAIN p = 1..L
    OBVIOUS
  <1>2. w = IF Alive(p) = {} THEN p ELSE SubSeq(p, 1, Min(Alive(p)))
    BY Zenon DEF Woken, Alive, Pids
  <1>3. CASE Alive(p) = {}
    <2>1. w = p /\ Passed(p) = L /\ \A l \in 1..L : at[p[l]] = "dead"
      BY <1>1, <1>2, <1>3, PassedFacts
    <2>2. p # <<>> => Len(p) \in 1..L
      BY <1>1
    <2> QED BY <1>1, <1>3, <2>1, <2>2
  <1>4. CASE Alive(p) # {}
    <2>1. PICK k : k = Passed(p)
      OBVIOUS
    <2>2. k \in 1..L /\ at[p[k]] # "dead" /\ w = SubSeq(p, 1, k)
      BY <1>1, <1>2, <1>4, <2>1, PassedFacts DEF Passed
    <2>3. Len(w) = k /\ w[k] = p[k]
      BY <1>1, <2>2
    <2>4. w # <<>>
      <3>1. k # 0
        BY <2>2
      <3>2. Len(w) # 0
        BY <2>3, <3>1
      <3> QED BY <3>2
    <2> QED BY <1>4, <2>1, <2>2, <2>3, <2>4
  <1> QED BY <1>3, <1>4

LEMMA PostStep ==
  ASSUME TableInv, NEW s \in DOMAIN sems, NEW to, Post(s, to), UNCHANGED <<semQueue, semId>>,
         NEW p, p = Pids(s)
  PROVE  /\ SemChanged(s, IF Alive(p) # {} THEN sems[s].value ELSE sems[s].value + 1,
                       sems[s].attached, sems[s].lock, Rest(p, Passed(p)))
         /\ at' = IF Alive(p) # {} THEN [to EXCEPT ![p[Passed(p)]] = "read"] ELSE to
  <1>0. PICK k : k = Passed(p)
    OBVIOUS
  <1>1. sems \in [DOMAIN sems -> Sem] /\ p \in Seq(Value) /\ semId \in Nat
    BY TableFacts
  <1>2. k \in Nat /\ k <= Len(p)
    BY <1>0, <1>1, PassedFacts
  <1>3. PICK w, r : w = Woken(s) /\ r = Dequeued(s, Len(w))
    OBVIOUS
  <1>4. /\ Len(w) = k
        /\ (w # <<>> /\ at[w[Len(w)]] # "dead") <=> Alive(p) # {}
        /\ Alive(p) # {} => w[Len(w)] = p[k]
    BY <1>0, <1>1, <1>3, WokenFacts
  <1>5. PICK v : v = IF Alive(p) # {} THEN sems[s].value ELSE sems[s].value + 1
    OBVIOUS
  <1>6. /\ mem' = r.mem
        /\ sems' = [sems EXCEPT ![s].blocked = r.q,
                                ![s].value = IF w # <<>> /\ at[w[Len(w)]] # "dead" THEN @ ELSE @ + 1]
        /\ at' = IF w # <<>> /\ at[w[Len(w)]] # "dead" THEN [to EXCEPT ![w[Len(w)]] = "read"] ELSE to
    BY <1>3, Zenon DEF Post
  <1>7. at' = IF Alive(p) # {} THEN [to EXCEPT ![p[k]] = "read"] ELSE to
    BY <1>4, <1>6
  <1>8. PICK x : x = [value |-> v, name |-> sems[s].name, attached |-> sems[s].attached,
                      lock |-> sems[s].lock, hasQueue |-> sems[s].hasQueue, blocked |-> r.q]
    OBVIOUS
  <1>9. PICK qs : qs = QsOf(semQueue, sems)
    OBVIOUS
  <1>10. /\ Laid(mem, qs) /\ s \in DOMAIN qs /\ qs[s] = sems[s].blocked /\ View(mem, qs)[s] = p
         /\ qs = [i \in DOMAIN qs |-> qs[i]]
    <2>1. Shape(mem, semQueue, sems, semId)
      BY SoundFacts DEF TableInv
    <2>2. qs = [i \in DOMAIN qs |-> qs[i]]
      BY <1>9 DEF QsOf
    <2> QED BY <1>9, <2>1, <2>2 DEF Shape, TableInv, Sound, Pids
  <1>11. PICK m2, q2, rest : m2 = r.mem /\ q2 = r.q /\ rest = Rest(p, k)
    OBVIOUS
  <1>12. Laid(m2, Put(qs, s, q2)) /\ View(m2, Put(qs, s, q2)) = Put(View(mem, qs), s, rest)
    <2>1. r = Dequeued(s, k) /\ k \in Nat /\ k <= Len(p) /\ p = View(mem, qs)[s]
      BY <1>2, <1>3, <1>4, <1>10
    <2>2. /\ Laid(r.mem, Put(qs, s, r.q))
          /\ View(r.mem, Put(qs, s, r.q)) = Put(View(mem, qs), s, Rest(p, k))
      BY <1>10, <2>1, DequeuedLaid
    <2> QED BY <1>11, <2>2
  <1>13. q2 \in QueueType
    <2>1. Chain(m2, Put(qs, s, q2)[s], NodesOf(m2, Put(qs, s, q2)[s]))
      BY <1>10, <1>12, LaidFacts, PutFacts
    <2>2. Put(qs, s, q2)[s] = q2
      BY <1>10, PutFacts
    <2> QED BY <2>1, <2>2 DEF Chain
  <1>14. sems[s] \in Sem /\ x \in Sem
    <2>1. sems[s] \in Sem
      BY <1>1
    <2> QED BY <1>5, <1>8, <1>11, <1>13, <2>1 DEF Sem
  <1>15. sems' = [sems EXCEPT ![s] = x]
    <2>1. sems[s] = [value |-> sems[s].value, name |-> sems[s].name, attached |-> sems[s].attached,
                     lock |-> sems[s].lock, hasQueue |-> sems[s].hasQueue, blocked |-> sems[s].blocked]
      BY <1>14 DEF Sem
    <2>2. PICK b : b = (w # <<>> /\ at[w[Len(w)]] # "dead")
      OBVIOUS
    <2>3. v = IF b THEN sems[s].value ELSE sems[s].value + 1
      BY <1>4, <1>5, <2>2
    <2>4. sems' = [sems EXCEPT ![s].blocked = r.q, ![s].value = IF b THEN @ ELSE @ + 1]
      BY <1>6, <2>2
    <2>5. sems' = [sems EXCEPT ![s] = [[sems[s] EXCEPT !.blocked = r.q] EXCEPT !.value = v]]
      BY <1>1, <2>3, <2>4
    <2>6. [[sems[s] EXCEPT !.blocked = r.q] EXCEPT !.value = v] = x
      <3>1. PICK y, u : y = [u EXCEPT !.blocked = r.q] /\ u = sems[s]
        OBVIOUS
      <3>2. y = [value |-> u.value, name |-> u.name, attached |-> u.attached,
                 lock |-> u.lock, hasQueue |-> u.hasQueue, blocked |-> r.q]
        BY <2>1, <3>1
      <3>3. [y EXCEPT !.value = v] = [value |-> v, name |-> u.name, attached |-> u.attached,
                                      lock |-> u.lock, hasQueue |-> u.hasQueue, blocked |-> r.q]
        BY <3>2
      <3> QED BY <1>8, <3>1, <3>3
    <2> QED BY <2>5, <2>6
  <1>16. /\ sems' \in [DOMAIN sems -> Sem] /\ DOMAIN sems' = DOMAIN sems
         /\ sems'[s] = x /\ \A i \in DOMAIN sems \ {s} : sems'[i] = sems[i]
    BY <1>1, <1>14, <1>15
  <1>17. Requeued(mem, semQueue, sems, s, m2, q2, sems', rest)
    BY <1>8, <1>9, <1>11, <1>12, <1>16 DEF Requeued
  <1>18. Sound(m2, semQueue, sems', semId) /\ OnlyWaiters(mem, semQueue, sems, s, m2, sems', rest)
    BY <1>17, PutSound DEF TableInv
  <1>19. TableInv' /\ Table' = Table /\ \A i \in DOMAIN sems : Pids(i)' = IF i = s THEN rest ELSE Pids(i)
    BY <1>6, <1>11, <1>18, TableIs DEF TableInv, OnlyWaiters, Pids
  <1>20. \A i \in DOMAIN sems :
            /\ sems'[i].name = sems[i].name
            /\ sems'[i].value = IF i = s THEN v ELSE sems[i].value
            /\ sems'[i].attached = sems[i].attached
            /\ sems'[i].lock = sems[i].lock
    BY <1>8, <1>16
  <1>21. SemChanged(s, v, sems[s].attached, sems[s].lock, rest)
    BY <1>16, <1>19, <1>20 DEF SemChanged
  <1> QED BY <1>0, <1>5, <1>7, <1>11, <1>21

(* A call that makes no semaphore, or does not change any.                  *)
NoSem ==
  /\ TableInv' /\ sems' = sems /\ Table' = Table /\ semId' \in {semId, semId + 1}
  /\ \A i \in DOMAIN sems : Pids(i)' = Pids(i)
Still == NoSem /\ semId' = semId

LEMMA NoSemStep ==
  ASSUME TableInv, UNCHANGED <<mem, semQueue, sems>>, semId' \in {semId, semId + 1}
  PROVE  NoSem
  <1>1. sems \in [DOMAIN sems -> Sem] /\ semId \in Nat
    BY TableFacts
  <1>2. semId' \in Nat /\ semId <= semId'
    BY <1>1
  <1>3. Sound(mem, semQueue, sems, semId')
    BY <1>1, <1>2, FieldSound DEF TableInv
  <1>4. TableInv' /\ Table' = Table
    BY <1>3, TableIs DEF TableInv
  <1> QED BY <1>4 DEF NoSem, Pids

LEMMA StillStep ==
  ASSUME TableInv, UNCHANGED sysVars
  PROVE  Still
  BY NoSemStep DEF Still, sysVars

(* The actions, as what they do to the table and to the processes.  A call  *)
(* may miss a semaphore, whose name is then in missed.                      *)
Lost(c) == id[c] \notin Table \/ Cell(c) \in missed'
OpenDoes(c) ==
  /\ c \in Opener /\ at[c] = "start" /\ UNCHANGED <<left, aux, global>> /\ missed \subseteq missed'
  /\ \/ \E s \in Table :
          /\ Lower[sems[s].name] = Cell(c)
          /\ SemChanged(s, sems[s].value, sems[s].attached + 1, sems[s].lock, Pids(s))
          /\ id' = [id EXCEPT ![c] = s] /\ Goes(c, "wait")
     \/ \E listed \in BOOLEAN :
          /\ Cell(c) \notin missed' => \A i \in Table : Lower[sems[i].name] # Cell(c)
          /\ NewSem(Spelling[c], listed)
          /\ id' = [id EXCEPT ![c] = semId] /\ Goes(c, "wait")
     \/ NoSem /\ UNCHANGED id /\ Goes(c, "done")
InitDoes ==
  /\ at[Owner] = "start" /\ UNCHANGED <<left, aux, global>> /\ missed \subseteq missed'
  /\ \/ \E listed \in BOOLEAN :
          /\ NewSem(Unnamed, listed)
          /\ id' = [c \in Client |-> IF c = Owner \/ at[c] = "idle" THEN semId ELSE id[c]]
          /\ at' = [c \in Client |-> IF c = Owner THEN "close"
                                     ELSE IF at[c] = "idle" THEN "wait" ELSE at[c]]
     \/ NoSem /\ UNCHANGED id /\ Goes(Owner, "done")
CloseDoes(c) ==
  /\ at[c] = "close" /\ Goes(c, "done") /\ UNCHANGED <<id, left, aux, global>> /\ missed \subseteq missed'
  /\ \/ Lost(c) /\ Still
     \/ /\ id[c] \in Table /\ (sems[id[c]].name = Unnamed \/ sems[id[c]].attached = 1)
        /\ GoneSem(id[c])
     \/ /\ id[c] \in Table /\ sems[id[c]].name # Unnamed /\ sems[id[c]].attached # 1
        /\ SemChanged(id[c], sems[id[c]].value, sems[id[c]].attached - 1, sems[id[c]].lock, Pids(id[c]))
WaitDoes(c) ==
  /\ at[c] = "wait" /\ UNCHANGED <<id, left, aux, global>> /\ missed \subseteq missed'
  /\ \/ Lost(c) /\ Goes(c, "read") /\ Still
     \/ id[c] \in Table /\ Goes(c, "halts") /\ Still
     \/ "node" \in Faults /\ UNCHANGED sysVars /\ Goes(c, "asleep") /\ Still
     \/ /\ id[c] \in Table /\ ~sems[id[c]].lock /\ sems[id[c]].value > 0 /\ Goes(c, "read")
        /\ SemChanged(id[c], sems[id[c]].value - 1, sems[id[c]].attached, sems[id[c]].lock, Pids(id[c]))
     \/ /\ id[c] \in Table /\ ~sems[id[c]].lock /\ sems[id[c]].value = 0 /\ Goes(c, "asleep")
        /\ SemChanged(id[c], sems[id[c]].value, sems[id[c]].attached, sems[id[c]].lock, Append(Pids(id[c]), c))
     \/ /\ id[c] \in Table /\ ~sems[id[c]].lock /\ sems[id[c]].value = 0 /\ Goes(c, "read")
        /\ SemChanged(id[c], sems[id[c]].value, sems[id[c]].attached, TRUE, Pids(id[c]))
AfterPost(c) == [at EXCEPT ![c] = IF left[c] # 1 THEN "wait" ELSE IF c \in Guest THEN "done" ELSE "close"]
PostDoes(c) ==
  /\ at[c] = "write" /\ UNCHANGED id /\ missed \subseteq missed'
  /\ global' = [global EXCEPT ![Cell(c)] = aux[c] + Amount[c]] /\ aux' = [aux EXCEPT ![c] = 0]
  /\ left' = [left EXCEPT ![c] = @ - 1]
  /\ \/ id[c] \in Table /\ Goes(c, "halts") /\ Still
     \/ Lost(c) /\ at' = AfterPost(c) /\ Still
     \/ /\ id[c] \in Table /\ ~sems[id[c]].lock
        /\ SemChanged(id[c], IF Alive(Pids(id[c])) # {} THEN sems[id[c]].value ELSE sems[id[c]].value + 1,
                      sems[id[c]].attached, sems[id[c]].lock, Rest(Pids(id[c]), Passed(Pids(id[c]))))
        /\ at' = IF Alive(Pids(id[c])) # {}
                 THEN [AfterPost(c) EXCEPT ![Pids(id[c])[Passed(Pids(id[c]))]] = "read"] ELSE AfterPost(c)
ReadDoes(c) ==
  /\ at[c] = "read" /\ Goes(c, "write") /\ Still /\ UNCHANGED <<id, left, global, missed>>
  /\ aux' = [aux EXCEPT ![c] = global[Cell(c)]]
KillDoes(c) ==
  /\ at[c] \in {"wait", "asleep", "write"} /\ Goes(c, "dead") /\ Still
  /\ UNCHANGED <<id, left, aux, global, missed>>

(* find answers the semaphore of that identifier, if it is in the table and *)
(* find has memory.                                                         *)
LEMMA FoundIs ==
  ASSUME TableInv, NEW c \in Client, NEW s \in Found(FindSem(id[c])), Misses(c, s, FindSem(id[c]))
  PROVE  /\ missed \subseteq missed'
         /\ s = NULL => Lost(c)
         /\ s # NULL => s = id[c] /\ s \in Table /\ s \in DOMAIN sems /\ sems[s] \in Sem
  <1>1. PICK f : f = FindSem(id[c])
    OBVIOUS
  <1>2. s \in {f, NULL} /\ missed' = IF s = f THEN missed ELSE missed \cup {Cell(c)}
    BY <1>1 DEF Found, Answers, Misses
  <1>3. f = (IF id[c] \in Table THEN id[c] ELSE NULL) /\ NULL \notin Table
    BY <1>1, FindSemIs, TableFacts
  <1>4. CASE s = f
    BY <1>2, <1>3, <1>4, TableFacts DEF Lost
  <1>5. CASE s # f
    <2>1. s = NULL /\ Cell(c) \in missed' /\ missed \subseteq missed'
      BY <1>2, <1>5
    <2> QED BY <2>1 DEF Lost
  <1> QED BY <1>4, <1>5

LEMMA OpenStep ==
  ASSUME TableInv, NEW c \in Client, SemOpen(c)
  PROVE  OpenDoes(c)
  <1>1. PICK f, s : /\ f = FindSemName(Spelling[c]) /\ s \in Found(f) /\ Misses(c, s, f)
                    /\ IF s # NULL
                       THEN /\ sems' = [sems EXCEPT ![s].attached = @ + 1]
                            /\ id' = [id EXCEPT ![c] = s] /\ Goes(c, "wait")
                            /\ UNCHANGED <<mem, semQueue, semId>>
                       ELSE \/ Creates(Spelling[c]) /\ id' = [id EXCEPT ![c] = semId] /\ Goes(c, "wait")
                            \/ CreateFails /\ Goes(c, "done") /\ UNCHANGED id
    BY DEF SemOpen
  <1>2. c \in Opener /\ at[c] = "start" /\ UNCHANGED <<left, aux, global>> /\ Cell(c) = Lower[Spelling[c]]
    BY DEF SemOpen, Cell
  <1>3. /\ f = NULL => \A i \in Table : Lower[sems[i].name] # Cell(c)
        /\ f # NULL => f \in Table /\ Lower[sems[f].name] = Cell(c)
    BY <1>1, <1>2, FindSemNameIs
  <1>4. /\ missed \subseteq missed' /\ s \in {f, NULL}
        /\ Cell(c) \notin missed' => s = f
    BY <1>1 DEF Found, Answers, Misses
  <1>5. CASE s # NULL
    <2>1. /\ sems' = [sems EXCEPT ![s].attached = @ + 1]
          /\ id' = [id EXCEPT ![c] = s] /\ Goes(c, "wait") /\ UNCHANGED <<mem, semQueue, semId>>
      BY <1>1, <1>5
    <2>2. s = f /\ s \in Table /\ s \in DOMAIN sems /\ sems[s] \in Sem
      BY <1>3, <1>4, <1>5, TableFacts
    <2>3. PICK y, v : y = sems[s] /\ v = y.attached + 1
      OBVIOUS
    <2>9. y \in Sem /\ v \in Int
      <3>1. y \in Sem
        BY <2>2, <2>3
      <3>2. y.attached \in Int
        BY <3>1 DEF Sem
      <3> QED BY <2>3, <3>1, <3>2
    <2>4. PICK x : x = [y EXCEPT !.attached = v]
      OBVIOUS
    <2>5. /\ x \in Sem /\ x.name = y.name /\ x.value = y.value
          /\ x.attached = v /\ x.lock = y.lock /\ x.blocked = y.blocked
      BY <2>4, <2>9 DEF Sem
    <2>6. sems' = [sems EXCEPT ![s] = x]
      BY <2>1, <2>3, <2>4
    <2>7. SemChanged(s, x.value, x.attached, x.lock, Pids(s))
      <3>1. x.name = sems[s].name /\ x.blocked = sems[s].blocked
        BY <2>3, <2>5
      <3> QED BY <2>1, <2>2, <2>5, <2>6, <3>1, FieldStep
    <2>8. SemChanged(s, sems[s].value, sems[s].attached + 1, sems[s].lock, Pids(s))
      BY <2>3, <2>5, <2>7
    <2> QED BY <1>2, <1>3, <1>4, <1>5, <2>1, <2>2, <2>8 DEF OpenDoes
  <1>6. CASE s = NULL
    <2>1. \/ Creates(Spelling[c]) /\ id' = [id EXCEPT ![c] = semId] /\ Goes(c, "wait")
          \/ CreateFails /\ Goes(c, "done") /\ UNCHANGED id
      BY <1>1, <1>6
    <2>2. Cell(c) \notin missed' => \A i \in Table : Lower[sems[i].name] # Cell(c)
      BY <1>3, <1>4, <1>6
    <2>3. ASSUME Creates(Spelling[c]), id' = [id EXCEPT ![c] = semId], Goes(c, "wait")
          PROVE  OpenDoes(c)
      <3>1. Spelling[c] \in Names
        BY <1>2 DEF Names
      <3>2. \E listed \in BOOLEAN : NewSem(Spelling[c], listed)
        BY <2>3, <3>1, CreatesStep
      <3> QED BY <1>2, <1>4, <2>2, <2>3, <3>2 DEF OpenDoes
    <2>4. ASSUME CreateFails, Goes(c, "done"), UNCHANGED id
          PROVE  OpenDoes(c)
      <3>1. NoSem
        BY <2>4, NoSemStep DEF CreateFails, sysVars
      <3> QED BY <1>2, <1>4, <2>4, <3>1 DEF OpenDoes
    <2> QED BY <2>1, <2>3, <2>4
  <1> QED BY <1>5, <1>6

LEMMA InitStep ==
  ASSUME TableInv, SemInit
  PROVE  InitDoes
  <1>1. at[Owner] = "start" /\ UNCHANGED <<left, aux, global, missed>>
    BY DEF SemInit
  <1>2. \/ /\ Creates(Unnamed)
           /\ id' = [c \in Client |-> IF c = Owner \/ at[c] = "idle" THEN semId ELSE id[c]]
           /\ at' = [c \in Client |-> IF c = Owner THEN "close"
                                      ELSE IF at[c] = "idle" THEN "wait" ELSE at[c]]
        \/ CreateFails /\ Goes(Owner, "done") /\ UNCHANGED id
    BY DEF SemInit
  <1>3. Creates(Unnamed) => \E listed \in BOOLEAN : NewSem(Unnamed, listed)
    BY CreatesStep DEF Names
  <1>4. CreateFails => NoSem
    BY NoSemStep DEF CreateFails, sysVars
  <1> QED BY <1>1, <1>2, <1>3, <1>4 DEF InitDoes

LEMMA CloseStep ==
  ASSUME TableInv, NEW c \in Client, SemClose(c)
  PROVE  CloseDoes(c)
  <1>1. PICK s \in Found(FindSem(id[c])) :
          /\ Misses(c, s, FindSem(id[c]))
          /\ IF s = NULL THEN UNCHANGED sysVars
             ELSE IF sems[s].name = Unnamed \/ sems[s].attached = 1
             THEN /\ sems' = [i \in DOMAIN sems \ {s} |-> sems[i]]
                  /\ mem' = FreeQueue(TakeElement(mem, semQueue, s).mem, sems[s].blocked)
                  /\ semQueue' = TakeElement(mem, semQueue, s).q
                  /\ UNCHANGED semId
             ELSE sems' = [sems EXCEPT ![s].attached = @ - 1] /\ UNCHANGED <<mem, semQueue, semId>>
    BY Zenon DEF SemClose
  <1>2. at[c] = "close" /\ Goes(c, "done") /\ UNCHANGED <<id, left, aux, global>>
    BY DEF SemClose
  <1>3. /\ missed \subseteq missed' /\ (s = NULL => Lost(c))
        /\ s # NULL => s = id[c] /\ s \in Table /\ s \in DOMAIN sems /\ sems[s] \in Sem
    BY <1>1, FoundIs
  <1>4. CASE s = NULL
    <2>1. Still
      BY <1>1, <1>4, StillStep
    <2> QED BY <1>2, <1>3, <1>4, <2>1 DEF CloseDoes
  <1>5. CASE s # NULL /\ (sems[s].name = Unnamed \/ sems[s].attached = 1)
    <2>1. PICK r : r = TakeElement(mem, semQueue, s)
      OBVIOUS
    <2>2. /\ sems' = [i \in DOMAIN sems \ {s} |-> sems[i]]
          /\ mem' = FreeQueue(r.mem, sems[s].blocked) /\ semQueue' = r.q /\ semId' = semId
      BY <1>1, <1>5, <2>1
    <2>3. GoneSem(s)
      BY <1>3, <1>5, <2>1, <2>2, DestroyStep
    <2> QED BY <1>2, <1>3, <1>5, <2>3 DEF CloseDoes
  <1>6. CASE s # NULL /\ ~(sems[s].name = Unnamed \/ sems[s].attached = 1)
    <2>1. s = id[c] /\ s \in Table /\ s \in DOMAIN sems /\ sems[s] \in Sem
      BY <1>3, <1>6
    <2>2. sems' = [sems EXCEPT ![s].attached = @ - 1] /\ UNCHANGED <<mem, semQueue, semId>>
      BY <1>1, <1>6
    <2>3. PICK v \in Int : v = sems[s].attached - 1
      BY <2>1 DEF Sem
    <2>4. PICK x : x = [sems[s] EXCEPT !.attached = v]
      OBVIOUS
    <2>5. /\ x \in Sem /\ x.name = sems[s].name /\ x.value = sems[s].value
          /\ x.attached = v /\ x.lock = sems[s].lock /\ x.blocked = sems[s].blocked
      BY <2>1, <2>4, SemRecord
    <2>6. sems' = [sems EXCEPT ![s] = x]
      BY <2>2, <2>3, <2>4
    <2>7. SemChanged(s, x.value, x.attached, x.lock, Pids(s))
      BY <2>1, <2>2, <2>5, <2>6, FieldStep
    <2>8. SemChanged(s, sems[s].value, sems[s].attached - 1, sems[s].lock, Pids(s))
      BY <2>3, <2>5, <2>7
    <2> QED BY <1>2, <1>3, <1>6, <2>1, <2>8 DEF CloseDoes
  <1> QED BY <1>4, <1>5, <1>6

LEMMA WaitStep ==
  ASSUME TableInv, NEW c \in Client, SemWait(c)
  PROVE  WaitDoes(c)
  <1>1. PICK s \in Found(FindSem(id[c])) :
          /\ Misses(c, s, FindSem(id[c]))
          /\ \/ s = NULL /\ Goes(c, "read") /\ UNCHANGED sysVars
             \/ s # NULL /\ sems[s].lock /\ Goes(c, "halts") /\ UNCHANGED sysVars
             \/ /\ s # NULL /\ ~sems[s].lock /\ sems[s].value > 0
                /\ sems' = [sems EXCEPT ![s].value = @ - 1]
                /\ Goes(c, "read") /\ UNCHANGED <<mem, semQueue, semId>>
             \/ s # NULL /\ ~sems[s].lock /\ sems[s].value = 0 /\ Block(c, s)
    BY DEF SemWait
  <1>2. at[c] = "wait" /\ UNCHANGED <<id, left, aux, global>>
    BY DEF SemWait
  <1>3. /\ missed \subseteq missed' /\ (s = NULL => Lost(c))
        /\ s # NULL => s = id[c] /\ s \in Table /\ s \in DOMAIN sems /\ sems[s] \in Sem
    BY <1>1, FoundIs
  <1>4. CASE s = NULL /\ Goes(c, "read") /\ UNCHANGED sysVars
    <2>1. Still
      BY <1>4, StillStep
    <2> QED BY <1>2, <1>3, <1>4, <2>1 DEF WaitDoes
  <1>5. CASE s # NULL /\ Goes(c, "halts") /\ UNCHANGED sysVars
    <2>1. Still
      BY <1>5, StillStep
    <2> QED BY <1>2, <1>3, <1>5, <2>1 DEF WaitDoes
  <1>6. CASE s # NULL /\ "node" \in Faults /\ Goes(c, "asleep") /\ UNCHANGED sysVars
    <2>1. Still
      BY <1>6, StillStep
    <2> QED BY <1>2, <1>3, <1>6, <2>1 DEF WaitDoes
  <1>7. CASE /\ s # NULL /\ ~sems[s].lock /\ sems[s].value > 0
             /\ sems' = [sems EXCEPT ![s].value = @ - 1]
             /\ Goes(c, "read") /\ UNCHANGED <<mem, semQueue, semId>>
    <2>1. PICK v \in Int : v = sems[s].value - 1
      BY <1>3, <1>7 DEF Sem
    <2>2. PICK x : x = [sems[s] EXCEPT !.value = v]
      OBVIOUS
    <2>3. /\ x \in Sem /\ x.name = sems[s].name /\ x.value = v
          /\ x.attached = sems[s].attached /\ x.lock = sems[s].lock /\ x.blocked = sems[s].blocked
      BY <1>3, <1>7, <2>2, SemRecord
    <2>4. sems' = [sems EXCEPT ![s] = x]
      BY <1>7, <2>1, <2>2
    <2>5. SemChanged(s, x.value, x.attached, x.lock, Pids(s))
      BY <1>3, <1>7, <2>3, <2>4, FieldStep
    <2>6. SemChanged(s, sems[s].value - 1, sems[s].attached, sems[s].lock, Pids(s))
      BY <2>1, <2>3, <2>5
    <2> QED BY <1>2, <1>3, <1>7, <2>6 DEF WaitDoes
  <1>8. CASE /\ s # NULL /\ ~sems[s].lock /\ sems[s].value = 0 /\ Room(mem)
             /\ sems' = [sems EXCEPT ![s].blocked = Enqueue(mem, sems[s].blocked, c).q]
             /\ mem' = Enqueue(mem, sems[s].blocked, c).mem
             /\ Goes(c, "asleep") /\ UNCHANGED <<semQueue, semId>>
    <2>1. SemChanged(s, sems[s].value, sems[s].attached, sems[s].lock, Append(Pids(s), c))
      BY <1>3, <1>8, SleepStep
    <2> QED BY <1>2, <1>3, <1>8, <2>1 DEF WaitDoes
  <1>9. CASE /\ s # NULL /\ ~sems[s].lock /\ sems[s].value = 0
             /\ sems' = [sems EXCEPT ![s].lock = TRUE]
             /\ Goes(c, "read") /\ UNCHANGED <<mem, semQueue, semId>>
    <2>1. PICK x : x = [sems[s] EXCEPT !.lock = TRUE]
      OBVIOUS
    <2>2. /\ x \in Sem /\ x.name = sems[s].name /\ x.value = sems[s].value
          /\ x.attached = sems[s].attached /\ x.lock = TRUE /\ x.blocked = sems[s].blocked
      BY <1>3, <1>9, <2>1, SemRecord
    <2>3. sems' = [sems EXCEPT ![s] = x]
      BY <1>9, <2>1
    <2>4. SemChanged(s, x.value, x.attached, x.lock, Pids(s))
      BY <1>3, <1>9, <2>2, <2>3, FieldStep
    <2>5. SemChanged(s, sems[s].value, sems[s].attached, TRUE, Pids(s))
      BY <2>2, <2>4
    <2> QED BY <1>2, <1>3, <1>9, <2>5 DEF WaitDoes
  <1>10. Block(c, s) =>
           \/ /\ sems' = [sems EXCEPT ![s].lock = TRUE]
              /\ Goes(c, "read") /\ UNCHANGED <<mem, semQueue, semId>>
           \/ "node" \in Faults /\ Goes(c, "asleep") /\ UNCHANGED sysVars
           \/ Goes(c, "halts") /\ UNCHANGED sysVars
           \/ /\ Room(mem) /\ sems' = [sems EXCEPT ![s].blocked = Enqueue(mem, sems[s].blocked, c).q]
              /\ mem' = Enqueue(mem, sems[s].blocked, c).mem
              /\ Goes(c, "asleep") /\ UNCHANGED <<semQueue, semId>>
    BY Zenon DEF Block
  <1> QED BY <1>1, <1>4, <1>5, <1>6, <1>7, <1>8, <1>9, <1>10

LEMMA PostedStep ==
  ASSUME TableInv, NEW c \in Client, SemPost(c)
  PROVE  PostDoes(c)
  <1>1. PICK to : to = AfterPost(c)
    OBVIOUS
  <1>2. /\ at[c] = "write" /\ UNCHANGED id /\ left' = [left EXCEPT ![c] = @ - 1]
        /\ global' = [global EXCEPT ![Cell(c)] = aux[c] + Amount[c]] /\ aux' = [aux EXCEPT ![c] = 0]
    BY DEF SemPost
  <1>3. PICK s \in Found(FindSem(id[c])) :
          /\ Misses(c, s, FindSem(id[c]))
          /\ \/ s = NULL /\ at' = to /\ UNCHANGED sysVars
             \/ s # NULL /\ Goes(c, "halts") /\ UNCHANGED sysVars
             \/ /\ s # NULL /\ ~sems[s].lock /\ Post(s, to) /\ UNCHANGED <<semQueue, semId>>
    BY <1>1 DEF SemPost, AfterPost
  <1>4. /\ missed \subseteq missed' /\ (s = NULL => Lost(c))
        /\ s # NULL => s = id[c] /\ s \in Table /\ s \in DOMAIN sems /\ sems[s] \in Sem
    BY <1>3, FoundIs
  <1>5. CASE s # NULL /\ Goes(c, "halts") /\ UNCHANGED sysVars
    <2>1. Still
      BY <1>5, StillStep
    <2> QED BY <1>2, <1>4, <1>5, <2>1 DEF PostDoes
  <1>6. CASE s = NULL /\ at' = to /\ UNCHANGED sysVars
    <2>1. Still
      BY <1>6, StillStep
    <2> QED BY <1>1, <1>2, <1>4, <1>6, <2>1 DEF PostDoes
  <1>7. CASE s # NULL /\ ~sems[s].lock /\ Post(s, to) /\ UNCHANGED <<semQueue, semId>>
    <2>1. PICK p : p = Pids(s)
      OBVIOUS
    <2>2. /\ SemChanged(s, IF Alive(p) # {} THEN sems[s].value ELSE sems[s].value + 1,
                        sems[s].attached, sems[s].lock, Rest(p, Passed(p)))
          /\ at' = IF Alive(p) # {} THEN [to EXCEPT ![p[Passed(p)]] = "read"] ELSE to
      BY <1>4, <1>7, <2>1, PostStep
    <2> QED BY <1>1, <1>2, <1>4, <1>7, <2>1, <2>2, Zenon DEF PostDoes
  <1> QED BY <1>3, <1>5, <1>6, <1>7

LEMMA ReadStep ==
  ASSUME TableInv, NEW c \in Client, Read(c)
  PROVE  ReadDoes(c)
  BY StillStep DEF Read, ReadDoes

LEMMA KillStep ==
  ASSUME TableInv, NEW c \in Client, Kill(c)
  PROVE  KillDoes(c)
  BY StillStep DEF Kill, KillDoes

Does ==
  InitDoes \/ \E c \in Client : OpenDoes(c) \/ CloseDoes(c) \/ WaitDoes(c) \/ PostDoes(c) \/ ReadDoes(c) \/ KillDoes(c)

LEMMA NextDoes ==
  ASSUME TableInv, Next
  PROVE  Does
  BY OpenStep, InitStep, CloseStep, WaitStep, PostedStep, ReadStep, KillStep DEF Next, Does

(* Whatever the calls, the table stays sound.                               *)
LEMMA DoesTable ==
  ASSUME TableInv, Does
  PROVE  TableInv'
  BY DEF Does, InitDoes, OpenDoes, CloseDoes, WaitDoes, PostDoes, ReadDoes, KillDoes,
         Still, NoSem, NewSem, GoneSem, SemChanged

(* Before any call there is one empty queue in an empty memory.              *)
LEMMA InitTable ==
  ASSUME Init
  PROVE  TableInv /\ Table = {} /\ sems = <<>> /\ semId = 0
  <1>1. mem = <<>> /\ semQueue = EmptyQueue /\ sems = <<>> /\ semId = 0
    BY DEF Init
  <1>2. PICK e : e = <<>>
    OBVIOUS
  <1>3. DOMAIN e = {}
    BY <1>2
  <1>4. Laid(e, e)
    <2>1. Cells(e)
      BY <1>2, <1>3 DEF Cells
    <2> QED BY <1>3, <2>1 DEF Laid
  <1>5. NULL \notin DOMAIN e
    BY <1>3
  <1>6. Laid(e, Add(e, NULL, EmptyQueue)) /\ View(e, Add(e, NULL, EmptyQueue)) = Add(View(e, e), NULL, <<>>)
    BY <1>4, <1>5, AddLaid
  <1>7. QsOf(EmptyQueue, e) = Add(e, NULL, EmptyQueue)
    BY <1>3 DEF QsOf, Add
  <1>8. Contents(e, EmptyQueue) = <<>>
    <2>1. View(e, Add(e, NULL, EmptyQueue))[NULL] = Contents(e, EmptyQueue)
      BY DEF View, Add
    <2>2. Add(View(e, e), NULL, <<>>)[NULL] = <<>>
      BY DEF Add
    <2> QED BY <1>6, <2>1, <2>2
  <1>9. <<>> \in Seq(DOMAIN e) /\ Apart(<<>>)
    BY DEF Apart
  <1>10. e \in [DOMAIN e -> Sem] /\ DOMAIN e \subseteq 0..(0 - 1)
    BY <1>2, <1>3
  <1>11. Sound(e, EmptyQueue, e, 0)
    BY <1>6, <1>7, <1>8, <1>9, <1>10, SoundIf
  <1>12. TableInv
    BY <1>1, <1>2, <1>11 DEF TableInv
  <1>13. Rng(<<>>) = {}
    BY DEF Rng
  <1> QED BY <1>1, <1>2, <1>8, <1>12, <1>13, TableIs

LEMMA TableStays ==
  ASSUME TableInv, UNCHANGED vars
  PROVE  TableInv'
  BY DEF TableInv, vars

(* createSem, enqueue, dequeue, takeElement and freeQueue keep the lists    *)
(* and the table in order, from the first call on.                          *)
THEOREM TableStaysSound == Spec => []TableInv
  <1>1. Init => TableInv
    BY InitTable
  <1>2. TableInv /\ [Next]_vars => TableInv'
    BY NextDoes, DoesTable, TableStays
  <1> QED BY <1>1, <1>2, PTL DEF Spec

LEMMA SoundQueues ==
  ASSUME TableInv
  PROVE  QueuesSound
  <1>1. PICK qs : qs = QsOf(semQueue, sems)
    OBVIOUS
  <1>2. Laid(mem, qs) /\ NULL \notin DOMAIN sems /\ DOMAIN qs = {NULL} \cup DOMAIN sems
        /\ qs[NULL] = semQueue /\ \A i \in DOMAIN sems : qs[i] = sems[i].blocked
    BY <1>1, SoundFacts DEF TableInv, Sound, Shape
  <1>3. \A q \in Queues : \E j \in DOMAIN qs : q = qs[j]
    BY <1>2 DEF Queues
  <1>4. \A q \in Queues : WellFormed(mem, q)
    <2> TAKE q \in Queues
    <2>1. PICK j \in DOMAIN qs : q = qs[j]
      BY <1>3
    <2>2. Chain(mem, q, NodesFrom(mem, q.first))
      BY <1>2, <2>1, LaidFacts DEF NodesOf
    <2>3. PICK s : s = NodesFrom(mem, q.first)
      OBVIOUS
    <2>4. Len(s) \in Nat /\ q.size = Len(s) /\ (Len(s) # 0 => q.last = s[Len(s)])
      BY <2>2, <2>3 DEF Chain
    <2>5. Len(s) = q.size /\ (q.size > 0 => q.last = s[q.size])
      BY <2>4
    <2> QED BY <2>3, <2>5 DEF WellFormed
  <1>5. PICK N : N = [j \in DOMAIN qs |-> Rng(NodesFrom(mem, qs[j].first))]
    OBVIOUS
  <1>6. /\ N[NULL] = Rng(NodesFrom(mem, semQueue.first))
        /\ \A i \in DOMAIN sems : N[i] = Rng(NodesFrom(mem, sems[i].blocked.first))
    BY <1>2, <1>5
  <1>7. /\ DOMAIN mem = UNION {N[j] : j \in DOMAIN qs}
        /\ \A i, j \in DOMAIN qs : i # j => N[i] \cap N[j] = {}
    BY <1>2, <1>5 DEF Laid, NodesOf
  <1>8. DOMAIN mem = N[NULL] \cup UNION {N[i] : i \in DOMAIN sems}
    BY <1>2, <1>7
  <1>9. \A i \in DOMAIN sems :
          /\ N[NULL] \cap N[i] = {}
          /\ \A j \in DOMAIN sems \ {i} : N[i] \cap N[j] = {}
    BY <1>2, <1>7
  <1>10. DOMAIN mem = Rng(NodesFrom(mem, semQueue.first))
                      \cup UNION {Rng(NodesFrom(mem, sems[i].blocked.first)) : i \in DOMAIN sems}
    BY <1>6, <1>8
  <1>11. \A i \in DOMAIN sems :
           /\ Rng(NodesFrom(mem, semQueue.first)) \cap Rng(NodesFrom(mem, sems[i].blocked.first)) = {}
           /\ \A j \in DOMAIN sems \ {i} :
                Rng(NodesFrom(mem, sems[i].blocked.first)) \cap Rng(NodesFrom(mem, sems[j].blocked.first)) = {}
    BY <1>6, <1>9
  <1> QED BY <1>4, <1>10, <1>11, Zenon DEF QueuesSound, Rng

(* Every queue is in order and every node in use lies in exactly one of     *)
(* them, after any calls: semClose and the killed processes semPost passes  *)
(* over lose none (enqueue, dequeue, takeElement, freeQueue in queue.c).    *)
THEOREM QueuesStaySound == Spec => []QueuesSound
  <1>1. TableInv => QueuesSound
    BY SoundQueues
  <1> QED BY <1>1, TableStaysSound, PTL
-----------------------------------------------------------------------------
(* The inductive invariant of the processes.                                *)
Stages == {"start", "idle", "wait", "asleep", "read", "write", "close", "done", "dead", "halts"}
Starting == {c \in Client : at[c] = "start"}
TypesInv ==
  /\ at \in [Client -> Stages] /\ left \in [Client -> 0..Rounds]
  /\ id \in [Client -> {NULL} \cup 0..(semId - 1)]
StagesInv ==
  \A c \in Client :
    /\ at[c] \in {"start", "idle"} => id[c] = NULL
    /\ id[c] = NULL => at[c] \in {"start", "idle", "done"}
    /\ c \in Opener => at[c] # "idle"
    /\ c \in Guest => at[c] \notin {"start", "close"}
    /\ c = Owner => at[c] \in {"start", "close", "done"}
    /\ left[c] = 0 => at[c] \in {"close", "done", "halts"}
    /\ at[c] = "close" /\ c \in Opener => left[c] = 0

(* Each identifier was used up by a process that had not yet opened.        *)
CrewInv == semId + Cardinality(Starting) <= Cardinality(Client)

(* The pids in a queue are those of processes that sleep there, or died so. *)
Waiting(p, i) ==
  /\ p \in Seq(Client) /\ Apart(p)
  /\ \A k \in DOMAIN p : at[p[k]] \in {"asleep", "dead"} /\ id[p[k]] = i
WaitersInv == \A i \in DOMAIN sems : Waiting(Pids(i), i)

(* What semPost does to the processes, by what it finds.                    *)
To(c) == IF left[c] # 1 THEN "wait" ELSE IF c \in Guest THEN "done" ELSE "close"
Halts(c) == id[c] \in Table /\ Goes(c, "halts") /\ Still
GoesOn(c) == Lost(c) /\ Goes(c, To(c)) /\ Still
Raises(c) ==
  /\ id[c] \in Table /\ ~sems[id[c]].lock
  /\ SemChanged(id[c], sems[id[c]].value + 1, sems[id[c]].attached, sems[id[c]].lock, <<>>)
  /\ Alive(Pids(id[c])) = {} /\ Goes(c, To(c))
Hands(c, w) ==
  /\ id[c] \in Table /\ ~sems[id[c]].lock
  /\ w \in Client \ {c} /\ at[w] = "asleep" /\ id[w] = id[c]
  /\ LET p == Pids(id[c])
     IN /\ Alive(p) # {} /\ w = p[Passed(p)]
        /\ SemChanged(id[c], sems[id[c]].value, sems[id[c]].attached, sems[id[c]].lock, Rest(p, Passed(p)))
  /\ at' = [[at EXCEPT ![c] = To(c)] EXCEPT ![w] = "read"]
Posts(c) ==
  /\ at[c] = "write" /\ UNCHANGED id /\ missed \subseteq missed'
  /\ global' = [global EXCEPT ![Cell(c)] = aux[c] + Amount[c]] /\ aux' = [aux EXCEPT ![c] = 0]
  /\ left' = [left EXCEPT ![c] = @ - 1]
  /\ Halts(c) \/ GoesOn(c) \/ Raises(c) \/ \E w \in Client : Hands(c, w)

LEMMA RestRange ==
  ASSUME NEW S, NEW p \in Seq(S), NEW k \in Nat, k <= Len(p), NEW r, r = Rest(p, k)
  PROVE  /\ r \in Seq(S) /\ Len(r) = Len(p) - k /\ DOMAIN r = 1..(Len(p) - k)
         /\ \A l \in DOMAIN r : l + k \in DOMAIN p /\ r[l] = p[l + k]
  <1>1. PICK L \in Nat : L = Len(p) /\ DOMAIN p = 1..L
    OBVIOUS
  <1>2. PICK N \in Nat : N = L - k
    <2>1. k <= L
      BY <1>1
    <2>2. L - k \in Nat
      BY <2>1
    <2> QED BY <2>2
  <1>3. r = [l \in 1..N |-> p[l + k]]
    BY <1>1, <1>2 DEF Rest
  <1>4. \A l \in 1..N : l + k \in 1..L
    BY <1>1, <1>2
  <1>5. r \in [1..N -> S]
    BY <1>1, <1>3, <1>4
  <1>6. r \in Seq(S) /\ Len(r) = N
    BY <1>5, IsSeq
  <1> QED BY <1>1, <1>2, <1>3, <1>4, <1>6

LEMMA PostPosts ==
  ASSUME TableInv, TypesInv, WaitersInv, NEW c \in Client, PostDoes(c)
  PROVE  Posts(c)
  <1>1. AfterPost(c) = [at EXCEPT ![c] = To(c)]
    BY DEF AfterPost, To
  <1>2. /\ at[c] = "write" /\ UNCHANGED id /\ missed \subseteq missed'
        /\ global' = [global EXCEPT ![Cell(c)] = aux[c] + Amount[c]] /\ aux' = [aux EXCEPT ![c] = 0]
        /\ left' = [left EXCEPT ![c] = @ - 1]
    BY DEF PostDoes
  <1>3. CASE id[c] \in Table /\ Goes(c, "halts") /\ Still
    BY <1>2, <1>3 DEF Posts, Halts
  <1>4. CASE Lost(c) /\ at' = AfterPost(c) /\ Still
    <2>1. GoesOn(c)
      BY <1>1, <1>4 DEF GoesOn, Goes
    <2> QED BY <1>2, <2>1 DEF Posts
  <1>5. CASE /\ id[c] \in Table /\ ~sems[id[c]].lock
             /\ SemChanged(id[c], IF Alive(Pids(id[c])) # {} THEN sems[id[c]].value ELSE sems[id[c]].value + 1,
                           sems[id[c]].attached, sems[id[c]].lock, Rest(Pids(id[c]), Passed(Pids(id[c]))))
             /\ at' = IF Alive(Pids(id[c])) # {}
                      THEN [AfterPost(c) EXCEPT ![Pids(id[c])[Passed(Pids(id[c]))]] = "read"] ELSE AfterPost(c)
    <2>1. PICK i, p : i = id[c] /\ p = Pids(i)
      OBVIOUS
    <2>2. i \in DOMAIN sems /\ p \in Seq(Client) /\ Apart(p)
          /\ \A k \in DOMAIN p : at[p[k]] \in {"asleep", "dead"} /\ id[p[k]] = i
      BY <1>5, <2>1, TableFacts DEF WaitersInv, Waiting
    <2>3. /\ SemChanged(i, IF Alive(p) # {} THEN sems[i].value ELSE sems[i].value + 1,
                        sems[i].attached, sems[i].lock, Rest(p, Passed(p)))
          /\ at' = IF Alive(p) # {} THEN [AfterPost(c) EXCEPT ![p[Passed(p)]] = "read"] ELSE AfterPost(c)
      BY <1>5, <2>1
    <2>4. CASE Alive(p) = {}
      <3>1. Passed(p) = Len(p)
        BY <2>2, <2>4, PassedFacts
      <3>2. PICK r : r = Rest(p, Passed(p))
        OBVIOUS
      <3>3. Len(p) \in Nat /\ Len(p) <= Len(p)
        BY <2>2
      <3>4. r \in Seq(Client) /\ Len(r) = Len(p) - Len(p)
        BY <2>2, <3>1, <3>2, <3>3, RestRange
      <3>5. r = <<>>
        BY <3>3, <3>4
      <3>6. Goes(c, To(c))
        BY <1>1, <2>3, <2>4 DEF Goes
      <3>7. SemChanged(i, sems[i].value + 1, sems[i].attached, sems[i].lock, <<>>)
        BY <2>3, <2>4, <3>2, <3>5
      <3>8. Raises(c)
        BY <1>5, <2>1, <2>3, <2>4, <3>6, <3>7 DEF Raises
      <3> QED BY <1>2, <3>8 DEF Posts
    <2>5. CASE Alive(p) # {}
      <3>1. Passed(p) \in 1..Len(p) /\ at[p[Passed(p)]] # "dead"
        BY <2>2, <2>5, PassedFacts
      <3>2. PICK k, w : k = Passed(p) /\ w = p[k]
        OBVIOUS
      <3>3. k \in DOMAIN p /\ w \in Client
        BY <2>2, <3>1, <3>2
      <3>4. at[w] = "asleep" /\ id[w] = i
        BY <2>2, <3>1, <3>2, <3>3
      <3>5. w # c
        BY <1>2, <3>4
      <3>6. SemChanged(i, sems[i].value, sems[i].attached, sems[i].lock, Rest(p, Passed(p)))
        BY <2>3, <2>5
      <3>7. at' = [[at EXCEPT ![c] = To(c)] EXCEPT ![w] = "read"]
        BY <1>1, <2>3, <2>5, <3>2
      <3>8. Hands(c, w)
        BY <1>5, <2>1, <2>3, <2>5, <3>2, <3>3, <3>4, <3>5, <3>6, <3>7 DEF Hands
      <3> QED BY <1>2, <3>3, <3>8 DEF Posts
    <2> QED BY <2>4, <2>5
  <1> QED BY <1>3, <1>4, <1>5 DEF PostDoes

LEMMA Moved ==
  ASSUME TypesInv, NEW c \in Client, NEW to \in Stages, Goes(c, to)
  PROVE  /\ at' \in [Client -> Stages] /\ at'[c] = to
         /\ \A d \in Client \ {c} : at'[d] = at[d]
  BY DEF TypesInv, Goes

LEMMA HandMoved ==
  ASSUME TypesInv, NEW c \in Client, NEW w \in Client, Hands(c, w)
  PROVE  /\ at' \in [Client -> Stages] /\ at'[c] = To(c) /\ at'[w] = "read" /\ w # c
         /\ \A d \in Client \ {c, w} : at'[d] = at[d]
  <1>1. PICK to : to = To(c)
    OBVIOUS
  <1>2. to \in Stages
    BY <1>1 DEF To, Stages
  <1>3. at' = [[at EXCEPT ![c] = to] EXCEPT ![w] = "read"] /\ w # c
    BY <1>1 DEF Hands
  <1>4. at \in [Client -> Stages] /\ "read" \in Stages
    BY DEF TypesInv, Stages
  <1> QED BY <1>1, <1>2, <1>3, <1>4

(* A round less.                                                            *)
LEMMA RoundDone ==
  ASSUME TypesInv, NEW c \in Client, left[c] # 0, left' = [left EXCEPT ![c] = @ - 1]
  PROVE  /\ left' \in [Client -> 0..Rounds] /\ left'[c] = left[c] - 1
         /\ \A d \in Client \ {c} : left'[d] = left[d]
         /\ left'[c] = 0 <=> left[c] = 1
  <1>1. Rounds \in Nat /\ left \in [Client -> 0..Rounds] /\ left[c] \in 0..Rounds
    BY CounterAssumption DEF TypesInv
  <1>2. left[c] - 1 \in 0..Rounds
    BY <1>1
  <1> QED BY <1>1, <1>2

LEMMA ClientFinite == IsFiniteSet(Client) /\ Cardinality(Client) \in Nat
  <1>1. IsFiniteSet(Opener \cup Guest)
    BY ProcessAssumption, FS_Union
  <1>2. IsFiniteSet(Client)
    BY <1>1, FS_AddElement DEF Client
  <1> QED BY <1>2, FS_CardinalityType

(* The roles.                                                               *)
LEMMA Roles ==
  /\ \A c \in Client : c \in Opener \/ c \in Guest \/ c = Owner
  /\ Opener \cap Guest = {} /\ Owner \notin Opener /\ Owner \notin Guest /\ Owner \in Client
  /\ Opener \subseteq Client /\ Guest \subseteq Client
  BY ProcessAssumption DEF Client

LEMMA DoesTypes ==
  ASSUME TableInv, TypesInv, StagesInv, WaitersInv, Does
  PROVE  TypesInv'
  <1>0. semId \in Nat /\ Owner \in Client /\ Table \subseteq 0..(semId - 1)
    BY TableFacts, Roles
  <1>1. \A i \in {NULL} \cup 0..(semId - 1) : i \in {NULL} \cup 0..semId
    BY <1>0
  <1>2. ASSUME semId' = semId, UNCHANGED <<id, left>>, NEW c \in Client, NEW to \in Stages, Goes(c, to)
        PROVE  TypesInv'
    BY <1>2, Moved DEF TypesInv
  <1>3. ASSUME semId' \in {semId, semId + 1}, UNCHANGED <<id, left>>, NEW c \in Client, NEW to \in Stages, Goes(c, to)
        PROVE  TypesInv'
    <2>1. semId' = semId + 1 => semId' - 1 = semId
      BY <1>0
    <2>2. CASE semId' = semId
      BY <1>2, <1>3, <2>2
    <2>3. CASE semId' = semId + 1
      <3>1. id' \in [Client -> {NULL} \cup 0..(semId' - 1)]
        BY <1>1, <1>3, <2>1, <2>3 DEF TypesInv
      <3> QED BY <1>3, <3>1, Moved DEF TypesInv
    <2> QED BY <1>3, <2>2, <2>3
  <1>4. ASSUME InitDoes PROVE TypesInv'
    <2>1. CASE NoSem /\ UNCHANGED id /\ Goes(Owner, "done")
      BY <1>0, <1>3, <1>4, <2>1 DEF InitDoes, NoSem, Stages
    <2>2. CASE \E listed \in BOOLEAN :
                 /\ NewSem(Unnamed, listed)
                 /\ id' = [c \in Client |-> IF c = Owner \/ at[c] = "idle" THEN semId ELSE id[c]]
                 /\ at' = [c \in Client |-> IF c = Owner THEN "close"
                                            ELSE IF at[c] = "idle" THEN "wait" ELSE at[c]]
      <3>1. semId' = semId + 1 /\ semId' - 1 = semId
        BY <1>0, <2>2 DEF NewSem
      <3>2. at' \in [Client -> Stages]
        BY <2>2 DEF TypesInv, Stages
      <3>3. id' \in [Client -> {NULL} \cup 0..semId]
        BY <1>0, <1>1, <2>2 DEF TypesInv
      <3> QED BY <1>4, <3>1, <3>2, <3>3 DEF TypesInv, InitDoes
    <2> QED BY <1>4, <2>1, <2>2 DEF InitDoes
  <1>5. ASSUME NEW c \in Client, OpenDoes(c) PROVE TypesInv'
    <2>1. CASE NoSem /\ UNCHANGED id /\ Goes(c, "done")
      BY <1>3, <1>5, <2>1 DEF OpenDoes, NoSem, Stages
    <2>2. "wait" \in Stages /\ UNCHANGED left
      BY <1>5 DEF OpenDoes, Stages
    <2>3. ASSUME NEW s \in Table, semId' = semId, id' = [id EXCEPT ![c] = s], Goes(c, "wait")
          PROVE  TypesInv'
      <3>1. id' \in [Client -> {NULL} \cup 0..(semId - 1)]
        BY <1>0, <2>3 DEF TypesInv
      <3> QED BY <2>2, <2>3, <3>1, Moved DEF TypesInv
    <2>4. ASSUME semId' = semId + 1, id' = [id EXCEPT ![c] = semId], Goes(c, "wait")
          PROVE  TypesInv'
      <3>1. semId' - 1 = semId
        BY <1>0, <2>4
      <3>2. id' \in [Client -> {NULL} \cup 0..semId]
        BY <1>0, <1>1, <2>4 DEF TypesInv
      <3> QED BY <2>2, <2>4, <3>1, <3>2, Moved DEF TypesInv
    <2> QED BY <1>5, <2>1, <2>3, <2>4 DEF OpenDoes, SemChanged, NewSem
  <1>6. ASSUME NEW c \in Client, CloseDoes(c) PROVE TypesInv'
    BY <1>2, <1>6 DEF CloseDoes, Still, SemChanged, GoneSem, Stages
  <1>7. ASSUME NEW c \in Client, WaitDoes(c) PROVE TypesInv'
    BY <1>2, <1>7 DEF WaitDoes, Still, SemChanged, Stages
  <1>8. ASSUME NEW c \in Client, PostDoes(c) PROVE TypesInv'
    <2>1. at[c] = "write" /\ UNCHANGED id /\ (Halts(c) \/ GoesOn(c) \/ Raises(c) \/ \E w \in Client : Hands(c, w))
      BY <1>8, PostPosts DEF Posts
    <2>2. left[c] # 0 /\ "halts" \in Stages /\ To(c) \in Stages
      BY <2>1 DEF StagesInv, Stages, To
    <2>3. left' = [left EXCEPT ![c] = @ - 1]
      BY <1>8 DEF PostDoes
    <2>4. semId' = semId /\ at' \in [Client -> Stages] => TypesInv'
      BY <2>1, <2>2, <2>3, RoundDone DEF TypesInv
    <2>8. CASE Halts(c)
      BY <2>2, <2>4, <2>8, Moved DEF Halts, Still
    <2>5. CASE GoesOn(c)
      BY <2>2, <2>4, <2>5, Moved DEF GoesOn, Still
    <2>6. CASE Raises(c)
      BY <2>2, <2>4, <2>6, Moved DEF Raises, SemChanged
    <2>7. CASE \E w \in Client : Hands(c, w)
      BY <2>4, <2>7, HandMoved DEF Hands, SemChanged
    <2> QED BY <2>1, <2>5, <2>6, <2>7, <2>8
  <1>9. ASSUME NEW c \in Client, ReadDoes(c) PROVE TypesInv'
    BY <1>2, <1>9 DEF ReadDoes, Still, Stages
  <1>10. ASSUME NEW c \in Client, KillDoes(c) PROVE TypesInv'
    BY <1>2, <1>10 DEF KillDoes, Still, Stages
  <1> QED BY <1>4, <1>5, <1>6, <1>7, <1>8, <1>9, <1>10 DEF Does

(* Where a process can be follows from what it has opened.                  *)
LEMMA OneMoved ==
  ASSUME TypesInv, StagesInv, NEW c \in Client, NEW to \in Stages, Goes(c, to),
         \A d \in Client \ {c} : id'[d] = id[d] /\ left'[d] = left[d],
         to \in {"start", "idle"} => id'[c] = NULL,
         id'[c] = NULL => to \in {"start", "idle", "done"},
         c \in Opener => to # "idle",
         c \in Guest => to \notin {"start", "close"},
         c = Owner => to \in {"start", "close", "done"},
         left'[c] = 0 => to \in {"close", "done", "halts"},
         to = "close" /\ c \in Opener => left'[c] = 0
  PROVE  StagesInv'
  <1>1. at'[c] = to /\ \A d \in Client \ {c} : at'[d] = at[d]
    BY Moved
  <1>2. ASSUME NEW d \in Client
        PROVE  /\ at'[d] \in {"start", "idle"} => id'[d] = NULL
               /\ id'[d] = NULL => at'[d] \in {"start", "idle", "done"}
               /\ d \in Opener => at'[d] # "idle"
               /\ d \in Guest => at'[d] \notin {"start", "close"}
               /\ d = Owner => at'[d] \in {"start", "close", "done"}
               /\ left'[d] = 0 => at'[d] \in {"close", "done", "halts"}
               /\ at'[d] = "close" /\ d \in Opener => left'[d] = 0
    <2>1. CASE d = c
      BY <1>1, <2>1
    <2>2. CASE d # c
      BY <1>1, <2>2 DEF StagesInv
    <2> QED BY <2>1, <2>2
  <1> QED BY <1>2 DEF StagesInv

LEMMA DoesStages ==
  ASSUME TableInv, TypesInv, StagesInv, WaitersInv, Does
  PROVE  StagesInv'
  <1>0. /\ semId \in Nat /\ Table \subseteq 0..(semId - 1) /\ semId # NULL /\ \A i \in Table : i # NULL
        /\ Rounds # 0
    BY TableFacts, CounterAssumption DEF NULL
  <1>1. ASSUME NEW c \in Client, OpenDoes(c) PROVE StagesInv'
    <2>1. c \in Opener /\ c \notin Guest /\ c # Owner /\ at[c] = "start" /\ id[c] = NULL /\ left[c] # 0 /\ UNCHANGED left
      BY <1>1, Roles DEF OpenDoes, StagesInv
    <2>2. CASE UNCHANGED id /\ Goes(c, "done")
      BY <2>1, <2>2, OneMoved DEF Stages
    <2>3. ASSUME NEW s, s # NULL, id' = [id EXCEPT ![c] = s], Goes(c, "wait")
          PROVE  StagesInv'
      <3>1. id'[c] = s /\ \A d \in Client \ {c} : id'[d] = id[d]
        BY <2>3 DEF TypesInv
      <3> QED BY <2>1, <2>3, <3>1, OneMoved DEF Stages
    <2> QED BY <1>0, <1>1, <2>2, <2>3 DEF OpenDoes
  <1>2. ASSUME InitDoes PROVE StagesInv'
    <2>1. Owner \in Client /\ Owner \notin Opener /\ Owner \notin Guest /\ left[Owner] # 0 /\ at[Owner] = "start"
          /\ id[Owner] = NULL
      BY <1>2, Roles DEF InitDoes, StagesInv
    <2>2. CASE UNCHANGED id /\ Goes(Owner, "done")
      BY <1>2, <2>1, <2>2, OneMoved DEF Stages, InitDoes
    <2>3. ASSUME id' = [c \in Client |-> IF c = Owner \/ at[c] = "idle" THEN semId ELSE id[c]],
                 at' = [c \in Client |-> IF c = Owner THEN "close"
                                         ELSE IF at[c] = "idle" THEN "wait" ELSE at[c]]
          PROVE  StagesInv'
      <3>1. ASSUME NEW d \in Client
            PROVE  /\ at'[d] \in {"start", "idle"} => id'[d] = NULL
                   /\ id'[d] = NULL => at'[d] \in {"start", "idle", "done"}
                   /\ d \in Opener => at'[d] # "idle"
                   /\ d \in Guest => at'[d] \notin {"start", "close"}
                   /\ d = Owner => at'[d] \in {"start", "close", "done"}
                   /\ left'[d] = 0 => at'[d] \in {"close", "done", "halts"}
                   /\ at'[d] = "close" /\ d \in Opener => left'[d] = 0
        <4>1. left'[d] = left[d]
          BY <1>2 DEF InitDoes
        <4>2. CASE d = Owner
          BY <1>0, <2>1, <2>3, <4>1, <4>2
        <4>3. CASE d # Owner /\ at[d] = "idle"
          BY <1>0, <2>3, <4>1, <4>3 DEF StagesInv
        <4>4. CASE d # Owner /\ at[d] # "idle"
          BY <2>3, <4>1, <4>4 DEF StagesInv
        <4> QED BY <4>2, <4>3, <4>4
      <3> QED BY <3>1 DEF StagesInv
    <2> QED BY <1>2, <2>2, <2>3 DEF InitDoes
  <1>3. ASSUME NEW c \in Client, CloseDoes(c) PROVE StagesInv'
    BY <1>3, OneMoved DEF CloseDoes, Stages
  <1>4. ASSUME NEW c \in Client, WaitDoes(c) PROVE StagesInv'
    <2>1. UNCHANGED <<id, left>> /\ \E to \in {"read", "halts", "asleep"} : Goes(c, to)
      BY <1>4 DEF WaitDoes
    <2>2. c # Owner /\ left[c] # 0 /\ id[c] # NULL
      BY <1>4 DEF WaitDoes, StagesInv
    <2> QED BY <2>1, <2>2, OneMoved DEF Stages
  <1>5. ASSUME NEW c \in Client, PostDoes(c) PROVE StagesInv'
    <2>1. at[c] = "write" /\ UNCHANGED id /\ (Halts(c) \/ GoesOn(c) \/ Raises(c) \/ \E w \in Client : Hands(c, w))
      BY <1>5, PostPosts DEF Posts
    <2>2. left[c] # 0 /\ id[c] # NULL /\ c # Owner
      BY <2>1 DEF StagesInv
    <2>7. left' = [left EXCEPT ![c] = @ - 1]
      BY <1>5 DEF PostDoes
    <2>8. (left'[c] = 0 <=> left[c] = 1) /\ \A d \in Client \ {c} : left'[d] = left[d]
      BY <2>2, <2>7, RoundDone
    <2>3. CASE Goes(c, "halts")
      BY <2>1, <2>2, <2>3, <2>8, OneMoved DEF Stages
    <2>4. To(c) \in {"wait", "done", "close"} /\ (left[c] = 1 => To(c) # "wait") /\ (left[c] # 1 => To(c) = "wait")
          /\ (c \in Guest => To(c) # "close")
      BY DEF To
    <2>5. CASE Goes(c, To(c))
      BY <2>1, <2>2, <2>4, <2>5, <2>8, OneMoved DEF Stages
    <2>6. ASSUME NEW w \in Client, Hands(c, w) PROVE StagesInv'
      <3>1. at'[c] = To(c) /\ at'[w] = "read" /\ w # c /\ \A d \in Client \ {c, w} : at'[d] = at[d]
        BY <2>6, HandMoved
      <3>3. at[w] = "asleep" /\ w # Owner /\ left[w] # 0 /\ id[w] # NULL
        BY <2>6 DEF Hands, StagesInv
      <3>4. ASSUME NEW d \in Client
            PROVE  /\ at'[d] \in {"start", "idle"} => id'[d] = NULL
                   /\ id'[d] = NULL => at'[d] \in {"start", "idle", "done"}
                   /\ d \in Opener => at'[d] # "idle"
                   /\ d \in Guest => at'[d] \notin {"start", "close"}
                   /\ d = Owner => at'[d] \in {"start", "close", "done"}
                   /\ left'[d] = 0 => at'[d] \in {"close", "done", "halts"}
                   /\ at'[d] = "close" /\ d \in Opener => left'[d] = 0
        <4>1. CASE d = c
          BY <2>1, <2>2, <2>4, <2>8, <3>1, <4>1
        <4>2. CASE d = w
          BY <2>1, <2>8, <3>1, <3>3, <4>2
        <4>3. CASE d \notin {c, w}
          BY <2>1, <2>8, <3>1, <4>3 DEF StagesInv
        <4> QED BY <4>1, <4>2, <4>3
      <3> QED BY <3>4 DEF StagesInv
    <2> QED BY <2>1, <2>3, <2>5, <2>6 DEF Halts, GoesOn, Raises
  <1>6. ASSUME NEW c \in Client, ReadDoes(c) PROVE StagesInv'
    <2>1. c # Owner /\ left[c] # 0 /\ id[c] # NULL /\ UNCHANGED <<id, left>> /\ Goes(c, "write")
      BY <1>6 DEF ReadDoes, StagesInv
    <2> QED BY <2>1, OneMoved DEF Stages
  <1>7. ASSUME NEW c \in Client, KillDoes(c) PROVE StagesInv'
    <2>1. c # Owner /\ left[c] # 0 /\ id[c] # NULL /\ UNCHANGED <<id, left>> /\ Goes(c, "dead")
      BY <1>7 DEF KillDoes, StagesInv
    <2> QED BY <2>1, OneMoved DEF Stages
  <1> QED BY <1>1, <1>2, <1>3, <1>4, <1>5, <1>6, <1>7 DEF Does

(* An identifier is used up by a process that has not opened before.        *)
LEMMA DoesCrew ==
  ASSUME TableInv, TypesInv, WaitersInv, CrewInv, Does
  PROVE  CrewInv'
  <1>1. IsFiniteSet(Client) /\ Starting \in SUBSET Client /\ semId \in Nat
    BY ClientFinite, TableFacts DEF Starting
  <1>2. IsFiniteSet(Starting) /\ Cardinality(Starting) \in Nat
    BY <1>1, FS_Subset, FS_CardinalityType
  <1>3. ASSUME Starting' \subseteq Starting, semId' = semId
        PROVE  CrewInv'
    <2>1. Starting' \in SUBSET Starting
      BY <1>3
    <2>2. IsFiniteSet(Starting') /\ Cardinality(Starting') <= Cardinality(Starting)
      BY <1>2, <2>1, FS_Subset
    <2>3. Cardinality(Starting') \in Nat /\ Cardinality(Client) \in Nat
      BY <2>2, FS_CardinalityType, ClientFinite
    <2> QED BY <1>1, <1>2, <1>3, <2>2, <2>3 DEF CrewInv
  <1>4. ASSUME NEW c \in Starting, Starting' \subseteq Starting \ {c}, semId' \in {semId, semId + 1}
        PROVE  CrewInv'
    <2>1. IsFiniteSet(Starting \ {c}) /\ Cardinality(Starting \ {c}) = Cardinality(Starting) - 1
      BY <1>2, FS_RemoveElement
    <2>2. Starting' \in SUBSET (Starting \ {c})
      BY <1>4
    <2>3. IsFiniteSet(Starting') /\ Cardinality(Starting') <= Cardinality(Starting \ {c})
      BY <2>1, <2>2, FS_Subset
    <2>4. Cardinality(Starting') \in Nat /\ Cardinality(Client) \in Nat
      BY <2>3, FS_CardinalityType, ClientFinite
    <2> QED BY <1>1, <1>2, <1>4, <2>1, <2>3, <2>4 DEF CrewInv
  <1>5. ASSUME NEW c \in Client, NEW to \in Stages \ {"start"}, Goes(c, to)
        PROVE  Starting' \subseteq Starting /\ (at[c] = "start" => c \in Starting /\ Starting' \subseteq Starting \ {c})
    BY <1>5, Moved DEF Starting
  <1>6. ASSUME NEW c \in Client, OpenDoes(c) PROVE CrewInv'
    <2>1. at[c] = "start" /\ semId' \in {semId, semId + 1} /\ \E to \in Stages \ {"start"} : Goes(c, to)
      BY <1>6 DEF OpenDoes, Stages, SemChanged, NewSem, NoSem
    <2> QED BY <1>4, <1>5, <2>1
  <1>7. ASSUME InitDoes PROVE CrewInv'
    <2>1. at[Owner] = "start" /\ semId' \in {semId, semId + 1} /\ Owner \in Client
      BY <1>7, Roles DEF InitDoes, NewSem, NoSem
    <2>2. Owner \in Starting /\ Starting' \subseteq Starting \ {Owner}
      <3>1. CASE Goes(Owner, "done")
        BY <1>5, <2>1, <3>1 DEF Stages
      <3>2. CASE at' = [c \in Client |-> IF c = Owner THEN "close" ELSE IF at[c] = "idle" THEN "wait" ELSE at[c]]
        BY <2>1, <3>2 DEF Starting
      <3> QED BY <1>7, <3>1, <3>2 DEF InitDoes
    <2> QED BY <1>4, <2>1, <2>2
  <1>8. ASSUME NEW c \in Client, CloseDoes(c) \/ WaitDoes(c) \/ ReadDoes(c) \/ KillDoes(c) PROVE CrewInv'
    <2>1. semId' = semId /\ \E to \in Stages \ {"start"} : Goes(c, to)
      BY <1>8 DEF CloseDoes, WaitDoes, ReadDoes, KillDoes, Stages, SemChanged, GoneSem, Still
    <2> QED BY <1>3, <1>5, <2>1
  <1>9. ASSUME NEW c \in Client, PostDoes(c) PROVE CrewInv'
    <2>1. Halts(c) \/ GoesOn(c) \/ Raises(c) \/ \E w \in Client : Hands(c, w)
      BY <1>9, PostPosts DEF Posts
    <2>2. To(c) \in Stages \ {"start"} /\ "halts" \in Stages \ {"start"}
      BY DEF To, Stages
    <2>3. semId' = semId
      BY <2>1 DEF Halts, GoesOn, Raises, Hands, Still, SemChanged
    <2>4. CASE Goes(c, To(c)) \/ Goes(c, "halts")
      BY <1>3, <1>5, <2>2, <2>3, <2>4
    <2>5. ASSUME NEW w \in Client, Hands(c, w) PROVE Starting' \subseteq Starting
      BY <2>2, <2>5, HandMoved DEF Starting
    <2> QED BY <1>3, <2>1, <2>3, <2>4, <2>5 DEF Halts, GoesOn, Raises
  <1> QED BY <1>6, <1>7, <1>8, <1>9 DEF Does

(* Who is in a queue.                                                       *)
LEMMA WaitingStays ==
  ASSUME NEW p, NEW i, Waiting(p, i),
         \A d \in Client : at[d] \in {"asleep", "dead"} =>
           at'[d] \in {"asleep", "dead"} /\ id'[d] = id[d]
  PROVE  Waiting(p, i)'
  <1>1. \A k \in DOMAIN p : p[k] \in Client
    BY DEF Waiting
  <1> QED BY <1>1 DEF Waiting

LEMMA WaitersStay ==
  ASSUME WaitersInv, \A i \in DOMAIN sems' : Pids(i)' = IF i \in DOMAIN sems THEN Pids(i) ELSE <<>>,
         \A d \in Client : at[d] \in {"asleep", "dead"} =>
           at'[d] \in {"asleep", "dead"} /\ id'[d] = id[d]
  PROVE  WaitersInv'
  <1>1. ASSUME NEW i \in DOMAIN sems', NEW p, p = Pids(i)' PROVE Waiting(p, i)'
    <2>1. CASE i \in DOMAIN sems
      <3>1. p = Pids(i)
        BY <1>1, <2>1
      <3>2. Waiting(p, i)
        BY <2>1, <3>1 DEF WaitersInv
      <3> QED BY <3>2, WaitingStays
    <2>2. CASE i \notin DOMAIN sems
      <3>1. p = <<>>
        BY <1>1, <2>2
      <3> QED BY <3>1 DEF Waiting, Apart
    <2> QED BY <2>1, <2>2
  <1>2. ASSUME NEW i \in DOMAIN sems' PROVE Waiting(Pids(i), i)'
    BY <1>1, <1>2
  <1> QED BY <1>2 DEF WaitersInv

(* A call on the queue of semaphore s.                                      *)
LEMMA WaitersChange ==
  ASSUME WaitersInv, NEW s \in DOMAIN sems, DOMAIN sems' = DOMAIN sems,
         NEW w, \A i \in DOMAIN sems : Pids(i)' = IF i = s THEN w ELSE Pids(i),
         Waiting(w, s)', \A p : \A i \in DOMAIN sems \ {s} : Waiting(p, i) => Waiting(p, i)'
  PROVE  WaitersInv'
  <1>1. ASSUME NEW i \in DOMAIN sems', NEW p, p = Pids(i)' PROVE Waiting(p, i)'
    <2>1. CASE i = s
      BY <1>1, <2>1
    <2>2. CASE i # s
      <3>1. p = Pids(i) /\ i \in DOMAIN sems
        BY <1>1, <2>2
      <3>2. Waiting(p, i)
        BY <3>1 DEF WaitersInv
      <3> QED BY <2>2, <3>1, <3>2
    <2> QED BY <2>1, <2>2
  <1>2. ASSUME NEW i \in DOMAIN sems' PROVE Waiting(Pids(i), i)'
    BY <1>1, <1>2
  <1> QED BY <1>2 DEF WaitersInv

LEMMA OnePids ==
  ASSUME NEW s, NEW v, NEW a, NEW l, NEW w, SemChanged(s, v, a, l, w)
  PROVE  DOMAIN sems' = DOMAIN sems /\ \A i \in DOMAIN sems : Pids(i)' = IF i = s THEN w ELSE Pids(i)
  BY DEF SemChanged

LEMMA SamePids ==
  ASSUME TableInv,
         Still \/ NoSem \/ (\E s : GoneSem(s)) \/ (\E name, listed : NewSem(name, listed))
         \/ (\E s, v, a, l : SemChanged(s, v, a, l, Pids(s)))
  PROVE  \A i \in DOMAIN sems' : Pids(i)' = IF i \in DOMAIN sems THEN Pids(i) ELSE <<>>
  <1>1. CASE Still \/ NoSem
    BY <1>1 DEF Still, NoSem
  <1>2. CASE \E s : GoneSem(s)
    BY <1>2 DEF GoneSem, Drop
  <1>3. CASE \E name, listed : NewSem(name, listed)
    BY <1>3 DEF NewSem
  <1>4. CASE \E s, v, a, l : SemChanged(s, v, a, l, Pids(s))
    BY <1>4 DEF SemChanged
  <1> QED BY <1>1, <1>2, <1>3, <1>4

(* The one that falls asleep was in no queue, the one that is woken is in   *)
(* none after it.                                                           *)
LEMMA DoesWaiters ==
  ASSUME TableInv, TypesInv, StagesInv, WaitersInv, Does
  PROVE  WaitersInv'
  <1>1. ASSUME NEW c \in Client, at[c] \notin {"asleep", "dead"}, NEW to \in Stages, Goes(c, to),
               \A d \in Client \ {c} : id'[d] = id[d]
        PROVE  \A d \in Client : at[d] \in {"asleep", "dead"} =>
                 at'[d] \in {"asleep", "dead"} /\ id'[d] = id[d]
    BY <1>1, Moved
  <1>2. ASSUME NEW c \in Client, OpenDoes(c) PROVE WaitersInv'
    <2>1. at[c] = "start" /\ \A d \in Client \ {c} : id'[d] = id[d]
      BY <1>2 DEF OpenDoes, TypesInv
    <2>2. \E to \in {"wait", "done"} : Goes(c, to)
      BY <1>2 DEF OpenDoes
    <2>3. \A d \in Client : at[d] \in {"asleep", "dead"} => at'[d] \in {"asleep", "dead"} /\ id'[d] = id[d]
      BY <1>1, <2>1, <2>2 DEF Stages
    <2>4. \A i \in DOMAIN sems' : Pids(i)' = IF i \in DOMAIN sems THEN Pids(i) ELSE <<>>
      BY <1>2, SamePids DEF OpenDoes
    <2> QED BY <2>3, <2>4, WaitersStay
  <1>3. ASSUME InitDoes PROVE WaitersInv'
    <2>1. at[Owner] = "start" /\ Owner \in Client
      BY <1>3, Roles DEF InitDoes
    <2>2. \A d \in Client : at[d] \in {"asleep", "dead"} => at'[d] \in {"asleep", "dead"} /\ id'[d] = id[d]
      <3>1. CASE Goes(Owner, "done") /\ UNCHANGED id
        BY <1>1, <2>1, <3>1 DEF Stages
      <3>2. CASE /\ id' = [c \in Client |-> IF c = Owner \/ at[c] = "idle" THEN semId ELSE id[c]]
                 /\ at' = [c \in Client |-> IF c = Owner THEN "close" ELSE IF at[c] = "idle" THEN "wait" ELSE at[c]]
        BY <2>1, <3>2
      <3> QED BY <1>3, <3>1, <3>2 DEF InitDoes
    <2>3. \A i \in DOMAIN sems' : Pids(i)' = IF i \in DOMAIN sems THEN Pids(i) ELSE <<>>
      BY <1>3, SamePids DEF InitDoes
    <2> QED BY <2>2, <2>3, WaitersStay
  <1>4. ASSUME NEW c \in Client, CloseDoes(c) PROVE WaitersInv'
    <2>1. \A d \in Client : at[d] \in {"asleep", "dead"} => at'[d] \in {"asleep", "dead"} /\ id'[d] = id[d]
      BY <1>1, <1>4 DEF CloseDoes, Stages
    <2>2. \A i \in DOMAIN sems' : Pids(i)' = IF i \in DOMAIN sems THEN Pids(i) ELSE <<>>
      BY <1>4, SamePids DEF CloseDoes
    <2> QED BY <2>1, <2>2, WaitersStay
  <1>5. ASSUME NEW c \in Client, WaitDoes(c) PROVE WaitersInv'
    <2>1. at[c] = "wait" /\ UNCHANGED id
      BY <1>5 DEF WaitDoes
    <2>2. \E to \in {"read", "halts", "asleep"} : Goes(c, to)
      BY <1>5 DEF WaitDoes
    <2>3. \A d \in Client : at[d] \in {"asleep", "dead"} => at'[d] \in {"asleep", "dead"} /\ id'[d] = id[d]
      BY <1>1, <2>1, <2>2 DEF Stages
    <2>4. CASE /\ id[c] \in Table /\ Goes(c, "asleep")
               /\ SemChanged(id[c], sems[id[c]].value, sems[id[c]].attached, sems[id[c]].lock, Append(Pids(id[c]), c))
      <3>1. PICK s, p, w : s = id[c] /\ p = Pids(s) /\ w = Append(p, c)
        OBVIOUS
      <3>2. s \in DOMAIN sems /\ Waiting(p, s)
        BY <2>4, <3>1, TableFacts DEF WaitersInv
      <3>3. DOMAIN sems' = DOMAIN sems /\ \A i \in DOMAIN sems : Pids(i)' = IF i = s THEN w ELSE Pids(i)
        <4>1. SemChanged(s, sems[s].value, sems[s].attached, sems[s].lock, w)
          BY <2>4, <3>1
        <4> QED BY <4>1, OnePids
      <3>4. PICK L \in Nat : L = Len(p) /\ DOMAIN p = 1..L /\ \A k \in 1..L : p[k] \in Client
        BY <3>2 DEF Waiting
      <3>5. w \in Seq(Client) /\ Len(w) = L + 1 /\ w[L + 1] = c /\ \A k \in 1..L : w[k] = p[k]
        BY <3>1, <3>2, <3>4 DEF Waiting
      <3>6. DOMAIN w = 1..(L + 1) /\ \A k \in 1..(L + 1) : k \in 1..L \/ k = L + 1
        BY <3>5
      <3>7. \A k \in 1..L : at[p[k]] \in {"asleep", "dead"} /\ id[p[k]] = s /\ p[k] # c
        BY <2>1, <3>2, <3>4 DEF Waiting
      <3>8. at'[c] = "asleep"
        BY <2>4, Moved DEF Stages
      <3>9. \A k \in DOMAIN w : at'[w[k]] \in {"asleep", "dead"} /\ id'[w[k]] = s
        <4> TAKE k \in DOMAIN w
        <4>1. CASE k \in 1..L
          BY <2>3, <3>4, <3>5, <3>7, <4>1
        <4>2. CASE k = L + 1
          BY <2>1, <3>1, <3>5, <3>8, <4>2
        <4> QED BY <3>6, <4>1, <4>2
      <3>10. Apart(w)
        <4>1. \A j, k \in 1..L : p[j] = p[k] => j = k
          BY <3>2, <3>4 DEF Waiting, Apart
        <4>2. \A j, k \in 1..(L + 1) : w[j] = w[k] => j = k
          <5> TAKE j, k \in 1..(L + 1)
          <5>1. CASE j \in 1..L /\ k \in 1..L
            BY <3>5, <4>1, <5>1
          <5>2. CASE j = L + 1 /\ k \in 1..L
            BY <3>5, <3>7, <5>2
          <5>3. CASE j \in 1..L /\ k = L + 1
            BY <3>5, <3>7, <5>3
          <5> QED BY <3>6, <5>1, <5>2, <5>3
        <4> QED BY <3>6, <4>2 DEF Apart
      <3>11. Waiting(w, s)'
        BY <3>5, <3>9, <3>10 DEF Waiting
      <3>12. \A q : \A i \in DOMAIN sems \ {s} : Waiting(q, i) => Waiting(q, i)'
        BY <2>3, WaitingStays
      <3> QED BY <3>2, <3>3, <3>11, <3>12, WaitersChange
    <2>5. CASE Still \/ SemChanged(id[c], sems[id[c]].value - 1, sems[id[c]].attached, sems[id[c]].lock, Pids(id[c]))
               \/ SemChanged(id[c], sems[id[c]].value, sems[id[c]].attached, TRUE, Pids(id[c]))
      <3>1. \A i \in DOMAIN sems' : Pids(i)' = IF i \in DOMAIN sems THEN Pids(i) ELSE <<>>
        BY <2>5, SamePids
      <3> QED BY <2>3, <3>1, WaitersStay
    <2> QED BY <1>5, <2>4, <2>5 DEF WaitDoes
  <1>6. ASSUME NEW c \in Client, PostDoes(c) PROVE WaitersInv'
    <2>1. at[c] = "write" /\ UNCHANGED id /\ (Halts(c) \/ GoesOn(c) \/ Raises(c) \/ \E w \in Client : Hands(c, w))
      BY <1>6, PostPosts DEF Posts
    <2>2. To(c) \in Stages /\ "halts" \in Stages /\ To(c) # "asleep"
      BY DEF To, Stages
    <2>3. CASE Goes(c, "halts") \/ Goes(c, To(c))
      <3>1. \A d \in Client : at[d] \in {"asleep", "dead"} => at'[d] \in {"asleep", "dead"} /\ id'[d] = id[d]
        BY <1>1, <2>1, <2>2, <2>3
      <3>2. CASE Still
        <4>1. \A i \in DOMAIN sems' : Pids(i)' = IF i \in DOMAIN sems THEN Pids(i) ELSE <<>>
          BY <3>2, SamePids
        <4> QED BY <3>1, <4>1, WaitersStay
      <3>3. CASE Raises(c)
        <4>1. PICK s : s = id[c]
          OBVIOUS
        <4>2. s \in DOMAIN sems
          BY <3>3, <4>1, TableFacts DEF Raises
        <4>3. DOMAIN sems' = DOMAIN sems /\ \A i \in DOMAIN sems : Pids(i)' = IF i = s THEN <<>> ELSE Pids(i)
          BY <3>3, <4>1, OnePids DEF Raises
        <4>4. Waiting(<<>>, s)'
          BY DEF Waiting, Apart
        <4>5. \A q : \A i \in DOMAIN sems \ {s} : Waiting(q, i) => Waiting(q, i)'
          BY <3>1, WaitingStays
        <4> QED BY <4>2, <4>3, <4>4, <4>5, WaitersChange
      <3>4. CASE \E w \in Client : Hands(c, w)
        <4>1. PICK w \in Client : Hands(c, w)
          BY <3>4
        <4>2. at'[w] = "read" /\ at[w] = "asleep"
          BY <4>1, HandMoved DEF Hands
        <4> QED BY <3>1, <4>2
      <3> QED BY <2>1, <3>2, <3>3, <3>4 DEF Halts, GoesOn
    <2>4. ASSUME NEW x \in Client, Hands(c, x) PROVE WaitersInv'
      <3>1. PICK s, p, k : s = id[c] /\ p = Pids(s) /\ k = Passed(p)
        OBVIOUS
      <3>2. PICK w : w = Rest(p, k)
        OBVIOUS
      <3>3. s \in DOMAIN sems /\ Waiting(p, s) /\ Alive(p) # {} /\ x = p[k] /\ id[x] = s
        BY <2>4, <3>1, TableFacts DEF WaitersInv, Hands
      <3>4. p \in Seq(Client) /\ k \in 1..Len(p)
        BY <3>1, <3>3, PassedFacts DEF Waiting
      <3>5. k \in Nat /\ k <= Len(p) /\ k > 0 /\ k \in DOMAIN p
        BY <3>4
      <3>6. w \in Seq(Client) /\ \A l \in DOMAIN w : l + k \in DOMAIN p /\ w[l] = p[l + k]
        BY <3>2, <3>4, <3>5, RestRange
      <3>7. \A l \in DOMAIN w : l \in Nat /\ l > 0
        BY <3>6
      <3>8. \A l \in DOMAIN w : l + k # k
        BY <3>5, <3>7
      <3>9. \A l \in DOMAIN w : w[l] # x
        BY <3>3, <3>5, <3>6, <3>8 DEF Waiting, Apart
      <3>10. \A d \in Client : d # x /\ at[d] \in {"asleep", "dead"} => at'[d] \in {"asleep", "dead"}
        BY <2>1, <2>4, HandMoved
      <3>11. Waiting(w, s)'
        <4>1. \A l \in DOMAIN w : w[l] \in Client
          BY <3>6
        <4>2. \A l \in DOMAIN w : at[w[l]] \in {"asleep", "dead"} /\ id[w[l]] = s
          BY <3>3, <3>6 DEF Waiting
        <4>3. \A l \in DOMAIN w : at'[w[l]] \in {"asleep", "dead"} /\ id'[w[l]] = s
          BY <2>1, <3>9, <3>10, <4>1, <4>2
        <4>4. Apart(w)
          <5>1. \A i, j \in DOMAIN w : w[i] = w[j] => i + k = j + k
            BY <3>3, <3>6 DEF Waiting, Apart
          <5>2. \A i, j \in Nat : i + k = j + k => i = j
            BY <3>5
          <5> QED BY <3>7, <5>1, <5>2 DEF Apart
        <4> QED BY <3>6, <4>3, <4>4 DEF Waiting
      <3>12. ASSUME NEW q, NEW i \in DOMAIN sems \ {s}, Waiting(q, i) PROVE Waiting(q, i)'
        <4>1. \A l \in DOMAIN q : q[l] \in Client /\ at[q[l]] \in {"asleep", "dead"} /\ id[q[l]] = i
          BY <3>12 DEF Waiting
        <4>2. \A l \in DOMAIN q : q[l] # x
          BY <3>3, <4>1
        <4> QED BY <2>1, <3>10, <3>12, <4>1, <4>2 DEF Waiting
      <3>13. DOMAIN sems' = DOMAIN sems /\ \A i \in DOMAIN sems : Pids(i)' = IF i = s THEN w ELSE Pids(i)
        <4>1. SemChanged(s, sems[s].value, sems[s].attached, sems[s].lock, w)
          BY <2>4, <3>1, <3>2 DEF Hands
        <4> QED BY <4>1, OnePids
      <3> QED BY <3>3, <3>11, <3>12, <3>13, WaitersChange
    <2> QED BY <2>1, <2>3, <2>4 DEF Halts, GoesOn, Raises
  <1>7. ASSUME NEW c \in Client, ReadDoes(c) PROVE WaitersInv'
    <2>1. \A d \in Client : at[d] \in {"asleep", "dead"} => at'[d] \in {"asleep", "dead"} /\ id'[d] = id[d]
      BY <1>1, <1>7 DEF ReadDoes, Stages
    <2>2. \A i \in DOMAIN sems' : Pids(i)' = IF i \in DOMAIN sems THEN Pids(i) ELSE <<>>
      BY <1>7, SamePids DEF ReadDoes
    <2> QED BY <2>1, <2>2, WaitersStay
  <1>8. ASSUME NEW c \in Client, KillDoes(c) PROVE WaitersInv'
    <2>1. \A d \in Client : at[d] \in {"asleep", "dead"} => at'[d] \in {"asleep", "dead"} /\ id'[d] = id[d]
      BY <1>8, Moved DEF KillDoes, Stages
    <2>2. \A i \in DOMAIN sems' : Pids(i)' = IF i \in DOMAIN sems THEN Pids(i) ELSE <<>>
      BY <1>8, SamePids DEF KillDoes
    <2> QED BY <2>1, <2>2, WaitersStay
  <1> QED BY <1>2, <1>3, <1>4, <1>5, <1>6, <1>7, <1>8 DEF Does

(* Who uses which name, and who has opened what.                            *)
NamesInv ==
  /\ \A c \in Client : id[c] \in DOMAIN sems =>
       Lower[sems[id[c]].name] = Cell(c) /\ (c \notin Opener => sems[id[c]].name = Unnamed)
  /\ \A i \in DOMAIN sems : sems[i].name = Unnamed <=> Lower[sems[i].name] = Unnamed
  /\ \A i, j \in Table :
       /\ Lower[sems[i].name] = Lower[sems[j].name] /\ sems[i].name # Unnamed
       /\ Lower[sems[i].name] \notin missed
       => i = j

Users(i) == {c \in Client : HasOpened(c) /\ id[c] = i}
Ever(i) == {c \in Client : c \notin Guest /\ id[c] = i}
Counted(i) ==
  /\ Cardinality(Users(i)) <= sems[i].attached /\ sems[i].attached <= Cardinality(Ever(i))
  /\ Lower[sems[i].name] \notin missed => sems[i].attached = Cardinality(Users(i))
UsersInv ==
  /\ \A c \in Opener : HasOpened(c) => id[c] \in DOMAIN sems
  /\ \A i \in DOMAIN sems : sems[i].attached >= 1 /\ (i \notin Table => sems[i].attached = 1)
  /\ \A i \in Table : Counted(i)

LEMMA NamesKept ==
  ASSUME NamesInv, DOMAIN sems' \subseteq DOMAIN sems, \A i \in DOMAIN sems' : sems'[i].name = sems[i].name,
         Table' \subseteq Table, Table' \subseteq DOMAIN sems', missed \subseteq missed',
         \A d \in Client : id'[d] \in DOMAIN sems => id'[d] = id[d] \/ (Lower[sems[id'[d]].name] = Cell(d) /\ d \in Opener)
  PROVE  NamesInv'
  <1>1. ASSUME NEW d \in Client, id'[d] \in DOMAIN sems'
        PROVE  Lower[sems'[id'[d]].name] = Cell(d) /\ (d \notin Opener => sems'[id'[d]].name = Unnamed)
    <2>1. sems'[id'[d]].name = sems[id'[d]].name /\ id'[d] \in DOMAIN sems
      BY <1>1
    <2> QED BY <2>1 DEF NamesInv
  <1>2. \A i \in DOMAIN sems' : sems'[i].name = Unnamed <=> Lower[sems'[i].name] = Unnamed
    BY DEF NamesInv
  <1>3. \A i, j \in Table' :
          /\ Lower[sems'[i].name] = Lower[sems'[j].name] /\ sems'[i].name # Unnamed
          /\ Lower[sems'[i].name] \notin missed'
          => i = j
    BY DEF NamesInv
  <1> QED BY <1>1, <1>2, <1>3 DEF NamesInv, Cell

LEMMA NamesNew ==
  ASSUME TableInv, TypesInv, NamesInv, NEW name, NEW listed \in BOOLEAN, NewSem(name, listed),
         name = Unnamed <=> Lower[name] = Unnamed,
         name # Unnamed /\ Lower[name] \notin missed' => \A i \in Table : Lower[sems[i].name] # Lower[name],
         missed \subseteq missed',
         \A d \in Client : id'[d] = id[d] \/ (id'[d] = semId /\ Lower[name] = Cell(d) /\ (d \notin Opener => name = Unnamed))
  PROVE  NamesInv'
  <1>1. PICK new : new.name = name /\ sems' = Add(sems, semId, new)
    BY DEF NewSem
  <1>2. semId \in Nat /\ semId \notin DOMAIN sems /\ Table \subseteq DOMAIN sems /\ NULL # semId
    BY TableFacts DEF NULL
  <1>3. /\ DOMAIN sems' = DOMAIN sems \cup {semId} /\ sems'[semId] = new
        /\ \A i \in DOMAIN sems : sems'[i] = sems[i] /\ i # semId
    BY <1>1, <1>2 DEF Add
  <1>4. \A d \in Client : id[d] # semId
    BY <1>2 DEF TypesInv
  <1>5. ASSUME NEW d \in Client, id'[d] \in DOMAIN sems'
        PROVE  Lower[sems'[id'[d]].name] = Cell(d) /\ (d \notin Opener => sems'[id'[d]].name = Unnamed)
    <2>1. CASE id'[d] = id[d]
      <3>1. id[d] \in DOMAIN sems /\ sems'[id'[d]] = sems[id[d]]
        BY <1>3, <1>4, <1>5, <2>1
      <3> QED BY <3>1 DEF NamesInv
    <2>2. CASE id'[d] # id[d]
      BY <1>1, <1>3, <2>2
    <2> QED BY <2>1, <2>2
  <1>6. \A i \in DOMAIN sems' : sems'[i].name = Unnamed <=> Lower[sems'[i].name] = Unnamed
    BY <1>1, <1>3 DEF NamesInv
  <1>7. Table' \subseteq Table \cup {semId}
    BY DEF NewSem
  <1>8. ASSUME NEW i \in Table', NEW j \in Table', Lower[sems'[i].name] = Lower[sems'[j].name], sems'[i].name # Unnamed,
               Lower[sems'[i].name] \notin missed'
        PROVE  i = j
    <2>1. CASE i \in Table /\ j \in Table
      BY <1>2, <1>3, <1>8, <2>1 DEF NamesInv
    <2>2. CASE i = semId /\ j \in Table
      BY <1>1, <1>2, <1>3, <1>8, <2>2
    <2>3. CASE i \in Table /\ j = semId
      BY <1>1, <1>2, <1>3, <1>8, <2>3 DEF NamesInv
    <2> QED BY <1>7, <2>1, <2>2, <2>3
  <1> QED BY <1>5, <1>6, <1>8 DEF NamesInv, Cell

LEMMA StepTable ==
  ASSUME TableInv', Table' \subseteq Table
  PROVE  Table' \subseteq DOMAIN sems'
  <1>1. Contents(mem', semQueue') \in Seq(DOMAIN sems')
    BY DEF TableInv, Sound
  <1> QED BY <1>1, TableIs DEF Rng

(* A call that makes no semaphore.                                          *)
LEMMA NothingMade ==
  ASSUME TableInv,
         Still \/ NoSem \/ (\E s \in Table : GoneSem(s)) \/ (\E s, v, a, l, w : SemChanged(s, v, a, l, w))
  PROVE  /\ DOMAIN sems' \subseteq DOMAIN sems /\ \A i \in DOMAIN sems' : sems'[i].name = sems[i].name
         /\ Table' \subseteq Table /\ Table' \subseteq DOMAIN sems' /\ TableInv'
  <1>1. CASE Still \/ NoSem
    BY <1>1, StepTable DEF Still, NoSem
  <1>2. CASE \E s \in Table : GoneSem(s)
    BY <1>2, StepTable DEF GoneSem, Drop
  <1>3. CASE \E s, v, a, l, w : SemChanged(s, v, a, l, w)
    BY <1>3, StepTable DEF SemChanged
  <1> QED BY <1>1, <1>2, <1>3

LEMMA DoesNames ==
  ASSUME TableInv, TypesInv, StagesInv, WaitersInv, NamesInv, Does
  PROVE  NamesInv'
  <1>1. ASSUME UNCHANGED id, missed \subseteq missed',
               Still \/ NoSem \/ (\E s \in Table : GoneSem(s)) \/ (\E s, v, a, l, w : SemChanged(s, v, a, l, w))
        PROVE  NamesInv'
    BY <1>1, NothingMade, NamesKept
  <1>2. ASSUME NEW c \in Client, OpenDoes(c) PROVE NamesInv'
    <2>1. c \in Opener /\ Cell(c) = Lower[Spelling[c]] /\ Lower[Spelling[c]] # Unnamed /\ missed \subseteq missed'
      BY <1>2, NameAssumption DEF OpenDoes, Cell
    <2>2. CASE NoSem /\ UNCHANGED id
      BY <1>1, <2>1, <2>2
    <2>3. ASSUME NEW s \in Table, Lower[sems[s].name] = Cell(c), id' = [id EXCEPT ![c] = s],
                 SemChanged(s, sems[s].value, sems[s].attached + 1, sems[s].lock, Pids(s))
          PROVE  NamesInv'
      <3>1. id'[c] = s /\ \A d \in Client \ {c} : id'[d] = id[d]
        BY <2>3 DEF TypesInv
      <3>2. /\ DOMAIN sems' \subseteq DOMAIN sems /\ \A i \in DOMAIN sems' : sems'[i].name = sems[i].name
            /\ Table' \subseteq Table /\ Table' \subseteq DOMAIN sems'
        BY <2>3, NothingMade
      <3> QED BY <2>1, <2>3, <3>1, <3>2, NamesKept
    <2>4. ASSUME NEW listed \in BOOLEAN, Cell(c) \notin missed' => \A i \in Table : Lower[sems[i].name] # Cell(c),
                 NewSem(Spelling[c], listed), id' = [id EXCEPT ![c] = semId]
          PROVE  NamesInv'
      <3>1. id'[c] = semId /\ \A d \in Client \ {c} : id'[d] = id[d]
        BY <2>4 DEF TypesInv
      <3>2. Spelling[c] # Unnamed
        BY <2>1, NameAssumption
      <3>3. PICK name : name = Spelling[c]
        OBVIOUS
      <3> QED BY <2>1, <2>4, <3>1, <3>2, <3>3, NamesNew
    <2> QED BY <1>2, <2>2, <2>3, <2>4 DEF OpenDoes
  <1>3. ASSUME InitDoes PROVE NamesInv'
    <2>0. missed \subseteq missed'
      BY <1>3 DEF InitDoes
    <2>1. CASE NoSem /\ UNCHANGED id
      BY <1>1, <2>0, <2>1
    <2>2. ASSUME NEW listed \in BOOLEAN, NewSem(Unnamed, listed),
                 id' = [c \in Client |-> IF c = Owner \/ at[c] = "idle" THEN semId ELSE id[c]]
          PROVE  NamesInv'
      <3>1. \A d \in Client : d = Owner \/ at[d] = "idle" => d \notin Opener /\ Cell(d) = Unnamed
        BY Roles DEF StagesInv, Cell
      <3>2. Lower[Unnamed] = Unnamed
        BY NameAssumption
      <3>3. \A d \in Client : id'[d] = id[d] \/ (id'[d] = semId /\ Lower[Unnamed] = Cell(d) /\ d \notin Opener)
        BY <2>2, <3>1, <3>2
      <3> QED BY <2>0, <2>2, <3>2, <3>3, NamesNew
    <2> QED BY <1>3, <2>1, <2>2 DEF InitDoes
  <1>4. ASSUME NEW c \in Client, CloseDoes(c) PROVE NamesInv'
    BY <1>1, <1>4 DEF CloseDoes
  <1>5. ASSUME NEW c \in Client, WaitDoes(c) PROVE NamesInv'
    BY <1>1, <1>5 DEF WaitDoes
  <1>6. ASSUME NEW c \in Client, PostDoes(c) PROVE NamesInv'
    <2>1. /\ UNCHANGED id /\ missed \subseteq missed'
          /\ Halts(c) \/ GoesOn(c) \/ Raises(c) \/ \E w \in Client : Hands(c, w)
      BY <1>6, PostPosts DEF Posts
    <2>2. Still \/ \E s, v, a, l, w : SemChanged(s, v, a, l, w)
      BY <2>1 DEF Halts, GoesOn, Raises, Hands
    <2> QED BY <1>1, <2>1, <2>2
  <1>7. ASSUME NEW c \in Client, ReadDoes(c) \/ KillDoes(c) PROVE NamesInv'
    BY <1>1, <1>7 DEF ReadDoes, KillDoes
  <1> QED BY <1>2, <1>3, <1>4, <1>5, <1>6, <1>7 DEF Does

LEMMA UsersFinite ==
  ASSUME NEW i
  PROVE  IsFiniteSet(Users(i)) /\ Cardinality(Users(i)) \in Nat /\ Cardinality(Users(i)) <= Cardinality(Client)
  <1>1. Users(i) \in SUBSET Client
    BY DEF Users
  <1> QED BY <1>1, ClientFinite, FS_Subset, FS_CardinalityType

LEMMA UsersSame ==
  ASSUME NEW i, \A d \in Client : (HasOpened(d)' /\ id'[d] = i) <=> (HasOpened(d) /\ id[d] = i)
  PROVE  Users(i)' = Users(i)
  BY DEF Users

LEMMA EverFinite ==
  ASSUME NEW i
  PROVE  IsFiniteSet(Ever(i)) /\ Cardinality(Ever(i)) \in Nat /\ Cardinality(Ever(i)) <= Cardinality(Client)
  <1>1. Ever(i) \in SUBSET Client
    BY DEF Ever
  <1> QED BY <1>1, ClientFinite, FS_Subset, FS_CardinalityType

LEMMA EverSame ==
  ASSUME NEW i, \A d \in Client \ Guest : id'[d] = i <=> id[d] = i
  PROVE  Ever(i)' = Ever(i)
  BY DEF Ever

(* What a call makes of the count of semaphore i, a.                        *)
LEMMA CountedNow ==
  ASSUME NEW i, NEW a, sems'[i].attached = a,
         Cardinality(Users(i)') <= a, a <= Cardinality(Ever(i)'),
         Lower[sems'[i].name] \notin missed' => a = Cardinality(Users(i)')
  PROVE  Counted(i)'
  BY DEF Counted

LEMMA CountedStays ==
  ASSUME NEW i, Counted(i), Users(i)' = Users(i), Ever(i)' = Ever(i),
         sems'[i].attached = sems[i].attached, sems'[i].name = sems[i].name, missed \subseteq missed'
  PROVE  Counted(i)'
  BY DEF Counted

(* A call that opens and closes nothing.                                    *)
LEMMA UsersKept ==
  ASSUME TableInv, UsersInv, DOMAIN sems' = DOMAIN sems, Table' = Table, missed \subseteq missed',
         \A i \in DOMAIN sems : sems'[i].attached = sems[i].attached /\ sems'[i].name = sems[i].name,
         UNCHANGED id, \A d \in Opener \cup {Owner} : HasOpened(d)' <=> HasOpened(d)
  PROVE  UsersInv'
  <1>1. \A d \in Client : HasOpened(d)' <=> HasOpened(d)
    BY DEF HasOpened
  <1>2. \A i : Users(i)' = Users(i)
    BY <1>1, UsersSame
  <1>3. \A d \in Opener : HasOpened(d)' => id'[d] \in DOMAIN sems'
    BY DEF UsersInv
  <1>4. \A i \in DOMAIN sems' : sems'[i].attached >= 1 /\ (i \notin Table' => sems'[i].attached = 1)
    BY DEF UsersInv
  <1>5. ASSUME NEW i \in Table' PROVE Counted(i)'
    <2>1. i \in Table /\ i \in DOMAIN sems /\ Counted(i)
      BY <1>5, TableFacts DEF UsersInv
    <2>2. Ever(i)' = Ever(i)
      BY EverSame
    <2> QED BY <1>2, <2>1, <2>2, CountedStays
  <1> QED BY <1>3, <1>4, <1>5 DEF UsersInv

(* The new semaphore has the one user that made it.                         *)
LEMMA UsersNew ==
  ASSUME TableInv, TypesInv, UsersInv, NEW name, NEW listed \in BOOLEAN, NewSem(name, listed),
         NEW c \in Client, HasOpened(c)', id'[c] = semId,
         \A d \in (Opener \cup {Owner}) \ {c} : id'[d] = id[d] /\ (HasOpened(d)' <=> HasOpened(d)),
         id[c] = NULL, missed \subseteq missed'
  PROVE  UsersInv'
  <1>1. PICK new : new.attached = 1 /\ sems' = Add(sems, semId, new)
    BY DEF NewSem
  <1>2. semId \in Nat /\ semId \notin DOMAIN sems /\ Table \subseteq DOMAIN sems
    BY TableFacts
  <1>3. /\ DOMAIN sems' = DOMAIN sems \cup {semId} /\ sems'[semId].attached = 1
        /\ \A i \in DOMAIN sems : sems'[i] = sems[i] /\ i # semId
    BY <1>1, <1>2 DEF Add
  <1>4. /\ \A d \in Client : id[d] # semId
        /\ NULL \notin DOMAIN sems
    BY <1>2, TableFacts DEF TypesInv, NULL
  <1>5. \A d \in Client : HasOpened(d)' => d \in Opener \cup {Owner}
    BY DEF HasOpened
  <1>6. \A d \in Client : HasOpened(d) => d \in Opener \cup {Owner}
    BY DEF HasOpened
  <1>7. PICK n : n = semId
    OBVIOUS
  <1>8. Users(n)' = {c} /\ Ever(n)' = {c}
    <2>1. c \in Opener \cup {Owner} /\ c \notin Guest
      BY <1>5, Roles
    <2>2. \A d \in Client \ Guest : d \in Opener \cup {Owner}
      BY Roles
    <2> QED BY <1>4, <1>5, <1>7, <2>1, <2>2 DEF Users, Ever
  <1>9. ASSUME NEW i \in DOMAIN sems PROVE Users(i)' = Users(i) /\ Ever(i)' = Ever(i)
    <2>1. i # semId /\ i # NULL
      BY <1>2, <1>4
    <2>2. \A d \in Client \ Guest : d \in Opener \cup {Owner}
      BY Roles
    <2> QED BY <1>5, <1>6, <2>1, <2>2, UsersSame, EverSame
  <1>10. \A d \in Opener : HasOpened(d)' => id'[d] \in DOMAIN sems'
    BY <1>3 DEF UsersInv
  <1>11. \A i \in DOMAIN sems' : sems'[i].attached >= 1 /\ (i \notin Table' => sems'[i].attached = 1)
    <2>1. Table \subseteq Table'
      BY DEF NewSem
    <2> QED BY <1>3, <2>1 DEF UsersInv
  <1>12. ASSUME NEW i \in Table' PROVE Counted(i)'
    <2>1. CASE i \in Table
      <3>1. i \in DOMAIN sems /\ Counted(i)
        BY <1>2, <2>1 DEF UsersInv
      <3>2. sems'[i].attached = sems[i].attached /\ sems'[i].name = sems[i].name
        BY <1>3, <3>1
      <3> QED BY <1>9, <3>1, <3>2, CountedStays
    <2>2. CASE i \notin Table
      <3>1. i = n
        BY <1>7, <1>12, <2>2 DEF NewSem
      <3>2. Cardinality(Users(n)') = 1 /\ Cardinality(Ever(n)') = 1
        BY <1>8, FS_Singleton
      <3>3. sems'[i].attached = 1
        BY <1>3, <1>7, <3>1
      <3> QED BY <3>1, <3>2, <3>3, CountedNow
    <2> QED BY <2>1, <2>2
  <1> QED BY <1>10, <1>11, <1>12 DEF UsersInv

(* The last user destroys a semaphore with a name, and one without a name   *)
(* has no opener.                                                           *)
LEMMA GoneUsers ==
  ASSUME TableInv, TypesInv, StagesInv, NamesInv, UsersInv, NEW c \in Client, at[c] = "close", id[c] \in Table,
         sems[id[c]].name = Unnamed \/ sems[id[c]].attached = 1,
         NEW d \in Opener, HasOpened(d), id[d] = id[c]
  PROVE  d = c
  <1>1. d \in Client /\ c \in Opener \cup {Owner} /\ id[c] \in DOMAIN sems /\ NULL \notin DOMAIN sems
    BY Roles, TableFacts DEF StagesInv
  <1>2. Cell(d) # Unnamed
    BY NameAssumption DEF Cell
  <1>3. sems[id[c]].name # Unnamed
    BY <1>1, <1>2 DEF NamesInv
  <1>4. c \in Users(id[c]) /\ d \in Users(id[c])
    BY <1>1 DEF Users, HasOpened
  <1>5. PICK U, n : U = Users(id[c]) /\ n = Cardinality(U)
    OBVIOUS
  <1>6. n <= 1 /\ n \in Nat /\ IsFiniteSet(U)
    <2>1. Cardinality(Users(id[c])) <= 1
      BY <1>3 DEF UsersInv, Counted
    <2> QED BY <1>5, <2>1, UsersFinite
  <1>7. n # 0
    BY <1>4, <1>5, <1>6, FS_EmptySet
  <1>8. n = 1
    BY <1>6, <1>7
  <1>9. PICK x : U = {x}
    BY <1>5, <1>6, <1>8, FS_Singleton
  <1> QED BY <1>4, <1>5, <1>9

LEMMA DoesUsers ==
  ASSUME TableInv, TypesInv, StagesInv, WaitersInv, NamesInv, UsersInv, Does
  PROVE  UsersInv'
  <1>0. /\ Table \subseteq DOMAIN sems /\ NULL \notin DOMAIN sems /\ semId # NULL /\ semId \in Nat
        /\ \A i \in Table : i \in DOMAIN sems /\ i # NULL /\ Counted(i)
        /\ \A i \in DOMAIN sems : sems[i].attached \in Int /\ sems[i].attached >= 1
    <2>1. \A i \in Table : Counted(i)
      BY DEF UsersInv
    <2>2. \A i \in DOMAIN sems : sems[i].attached \in Int /\ sems[i].attached >= 1
      <3>1. \A i \in DOMAIN sems : sems[i] \in Sem
        BY TableFacts
      <3> QED BY <3>1 DEF UsersInv, Sem
    <2> QED BY <2>1, <2>2, TableFacts DEF NULL
  <1>1. ASSUME NEW c \in Client, NEW to \in Stages, Goes(c, to), UNCHANGED id,
               c \in Opener \cup {Owner} => (at[c] # "done" /\ to # "done") \/ id[c] = NULL
        PROVE  \A d \in Opener \cup {Owner} : HasOpened(d)' <=> HasOpened(d)
    <2>1. at'[c] = to /\ \A d \in Client \ {c} : at'[d] = at[d]
      BY <1>1, Moved
    <2> QED BY <1>1, <2>1, Roles DEF HasOpened
  <1>2. ASSUME Still \/ NoSem \/ (\E s, v, l, w : SemChanged(s, v, sems[s].attached, l, w)),
               UNCHANGED id, \A d \in Opener \cup {Owner} : HasOpened(d)' <=> HasOpened(d),
               missed \subseteq missed'
        PROVE  UsersInv'
    <2>1. /\ DOMAIN sems' = DOMAIN sems /\ Table' = Table
          /\ \A i \in DOMAIN sems : sems'[i].attached = sems[i].attached /\ sems'[i].name = sems[i].name
      <3>1. CASE Still \/ NoSem
        BY <3>1 DEF Still, NoSem
      <3>2. CASE \E s, v, l, w : SemChanged(s, v, sems[s].attached, l, w)
        BY <3>2 DEF SemChanged
      <3> QED BY <1>2, <3>1, <3>2
    <2> QED BY <1>2, <2>1, UsersKept
  <1>3. ASSUME NEW c \in Client, OpenDoes(c) PROVE UsersInv'
    <2>1. c \in Opener /\ at[c] = "start" /\ id[c] = NULL /\ missed \subseteq missed'
      BY <1>3 DEF OpenDoes, StagesInv
    <2>2. CASE NoSem /\ UNCHANGED id /\ Goes(c, "done")
      BY <1>1, <1>2, <2>1, <2>2 DEF Stages
    <2>3. ASSUME NEW s, s # NULL, id' = [id EXCEPT ![c] = s], Goes(c, "wait")
          PROVE  /\ id'[c] = s /\ HasOpened(c)' /\ ~HasOpened(c)
                 /\ \A d \in Client \ {c} : id'[d] = id[d] /\ at'[d] = at[d] /\ (HasOpened(d)' <=> HasOpened(d))
      <3>1. id'[c] = s /\ \A d \in Client \ {c} : id'[d] = id[d]
        BY <2>3 DEF TypesInv
      <3>2. at'[c] = "wait" /\ \A d \in Client \ {c} : at'[d] = at[d]
        BY <2>3, Moved DEF Stages
      <3> QED BY <2>1, <2>3, <3>1, <3>2 DEF HasOpened
    <2>4. ASSUME NEW s \in Table, id' = [id EXCEPT ![c] = s], Goes(c, "wait"),
                 SemChanged(s, sems[s].value, sems[s].attached + 1, sems[s].lock, Pids(s))
          PROVE  UsersInv'
      <3>1. /\ id'[c] = s /\ HasOpened(c)' /\ ~HasOpened(c) /\ s \in DOMAIN sems /\ s # NULL
            /\ \A d \in Client \ {c} : id'[d] = id[d] /\ (HasOpened(d)' <=> HasOpened(d))
        BY <1>0, <2>3, <2>4
      <3>2. /\ DOMAIN sems' = DOMAIN sems /\ Table' = Table /\ sems'[s].attached = sems[s].attached + 1
            /\ \A i \in DOMAIN sems : sems'[i].name = sems[i].name
            /\ \A i \in DOMAIN sems \ {s} : sems'[i].attached = sems[i].attached
        BY <2>4, <3>1 DEF SemChanged
      <3>3. /\ Users(s)' = Users(s) \cup {c} /\ c \notin Users(s)
            /\ Ever(s)' = Ever(s) \cup {c} /\ c \notin Ever(s)
        <4>1. c \notin Guest /\ id[c] # s
          BY <2>1, <3>1, Roles
        <4> QED BY <3>1, <4>1 DEF Users, Ever
      <3>4. /\ Cardinality(Users(s)') = Cardinality(Users(s)) + 1
            /\ Cardinality(Ever(s)') = Cardinality(Ever(s)) + 1
        BY <3>3, UsersFinite, EverFinite, FS_AddElement
      <3>5. \A i \in Table \ {s} : Users(i)' = Users(i) /\ Ever(i)' = Ever(i)
        <4> TAKE i \in Table \ {s}
        <4>1. i # NULL
          BY <1>0
        <4> QED BY <2>1, <3>1, <4>1, UsersSame, EverSame
      <3>6. ASSUME NEW i \in Table' PROVE Counted(i)'
        <4>1. i \in Table /\ i \in DOMAIN sems /\ Counted(i)
          BY <1>0, <3>2, <3>6
        <4>2. CASE i # s
          BY <2>1, <3>2, <3>5, <4>1, <4>2, CountedStays
        <4>3. CASE i = s
          <5>1. PICK a, u, e : a = sems[s].attached /\ u = Cardinality(Users(s)) /\ e = Cardinality(Ever(s))
            OBVIOUS
          <5>2. a \in Int /\ u \in Nat /\ e \in Nat /\ u <= a /\ a <= e
                /\ (Lower[sems[s].name] \notin missed => a = u)
            BY <1>0, <3>1, <4>1, <4>3, <5>1, UsersFinite, EverFinite DEF Counted
          <5>3. u + 1 <= a + 1 /\ a + 1 <= e + 1
            BY <5>2
          <5>4. /\ sems'[s].attached = a + 1 /\ Cardinality(Users(s)') = u + 1 /\ Cardinality(Ever(s)') = e + 1
                /\ (Lower[sems'[s].name] \notin missed' => a + 1 = u + 1)
            BY <2>1, <3>1, <3>2, <3>4, <5>1, <5>2
          <5> QED BY <4>3, <5>3, <5>4, CountedNow
        <4> QED BY <4>2, <4>3
      <3>7. \A i \in DOMAIN sems' : sems'[i].attached >= 1 /\ (i \notin Table' => sems'[i].attached = 1)
        BY <1>0, <3>2 DEF UsersInv
      <3>8. \A d \in Opener : HasOpened(d)' => id'[d] \in DOMAIN sems'
        BY <3>1, <3>2, Roles DEF UsersInv
      <3> QED BY <3>6, <3>7, <3>8 DEF UsersInv
    <2>5. ASSUME NEW listed \in BOOLEAN, NewSem(Spelling[c], listed), id' = [id EXCEPT ![c] = semId], Goes(c, "wait")
          PROVE  UsersInv'
      <3>1. /\ id'[c] = semId /\ HasOpened(c)'
            /\ \A d \in Client \ {c} : id'[d] = id[d] /\ (HasOpened(d)' <=> HasOpened(d))
        BY <1>0, <2>3, <2>5
      <3>2. \A d \in (Opener \cup {Owner}) \ {c} : id'[d] = id[d] /\ (HasOpened(d)' <=> HasOpened(d))
        BY <3>1, Roles
      <3> QED BY <2>1, <2>5, <3>1, <3>2, UsersNew
    <2> QED BY <1>3, <2>2, <2>4, <2>5 DEF OpenDoes
  <1>4. ASSUME InitDoes PROVE UsersInv'
    <2>1. Owner \in Client /\ at[Owner] = "start" /\ id[Owner] = NULL /\ missed \subseteq missed'
      BY <1>4, Roles DEF InitDoes, StagesInv
    <2>2. CASE NoSem /\ UNCHANGED id /\ Goes(Owner, "done")
      BY <1>1, <1>2, <2>1, <2>2 DEF Stages
    <2>3. ASSUME NEW listed \in BOOLEAN, NewSem(Unnamed, listed),
                 id' = [c \in Client |-> IF c = Owner \/ at[c] = "idle" THEN semId ELSE id[c]],
                 at' = [c \in Client |-> IF c = Owner THEN "close"
                                         ELSE IF at[c] = "idle" THEN "wait" ELSE at[c]]
          PROVE  UsersInv'
      <3>1. id'[Owner] = semId /\ at'[Owner] = "close" /\ HasOpened(Owner)'
        BY <1>0, <2>1, <2>3 DEF HasOpened
      <3>2. \A d \in Opener : d \in Client /\ d # Owner /\ at[d] # "idle"
        BY Roles DEF StagesInv
      <3>3. \A d \in Opener : id'[d] = id[d] /\ at'[d] = at[d]
        BY <2>3, <3>2
      <3>4. \A d \in (Opener \cup {Owner}) \ {Owner} : id'[d] = id[d] /\ (HasOpened(d)' <=> HasOpened(d))
        BY <3>3 DEF HasOpened
      <3> QED BY <2>1, <2>3, <3>1, <3>4, UsersNew
    <2> QED BY <1>4, <2>2, <2>3 DEF InitDoes
  <1>5. ASSUME NEW c \in Client, CloseDoes(c) PROVE UsersInv'
    <2>1. /\ at[c] = "close" /\ UNCHANGED id /\ c \in Opener \cup {Owner}
          /\ id[c] # NULL /\ HasOpened(c) /\ c \in Users(id[c]) /\ missed \subseteq missed'
      BY <1>5 DEF CloseDoes, StagesInv, Client, HasOpened, Users
    <2>2. ~HasOpened(c)' /\ \A d \in Client \ {c} : HasOpened(d)' <=> HasOpened(d)
      <3>1. at'[c] = "done" /\ \A d \in Client \ {c} : at'[d] = at[d]
        BY <1>5, Moved DEF CloseDoes, Stages
      <3> QED BY <2>1, <3>1 DEF HasOpened
    <2>3. /\ \A i : i # id[c] => Users(i)' = Users(i)
          /\ \A i : Ever(i)' = Ever(i)
      BY <2>1, <2>2, UsersSame, EverSame
    <2>8. PICK s, a, u, e : /\ s = id[c] /\ a = sems[s].attached /\ u = Cardinality(Users(s))
                            /\ e = Cardinality(Ever(s))
      OBVIOUS
    <2>7. Users(s)' = Users(s) \ {c} /\ c \in Users(s)
      BY <2>1, <2>2, <2>8 DEF Users
    <2>9. s \in Table =>
            /\ a \in Int /\ u \in Nat /\ e \in Nat /\ u <= a /\ a <= e
            /\ (Lower[sems[s].name] \notin missed => a = u)
            /\ Cardinality(Users(s)') = u - 1 /\ Cardinality(Ever(s)') = e
      <3>1. Cardinality(Users(s)') = u - 1
        BY <2>7, <2>8, UsersFinite, FS_RemoveElement
      <3> QED BY <1>0, <2>3, <2>8, <3>1, UsersFinite, EverFinite DEF Counted
    <2>4. CASE Lost(c) /\ Still
      <3>1. DOMAIN sems' = DOMAIN sems /\ Table' = Table /\ sems' = sems
        BY <2>4 DEF Still, NoSem
      <3>2. ASSUME NEW i \in Table' PROVE Counted(i)'
        <4>1. i \in Table /\ i \in DOMAIN sems /\ Counted(i)
          BY <1>0, <3>1, <3>2
        <4>2. CASE i # s
          BY <2>1, <2>3, <2>8, <3>1, <4>1, <4>2, CountedStays
        <4>3. CASE i = s
          <5>1. Lower[sems'[s].name] \in missed'
            BY <2>4, <2>8, <3>1, <4>1, <4>3 DEF Lost, NamesInv
          <5>2. u - 1 <= a
            BY <2>9, <4>1, <4>3
          <5> QED BY <2>8, <2>9, <3>1, <4>1, <4>3, <5>1, <5>2, CountedNow
        <4> QED BY <4>2, <4>3
      <3>3. \A d \in Opener : HasOpened(d)' => id'[d] \in DOMAIN sems'
        BY <2>1, <2>2, <3>1, Roles DEF UsersInv
      <3> QED BY <3>1, <3>2, <3>3 DEF UsersInv
    <2>5. CASE /\ id[c] \in Table /\ (sems[id[c]].name = Unnamed \/ sems[id[c]].attached = 1)
               /\ GoneSem(id[c])
      <3>2. /\ DOMAIN sems' = DOMAIN sems \ {s} /\ Table' = Table \ {s}
            /\ \A i \in DOMAIN sems' : sems'[i] = sems[i]
        BY <2>5, <2>8 DEF GoneSem, Drop
      <3>3. ASSUME NEW i \in Table' PROVE Counted(i)'
        <4>1. i \in Table /\ i \in DOMAIN sems' /\ i # s /\ Counted(i)
          BY <1>0, <3>2, <3>3
        <4> QED BY <2>1, <2>3, <2>8, <3>2, <4>1, CountedStays
      <3>4. \A d \in Opener : HasOpened(d)' => id'[d] \in DOMAIN sems'
        <4> TAKE d \in Opener
        <4> HAVE HasOpened(d)'
        <4>1. d # c /\ HasOpened(d) /\ id'[d] = id[d] /\ id[d] \in DOMAIN sems
          BY <2>1, <2>2, Roles DEF UsersInv
        <4>2. id[d] # s
          BY <2>1, <2>5, <2>8, <4>1, GoneUsers
        <4> QED BY <3>2, <4>1, <4>2
      <3>5. \A i \in DOMAIN sems' : sems'[i].attached >= 1 /\ (i \notin Table' => sems'[i].attached = 1)
        BY <3>2 DEF UsersInv
      <3> QED BY <3>3, <3>4, <3>5 DEF UsersInv
    <2>6. CASE /\ id[c] \in Table /\ sems[id[c]].attached # 1
               /\ SemChanged(id[c], sems[id[c]].value, sems[id[c]].attached - 1, sems[id[c]].lock, Pids(id[c]))
      <3>2. s \in DOMAIN sems /\ s \in Table
        BY <1>0, <2>6, <2>8
      <3>3. /\ DOMAIN sems' = DOMAIN sems /\ Table' = Table /\ sems'[s].attached = a - 1
            /\ \A i \in DOMAIN sems : sems'[i].name = sems[i].name
            /\ \A i \in DOMAIN sems \ {s} : sems'[i].attached = sems[i].attached
        BY <2>6, <2>8, <3>2 DEF SemChanged
      <3>6. ASSUME NEW i \in Table' PROVE Counted(i)'
        <4>1. i \in Table /\ i \in DOMAIN sems /\ Counted(i)
          BY <1>0, <3>3, <3>6
        <4>2. CASE i # s
          BY <2>1, <2>3, <2>8, <3>3, <4>1, <4>2, CountedStays
        <4>3. CASE i = s
          <5>1. u - 1 <= a - 1 /\ a - 1 <= e /\ (Lower[sems'[s].name] \notin missed' => a - 1 = u - 1)
            BY <2>1, <2>9, <3>2, <3>3
          <5> QED BY <2>9, <3>2, <3>3, <4>3, <5>1, CountedNow
        <4> QED BY <4>2, <4>3
      <3>7. a >= 1 /\ a # 1 /\ a \in Int
        BY <1>0, <2>6, <2>8, <3>2
      <3>8. \A i \in DOMAIN sems' : sems'[i].attached >= 1 /\ (i \notin Table' => sems'[i].attached = 1)
        BY <3>2, <3>3, <3>7 DEF UsersInv
      <3>9. \A d \in Opener : HasOpened(d)' => id'[d] \in DOMAIN sems'
        BY <2>1, <2>2, <3>3, Roles DEF UsersInv
      <3> QED BY <3>6, <3>8, <3>9 DEF UsersInv
    <2> QED BY <1>5, <2>4, <2>5, <2>6 DEF CloseDoes
  <1>6. ASSUME NEW c \in Client, WaitDoes(c) PROVE UsersInv'
    <2>1. at[c] = "wait" /\ UNCHANGED id /\ missed \subseteq missed'
      BY <1>6 DEF WaitDoes
    <2>2. \E to \in {"read", "halts", "asleep"} : Goes(c, to)
      BY <1>6 DEF WaitDoes
    <2>3. \A d \in Opener \cup {Owner} : HasOpened(d)' <=> HasOpened(d)
      BY <1>1, <2>1, <2>2 DEF Stages
    <2>4. Still \/ \E s, v, l, w : SemChanged(s, v, sems[s].attached, l, w)
      BY <1>6 DEF WaitDoes
    <2> QED BY <1>2, <2>1, <2>3, <2>4
  <1>7. ASSUME NEW c \in Client, PostDoes(c) PROVE UsersInv'
    <2>1. at[c] = "write" /\ UNCHANGED id /\ missed \subseteq missed' /\ (Halts(c) \/ GoesOn(c) \/ Raises(c) \/ \E w \in Client : Hands(c, w))
      BY <1>7, PostPosts DEF Posts
    <2>2. Still \/ \E s, v, l, w : SemChanged(s, v, sems[s].attached, l, w)
      BY <2>1 DEF Halts, GoesOn, Raises, Hands
    <2>3. /\ To(c) \in Stages /\ "halts" \in Stages /\ c # Owner
          /\ (c \in Opener \cup {Owner} => To(c) # "done")
      BY <2>1, Roles DEF To, Stages, StagesInv
    <2>4. \A d \in Opener \cup {Owner} : HasOpened(d)' <=> HasOpened(d)
      <3>1. CASE Goes(c, "halts") \/ Goes(c, To(c))
        BY <1>1, <2>1, <2>3, <3>1
      <3>2. ASSUME NEW w \in Client, Hands(c, w)
            PROVE  \A d \in Opener \cup {Owner} : HasOpened(d)' <=> HasOpened(d)
        <4>1. at[w] = "asleep"
          BY <3>2 DEF Hands
        <4>2. at'[c] = To(c) /\ at'[w] = "read" /\ at[w] = "asleep" /\ \A d \in Client \ {c, w} : at'[d] = at[d]
          BY <3>2, <4>1, HandMoved
        <4>3. \A d \in Opener \cup {Owner} : d \in Client /\ (at'[d] = "done" <=> at[d] = "done")
          BY <2>1, <2>3, <4>2, Roles
        <4> QED BY <2>1, <4>3 DEF HasOpened
      <3> QED BY <2>1, <3>1, <3>2 DEF Halts, GoesOn, Raises
    <2> QED BY <1>2, <2>1, <2>2, <2>4
  <1>8. ASSUME NEW c \in Client, ReadDoes(c) \/ KillDoes(c) PROVE UsersInv'
    <2>1. at[c] # "done" /\ Still /\ UNCHANGED <<id, missed>> /\ \E to \in {"write", "dead"} : Goes(c, to)
      BY <1>8 DEF ReadDoes, KillDoes
    <2>2. \A d \in Opener \cup {Owner} : HasOpened(d)' <=> HasOpened(d)
      BY <1>1, <2>1 DEF Stages
    <2> QED BY <1>2, <2>1, <2>2
  <1> QED BY <1>3, <1>4, <1>5, <1>6, <1>7, <1>8 DEF Does

(* One process at a time is inside, and who took the lock of a semaphore    *)
(* with a name never closes it.                                             *)
Inside(i) == {c \in Client : id[c] = i /\ at[c] \in {"read", "write"}}
Sure(i) == Lower[sems[i].name] \notin missed
Single(i) ==
  /\ sems[i].value \in Nat
  /\ Sure(i) =>
       /\ sems[i].value \in 0..1
       /\ i \in Table /\ ~sems[i].lock =>
            /\ sems[i].value = 1 => Inside(i) = {}
            /\ \A c, d \in Inside(i) : c = d
ValueInv == \A i \in DOMAIN sems : Single(i)
LockInv ==
  \A i \in Table : sems[i].lock /\ sems[i].name # Unnamed /\ Sure(i) =>
    \E c \in Opener : id[c] = i /\ at[c] \in {"read", "write", "dead", "halts"}

LEMMA MissedGrows ==
  ASSUME Does
  PROVE  missed \subseteq missed'
  BY DEF Does, InitDoes, OpenDoes, CloseDoes, WaitDoes, PostDoes, ReadDoes, KillDoes

LEMMA ValueKept ==
  ASSUME ValueInv, DOMAIN sems' \subseteq DOMAIN sems, missed \subseteq missed',
         \A i \in DOMAIN sems' :
           /\ sems'[i].value = sems[i].value /\ sems'[i].name = sems[i].name
           /\ i \in Table' /\ ~sems'[i].lock /\ Lower[sems[i].name] \notin missed' =>
                i \in Table /\ ~sems[i].lock /\ Inside(i)' \subseteq Inside(i)
  PROVE  ValueInv'
  <1>1. ASSUME NEW i \in DOMAIN sems' PROVE Single(i)'
    <2>1. Single(i) /\ sems'[i].value = sems[i].value /\ sems'[i].name = sems[i].name
      BY <1>1 DEF ValueInv
    <2> QED BY <1>1, <2>1 DEF Single, Sure
  <1> QED BY <1>1 DEF ValueInv

LEMMA ValueChanged ==
  ASSUME TableInv, ValueInv, NEW s \in DOMAIN sems, NEW v \in Nat, NEW a, NEW w,
         SemChanged(s, v, a, sems[s].lock, w), missed \subseteq missed',
         Lower[sems[s].name] \notin missed' =>
           v \in 0..1 /\ (v = 1 => Inside(s)' = {}) /\ \A c, d \in Inside(s)' : c = d,
         \A i \in DOMAIN sems \ {s} : Inside(i)' \subseteq Inside(i)
  PROVE  ValueInv'
  <1>1. DOMAIN sems' = DOMAIN sems /\ Table' = Table
    BY DEF SemChanged
  <1>2. ASSUME NEW i \in DOMAIN sems' PROVE Single(i)'
    <2>1. CASE i = s
      <3>1. sems'[i].value = v /\ sems'[i].name = sems[s].name
        BY <2>1 DEF SemChanged
      <3> QED BY <2>1, <3>1 DEF Single, Sure
    <2>2. CASE i # s
      <3>1. /\ i \in DOMAIN sems /\ sems'[i].value = sems[i].value /\ sems'[i].lock = sems[i].lock
            /\ sems'[i].name = sems[i].name
        BY <1>1, <2>2 DEF SemChanged
      <3> QED BY <1>1, <2>2, <3>1 DEF ValueInv, Single, Sure
    <2> QED BY <2>1, <2>2
  <1> QED BY <1>2 DEF ValueInv

LEMMA DoesValue ==
  ASSUME TableInv, TypesInv, StagesInv, WaitersInv, NamesInv, ValueInv, Does
  PROVE  ValueInv'
  <1>0. /\ Table \subseteq DOMAIN sems /\ semId \notin DOMAIN sems /\ \A d \in Client : id[d] # semId
        /\ missed \subseteq missed'
    <2>1. missed \subseteq missed'
      BY MissedGrows, Zenon
    <2>2. Table \subseteq DOMAIN sems /\ semId \notin DOMAIN sems /\ \A d \in Client : id[d] # semId
      BY TableFacts DEF TypesInv, NULL
    <2> QED BY <2>1, <2>2
  <1>1. ASSUME \A i : Inside(i)' \subseteq Inside(i),
               Still \/ NoSem \/ (\E s \in Table : GoneSem(s))
                 \/ (\E s, a, w : SemChanged(s, sems[s].value, a, sems[s].lock, w))
        PROVE  ValueInv'
    <2>1. CASE Still \/ NoSem
      BY <1>0, <1>1, <2>1, ValueKept DEF Still, NoSem
    <2>2. CASE \E s \in Table : GoneSem(s)
      <3>1. /\ DOMAIN sems' \subseteq DOMAIN sems /\ Table' \subseteq Table
            /\ \A i \in DOMAIN sems' : sems'[i] = sems[i]
        BY <2>2 DEF GoneSem, Drop
      <3> QED BY <1>0, <1>1, <3>1, ValueKept
    <2>3. CASE \E s, a, w : SemChanged(s, sems[s].value, a, sems[s].lock, w)
      <3>1. /\ DOMAIN sems' = DOMAIN sems /\ Table' = Table
            /\ \A i \in DOMAIN sems : /\ sems'[i].value = sems[i].value /\ sems'[i].lock = sems[i].lock
                                     /\ sems'[i].name = sems[i].name
        BY <2>3 DEF SemChanged
      <3> QED BY <1>0, <1>1, <3>1, ValueKept
    <2> QED BY <1>1, <2>1, <2>2, <2>3
  <1>2. ASSUME NEW c \in Client, NEW to \in Stages \ {"read", "write"}, Goes(c, to),
               \A d \in Client \ {c} : id'[d] = id[d]
        PROVE  /\ \A i : Inside(i)' \subseteq Inside(i)
               /\ \A i : c \notin Inside(i)'
    <2>1. at'[c] = to /\ \A d \in Client \ {c} : at'[d] = at[d]
      BY <1>2, Moved
    <2> QED BY <1>2, <2>1 DEF Inside
  <1>3. ASSUME NEW name, NEW listed, NewSem(name, listed), \A i \in DOMAIN sems : Inside(i)' \subseteq Inside(i),
               \A d \in Client : id'[d] = semId => at'[d] \notin {"read", "write"}
        PROVE  ValueInv'
    <2>1. PICK new : new.value = 1 /\ sems' = Add(sems, semId, new)
      BY <1>3 DEF NewSem
    <2>2. PICK n : n = semId
      OBVIOUS
    <2>3. /\ DOMAIN sems' = DOMAIN sems \cup {n} /\ sems'[n].value = 1 /\ n \notin DOMAIN sems
          /\ \A i \in DOMAIN sems : sems'[i] = sems[i]
      BY <1>0, <2>1, <2>2 DEF Add
    <2>4. Table' \subseteq Table \cup {n} /\ Inside(n)' = {}
      BY <1>3, <2>2 DEF NewSem, Inside
    <2>5. ASSUME NEW i \in DOMAIN sems' PROVE Single(i)'
      <3>1. CASE i = n
        BY <2>3, <2>4, <3>1 DEF Single
      <3>2. CASE i \in DOMAIN sems
        <4>1. sems'[i] = sems[i] /\ (i \in Table' => i \in Table) /\ Inside(i)' \subseteq Inside(i)
          BY <1>3, <2>3, <2>4, <3>2
        <4> QED BY <1>0, <3>2, <4>1 DEF ValueInv, Single, Sure
      <3> QED BY <2>3, <3>1, <3>2
    <2> QED BY <2>5 DEF ValueInv
  <1>4. ASSUME NEW c \in Client, OpenDoes(c) PROVE ValueInv'
    <2>1. \A d \in Client \ {c} : id'[d] = id[d]
      BY <1>4 DEF OpenDoes, TypesInv
    <2>2. \E to \in {"wait", "done"} : Goes(c, to)
      BY <1>4 DEF OpenDoes
    <2>3. /\ \A i : Inside(i)' \subseteq Inside(i)
          /\ \A i : c \notin Inside(i)'
      BY <1>2, <2>1, <2>2 DEF Stages
    <2>4. CASE \E listed : NewSem(Spelling[c], listed)
      <3>1. \A d \in Client : id'[d] = semId => d = c
        BY <1>0, <2>1
      <3>2. at'[c] \notin {"read", "write"}
        BY <2>2, Moved DEF Stages
      <3> QED BY <1>3, <2>3, <2>4, <3>1, <3>2
    <2> QED BY <1>1, <1>4, <2>3, <2>4 DEF OpenDoes
  <1>5. ASSUME InitDoes PROVE ValueInv'
    <2>1. CASE NoSem /\ UNCHANGED id /\ Goes(Owner, "done")
      BY <1>1, <1>2, <2>1, Roles DEF Stages
    <2>2. ASSUME NEW listed, NewSem(Unnamed, listed),
                 id' = [c \in Client |-> IF c = Owner \/ at[c] = "idle" THEN semId ELSE id[c]],
                 at' = [c \in Client |-> IF c = Owner THEN "close"
                                         ELSE IF at[c] = "idle" THEN "wait" ELSE at[c]]
          PROVE  ValueInv'
      <3>1. \A d \in Client : id'[d] = semId => at'[d] \notin {"read", "write"}
        BY <1>0, <2>2
      <3>2. \A d \in Client : at'[d] \in {"read", "write"} => at[d] = at'[d] /\ id'[d] = id[d]
        BY <2>2
      <3>3. \A i \in DOMAIN sems : Inside(i)' \subseteq Inside(i)
        BY <3>2 DEF Inside
      <3> QED BY <1>3, <2>2, <3>1, <3>3
    <2> QED BY <1>5, <2>1, <2>2 DEF InitDoes
  <1>6. ASSUME NEW c \in Client, CloseDoes(c) PROVE ValueInv'
    <2>1. \A i : Inside(i)' \subseteq Inside(i)
      BY <1>2, <1>6 DEF CloseDoes, Stages
    <2> QED BY <1>1, <1>6, <2>1 DEF CloseDoes
  <1>7. ASSUME NEW c \in Client, WaitDoes(c) PROVE ValueInv'
    <2>1. UNCHANGED id
      BY <1>7 DEF WaitDoes
    <2>2. CASE Goes(c, "halts") \/ Goes(c, "asleep")
      <3>1. \A i : Inside(i)' \subseteq Inside(i)
        BY <1>2, <2>1, <2>2 DEF Stages
      <3>2. ~Goes(c, "read")
        BY <2>2, Moved DEF Stages
      <3> QED BY <1>1, <1>7, <3>1, <3>2 DEF WaitDoes
    <2>3. CASE Goes(c, "read")
      <3>1. at'[c] = "read" /\ \A d \in Client \ {c} : at'[d] = at[d]
        BY <2>3, Moved DEF Stages
      <3>2. PICK s : s = id[c]
        OBVIOUS
      <3>3. \A i : i # s => Inside(i)' = Inside(i)
        BY <2>1, <3>1, <3>2 DEF Inside
      <3>4. Inside(s)' = Inside(s) \cup {c}
        BY <2>1, <3>1, <3>2 DEF Inside
      <3>5. CASE Lost(c) /\ Still
        <4>1. s \in Table => Lower[sems[s].name] \in missed'
          BY <1>0, <3>2, <3>5 DEF Lost, NamesInv
        <4> QED BY <1>0, <3>3, <3>5, <4>1, ValueKept DEF Still, NoSem
      <3>6. CASE /\ s \in Table /\ ~sems[s].lock /\ sems[s].value > 0
                 /\ SemChanged(s, sems[s].value - 1, sems[s].attached, sems[s].lock, Pids(s))
        <4>1. /\ s \in DOMAIN sems /\ sems[s].value \in Nat
              /\ Lower[sems[s].name] \notin missed' => sems[s].value = 1 /\ Inside(s) = {}
          BY <1>0, <3>6 DEF ValueInv, Single, Sure
        <4>2. PICK v : v = sems[s].value - 1
          OBVIOUS
        <4>3. v \in Nat /\ (Lower[sems[s].name] \notin missed' => v = 0)
          BY <3>6, <4>1, <4>2
        <4>4. Lower[sems[s].name] \notin missed' => Inside(s)' = {c}
          BY <3>4, <4>1
        <4> QED BY <1>0, <3>3, <3>6, <4>1, <4>2, <4>3, <4>4, ValueChanged
      <3>7. CASE s \in Table /\ SemChanged(s, sems[s].value, sems[s].attached, TRUE, Pids(s))
        <4>1. /\ DOMAIN sems' = DOMAIN sems /\ Table' = Table /\ sems'[s].lock = TRUE
              /\ \A i \in DOMAIN sems : sems'[i].value = sems[i].value /\ sems'[i].name = sems[i].name
              /\ \A i \in DOMAIN sems \ {s} : sems'[i].lock = sems[i].lock
          BY <1>0, <3>7 DEF SemChanged
        <4> QED BY <1>0, <3>3, <4>1, ValueKept
      <3>8. ~Goes(c, "halts") /\ ~Goes(c, "asleep")
        <4>1. ~Goes(c, "halts")
          BY <3>1, Moved DEF Stages
        <4>2. ~Goes(c, "asleep")
          BY <3>1, Moved DEF Stages
        <4> QED BY <4>1, <4>2
      <3> QED BY <1>7, <3>2, <3>5, <3>6, <3>7, <3>8 DEF WaitDoes
    <2> QED BY <1>7, <2>2, <2>3 DEF WaitDoes
  <1>8. ASSUME NEW c \in Client, PostDoes(c) PROVE ValueInv'
    <2>1. at[c] = "write" /\ UNCHANGED id /\ (Halts(c) \/ GoesOn(c) \/ Raises(c) \/ \E w \in Client : Hands(c, w))
      BY <1>8, PostPosts DEF Posts
    <2>2. To(c) \in Stages \ {"read", "write"} /\ "halts" \in Stages \ {"read", "write"}
      BY DEF To, Stages
    <2>3. CASE Halts(c) \/ GoesOn(c)
      <3>1. Still /\ (Goes(c, "halts") \/ Goes(c, To(c)))
        BY <2>3 DEF Halts, GoesOn
      <3>2. \A i : Inside(i)' \subseteq Inside(i)
        BY <1>2, <2>1, <2>2, <3>1
      <3> QED BY <1>1, <3>1, <3>2
    <2>4. PICK s : s = id[c]
      OBVIOUS
    <2>5. s \in Table /\ ~sems[s].lock =>
            /\ s \in DOMAIN sems /\ c \in Inside(s) /\ sems[s].value \in Nat
            /\ Lower[sems[s].name] \notin missed' => sems[s].value = 0 /\ \A d \in Inside(s) : d = c
      <3>1. c \in Inside(s)
        BY <2>1, <2>4 DEF Inside
      <3>2. s \in Table => s \in DOMAIN sems /\ Single(s)
        BY <1>0 DEF ValueInv
      <3>3. Lower[sems[s].name] \notin missed' => Sure(s)
        BY <1>0 DEF Sure
      <3>4. ASSUME s \in Table, ~sems[s].lock, Sure(s)
            PROVE  sems[s].value = 0 /\ \A d \in Inside(s) : d = c
        <4>1. sems[s].value \in 0..1 /\ sems[s].value # 1 /\ \A d \in Inside(s) : d = c
          BY <3>1, <3>2, <3>4 DEF Single
        <4> QED BY <4>1
      <3>5. s \in Table => sems[s].value \in Nat
        BY <3>2 DEF Single
      <3> QED BY <3>1, <3>2, <3>3, <3>4, <3>5
    <2>6. CASE Raises(c)
      <3>1. s \in Table /\ ~sems[s].lock /\ Goes(c, To(c))
            /\ SemChanged(s, sems[s].value + 1, sems[s].attached, sems[s].lock, <<>>)
        BY <2>4, <2>6 DEF Raises
      <3>2. \A i : Inside(i)' \subseteq Inside(i) /\ c \notin Inside(i)'
        BY <1>2, <2>1, <2>2, <3>1
      <3>3. Lower[sems[s].name] \notin missed' => Inside(s)' = {}
        BY <2>5, <3>1, <3>2
      <3>4. PICK v : v = sems[s].value + 1
        OBVIOUS
      <3>5. v \in Nat /\ (Lower[sems[s].name] \notin missed' => v = 1)
        BY <2>5, <3>1, <3>4
      <3>6. SemChanged(s, v, sems[s].attached, sems[s].lock, <<>>) /\ s \in DOMAIN sems
        BY <2>5, <3>1, <3>4
      <3>7. Lower[sems[s].name] \notin missed' =>
              v \in 0..1 /\ (v = 1 => Inside(s)' = {}) /\ \A d, e \in Inside(s)' : d = e
        BY <3>3, <3>5
      <3>8. \A i \in DOMAIN sems \ {s} : Inside(i)' \subseteq Inside(i)
        BY <3>2
      <3> QED BY <1>0, <3>5, <3>6, <3>7, <3>8, ValueChanged
    <2>7. ASSUME NEW w \in Client, Hands(c, w) PROVE ValueInv'
      <3>1. at'[c] = To(c) /\ at'[w] = "read" /\ w # c /\ \A d \in Client \ {c, w} : at'[d] = at[d]
        BY <2>7, HandMoved
      <3>2. s \in Table /\ ~sems[s].lock /\ id[w] = s
        BY <2>4, <2>7 DEF Hands
      <3>3. PICK u : SemChanged(s, sems[s].value, sems[s].attached, sems[s].lock, u)
        BY <2>4, <2>7 DEF Hands
      <3>4. \A i : i # s => Inside(i)' \subseteq Inside(i)
        BY <2>1, <2>2, <3>1, <3>2 DEF Inside
      <3>5. ASSUME Lower[sems[s].name] \notin missed', NEW d \in Inside(s)' PROVE d = w
        <4>1. d \in Client /\ id[d] = s /\ at'[d] \in {"read", "write"} /\ d # c
          BY <2>1, <2>2, <3>1 DEF Inside
        <4>2. CASE d # w
          <5>1. d \in Inside(s)
            BY <3>1, <4>1, <4>2 DEF Inside
          <5> QED BY <2>5, <3>2, <3>5, <4>1, <5>1
        <4> QED BY <4>2
      <3>6. /\ sems[s].value \in Nat /\ s \in DOMAIN sems
            /\ Lower[sems[s].name] \notin missed' => sems[s].value = 0
        BY <2>5, <3>2
      <3> QED BY <1>0, <3>3, <3>4, <3>5, <3>6, ValueChanged
    <2> QED BY <2>1, <2>3, <2>6, <2>7
  <1>9. ASSUME NEW c \in Client, ReadDoes(c) PROVE ValueInv'
    <2>1. Still /\ UNCHANGED id /\ at[c] = "read" /\ at'[c] = "write" /\ \A d \in Client \ {c} : at'[d] = at[d]
      BY <1>9, Moved DEF ReadDoes, Stages
    <2>2. \A i : Inside(i)' \subseteq Inside(i)
      BY <2>1 DEF Inside
    <2> QED BY <1>1, <2>1, <2>2
  <1>10. ASSUME NEW c \in Client, KillDoes(c) PROVE ValueInv'
    <2>1. \A i : Inside(i)' \subseteq Inside(i)
      BY <1>2, <1>10 DEF KillDoes, Stages
    <2> QED BY <1>1, <1>10, <2>1 DEF KillDoes
  <1> QED BY <1>4, <1>5, <1>6, <1>7, <1>8, <1>9, <1>10 DEF Does

(* The locker of a semaphore is among its users.                            *)
LockersStay ==
  \A d \in Opener :
    /\ id[d] \in Table /\ sems[id[d]].lock /\ Lower[sems[id[d]].name] \notin missed'
    /\ at[d] \in {"read", "write", "dead", "halts"}
    => id'[d] = id[d] /\ at'[d] \in {"read", "write", "dead", "halts"}

LEMMA LockKept ==
  ASSUME TableInv, LockInv, Table' \subseteq Table, missed \subseteq missed',
         \A i \in Table' : sems'[i].name = sems[i].name /\ (sems'[i].lock => sems[i].lock),
         LockersStay
  PROVE  LockInv'
  <1>1. ASSUME NEW i \in Table', sems'[i].lock, sems'[i].name # Unnamed, Sure(i)'
        PROVE  \E c \in Opener : id'[c] = i /\ at'[c] \in {"read", "write", "dead", "halts"}
    <2>1. /\ i \in Table /\ sems[i].lock /\ sems[i].name # Unnamed
          /\ Sure(i) /\ Lower[sems[i].name] \notin missed'
      BY <1>1 DEF Sure
    <2>2. PICK c \in Opener : id[c] = i /\ at[c] \in {"read", "write", "dead", "halts"}
      BY <2>1 DEF LockInv
    <2> QED BY <2>1, <2>2 DEF LockersStay
  <1> QED BY <1>1 DEF LockInv

LEMMA DoesLock ==
  ASSUME TableInv, TypesInv, StagesInv, WaitersInv, NamesInv, LockInv, Does
  PROVE  LockInv'
  <1>0. Table \subseteq DOMAIN sems /\ semId \notin DOMAIN sems /\ missed \subseteq missed'
    BY TableFacts, MissedGrows
  <1>1. ASSUME NEW c \in Client, NEW to \in Stages, Goes(c, to), UNCHANGED id,
               at[c] \in {"read", "write", "dead", "halts"} =>
                 \/ to \in {"read", "write", "dead", "halts"}
                 \/ ~(id[c] \in Table /\ sems[id[c]].lock /\ Lower[sems[id[c]].name] \notin missed')
        PROVE  LockersStay
    BY <1>1, Moved, Roles DEF LockersStay
  <1>2. ASSUME Still \/ NoSem \/ (\E s \in Table : GoneSem(s))
                 \/ (\E s, v, a, w : SemChanged(s, v, a, sems[s].lock, w)),
               LockersStay
        PROVE  LockInv'
    <2>1. /\ Table' \subseteq Table
          /\ \A i \in Table' : sems'[i].name = sems[i].name /\ (sems'[i].lock => sems[i].lock)
      <3>1. CASE Still \/ NoSem
        BY <3>1 DEF Still, NoSem
      <3>2. CASE \E s \in Table : GoneSem(s)
        BY <1>0, <3>2 DEF GoneSem, Drop
      <3>3. CASE \E s, v, a, w : SemChanged(s, v, a, sems[s].lock, w)
        BY <1>0, <3>3 DEF SemChanged
      <3> QED BY <1>2, <3>1, <3>2, <3>3
    <2> QED BY <1>0, <1>2, <2>1, LockKept
  <1>3. ASSUME NEW name, NEW listed, NewSem(name, listed),
               LockersStay
        PROVE  LockInv'
    <2>1. PICK new : new.lock = FALSE /\ sems' = Add(sems, semId, new)
      BY <1>3 DEF NewSem
    <2>2. /\ sems'[semId].lock = FALSE /\ Table' \subseteq Table \cup {semId}
          /\ \A i \in Table : sems'[i] = sems[i]
      BY <1>0, <1>3, <2>1 DEF Add, NewSem
    <2>3. ASSUME NEW i \in Table', sems'[i].lock, sems'[i].name # Unnamed, Sure(i)'
          PROVE  \E c \in Opener : id'[c] = i /\ at'[c] \in {"read", "write", "dead", "halts"}
      <3>1. /\ i \in Table /\ sems[i].lock /\ sems[i].name # Unnamed
            /\ Sure(i) /\ Lower[sems[i].name] \notin missed'
        BY <1>0, <2>2, <2>3 DEF Sure
      <3>2. PICK c \in Opener : id[c] = i /\ at[c] \in {"read", "write", "dead", "halts"}
        BY <3>1 DEF LockInv
      <3> QED BY <1>3, <3>1, <3>2 DEF LockersStay
    <2> QED BY <2>3 DEF LockInv
  <1>4. ASSUME NEW c \in Client, OpenDoes(c) PROVE LockInv'
    <2>1. at[c] = "start" /\ \A d \in Client \ {c} : id'[d] = id[d]
      BY <1>4 DEF OpenDoes, TypesInv
    <2>2. \E to \in {"wait", "done"} : Goes(c, to)
      BY <1>4 DEF OpenDoes
    <2>3. \A d \in Client \ {c} : at'[d] = at[d]
      BY <2>2, Moved DEF Stages
    <2>4. LockersStay
      BY <2>1, <2>3, Roles DEF LockersStay
    <2> QED BY <1>2, <1>3, <1>4, <2>4 DEF OpenDoes
  <1>5. ASSUME InitDoes PROVE LockInv'
    <2>1. CASE NoSem /\ UNCHANGED id /\ Goes(Owner, "done")
      <3>1. Owner \in Client /\ at[Owner] = "start"
        BY <1>5, Roles DEF InitDoes
      <3> QED BY <1>1, <1>2, <2>1, <3>1 DEF Stages
    <2>2. ASSUME NEW listed, NewSem(Unnamed, listed),
                 id' = [c \in Client |-> IF c = Owner \/ at[c] = "idle" THEN semId ELSE id[c]],
                 at' = [c \in Client |-> IF c = Owner THEN "close"
                                         ELSE IF at[c] = "idle" THEN "wait" ELSE at[c]]
          PROVE  LockInv'
      <3>1. \A d \in Opener : at[d] \in {"read", "write", "dead", "halts"} =>
               id'[d] = id[d] /\ at'[d] \in {"read", "write", "dead", "halts"}
        BY <2>2, Roles
      <3> QED BY <1>3, <2>2, <3>1 DEF LockersStay
    <2> QED BY <1>5, <2>1, <2>2 DEF InitDoes
  <1>6. ASSUME NEW c \in Client, CloseDoes(c) PROVE LockInv'
    <2>1. at[c] = "close" /\ Goes(c, "done") /\ UNCHANGED id
      BY <1>6 DEF CloseDoes
    <2>2. LockersStay
      BY <1>1, <2>1 DEF Stages
    <2> QED BY <1>2, <1>6, <2>2 DEF CloseDoes
  <1>7. ASSUME NEW c \in Client, WaitDoes(c) PROVE LockInv'
    <2>1. at[c] = "wait" /\ UNCHANGED id /\ \E to \in {"read", "halts", "asleep"} : Goes(c, to)
      BY <1>7 DEF WaitDoes
    <2>2. LockersStay
      BY <1>1, <2>1 DEF Stages
    <2>3. CASE /\ id[c] \in Table /\ ~sems[id[c]].lock /\ Goes(c, "read")
               /\ SemChanged(id[c], sems[id[c]].value, sems[id[c]].attached, TRUE, Pids(id[c]))
      <3>1. PICK s : s = id[c]
        OBVIOUS
      <3>2. /\ Table' = Table /\ s \in Table
            /\ \A i \in Table : sems'[i].name = sems[i].name /\ (i # s => sems'[i].lock = sems[i].lock)
        BY <1>0, <2>3, <3>1 DEF SemChanged
      <3>3. at'[c] = "read"
        BY <2>3, Moved DEF Stages
      <3>4. ASSUME NEW i \in Table', sems'[i].lock, sems'[i].name # Unnamed, Sure(i)'
            PROVE  \E d \in Opener : id'[d] = i /\ at'[d] \in {"read", "write", "dead", "halts"}
        <4>1. CASE i = s
          <5>1. sems[id[c]].name # Unnamed /\ id[c] \in DOMAIN sems
            BY <1>0, <3>1, <3>2, <3>4, <4>1
          <5>2. c \in Opener
            BY <5>1 DEF NamesInv
          <5> QED BY <2>1, <3>1, <3>3, <4>1, <5>2
        <4>2. CASE i # s
          <5>1. /\ i \in Table /\ sems[i].lock /\ sems[i].name # Unnamed
                /\ Sure(i) /\ Lower[sems[i].name] \notin missed'
            BY <1>0, <3>2, <3>4, <4>2 DEF Sure
          <5>2. PICK d \in Opener : id[d] = i /\ at[d] \in {"read", "write", "dead", "halts"}
            BY <5>1 DEF LockInv
          <5> QED BY <2>2, <5>1, <5>2 DEF LockersStay
        <4> QED BY <4>1, <4>2
      <3> QED BY <3>4 DEF LockInv
    <2> QED BY <1>2, <1>7, <2>2, <2>3 DEF WaitDoes
  <1>8. ASSUME NEW c \in Client, PostDoes(c) PROVE LockInv'
    <2>1. at[c] = "write" /\ UNCHANGED id /\ (Halts(c) \/ GoesOn(c) \/ Raises(c) \/ \E w \in Client : Hands(c, w))
      BY <1>8, PostPosts DEF Posts
    <2>2. To(c) \in Stages /\ "halts" \in Stages
      BY DEF To, Stages
    <2>3. LockersStay
      <3>1. CASE Halts(c)
        BY <1>1, <2>1, <2>2, <3>1 DEF Halts
      <3>2. CASE GoesOn(c) \/ Raises(c)
        <4>1. /\ Goes(c, To(c))
              /\ ~(id[c] \in Table /\ sems[id[c]].lock /\ Lower[sems[id[c]].name] \notin missed')
          BY <1>0, <3>2 DEF GoesOn, Raises, Lost, NamesInv
        <4> QED BY <1>1, <2>1, <2>2, <4>1
      <3>3. ASSUME NEW w \in Client, Hands(c, w), NEW d \in Opener, id[d] \in Table, sems[id[d]].lock,
                   at[d] \in {"read", "write", "dead", "halts"}
            PROVE  id'[d] = id[d] /\ at'[d] \in {"read", "write", "dead", "halts"}
        <4>1. ~sems[id[c]].lock /\ at[w] = "asleep"
          BY <3>3 DEF Hands
        <4>2. \A e \in Client \ {c, w} : at'[e] = at[e]
          BY <3>3, HandMoved
        <4>3. d # c /\ d # w /\ d \in Client
          BY <3>3, <4>1, Roles
        <4> QED BY <2>1, <3>3, <4>2, <4>3
      <3>4. (\E w \in Client : Hands(c, w)) => LockersStay
        BY <3>3 DEF LockersStay
      <3> QED BY <2>1, <3>1, <3>2, <3>4
    <2>4. Still \/ \E s, v, a, w : SemChanged(s, v, a, sems[s].lock, w)
      BY <2>1 DEF Halts, GoesOn, Raises, Hands
    <2> QED BY <1>2, <2>3, <2>4
  <1>9. ASSUME NEW c \in Client, ReadDoes(c) \/ KillDoes(c) PROVE LockInv'
    <2>1. Still /\ UNCHANGED id /\ \E to \in {"write", "dead"} : Goes(c, to)
      BY <1>9 DEF ReadDoes, KillDoes
    <2>2. LockersStay
      BY <1>1, <2>1 DEF Stages
    <2> QED BY <1>2, <2>1, <2>2
  <1> QED BY <1>4, <1>5, <1>6, <1>7, <1>8, <1>9 DEF Does

-----------------------------------------------------------------------------
(* The inductive invariant, but for the counters.                           *)
ClientInv ==
  /\ TypesInv /\ StagesInv /\ CrewInv /\ WaitersInv
  /\ NamesInv /\ UsersInv /\ ValueInv /\ LockInv
IInv == TableInv /\ ClientInv

LEMMA InitClient ==
  ASSUME Init
  PROVE  ClientInv
  <1>1. sems = <<>> /\ DOMAIN sems = {} /\ Table = {} /\ semId = 0
    <2>1. sems = <<>> /\ Table = {} /\ semId = 0
      BY InitTable
    <2> QED BY <2>1
  <1>2. /\ \E crew : at = [c \in Client |-> IF c \notin crew THEN "done"
                                            ELSE IF c \in Guest THEN "idle" ELSE "start"]
        /\ id = [c \in Client |-> NULL] /\ left = [c \in Client |-> Rounds]
    BY DEF Init
  <1>3. Rounds \in Nat /\ Rounds # 0
    BY CounterAssumption
  <1>4. TypesInv
    BY <1>2, <1>3 DEF TypesInv, Stages
  <1>5. \A c \in Client : /\ at[c] \in {"start", "idle", "done"} /\ id[c] = NULL /\ left[c] # 0
                          /\ (at[c] = "idle" => c \in Guest) /\ (at[c] = "start" => c \notin Guest)
    BY <1>2, <1>3
  <1>6. StagesInv
    BY <1>5, Roles DEF StagesInv
  <1>7. CrewInv
    <2>1. Starting \in SUBSET Client
      BY DEF Starting
    <2>2. Cardinality(Starting) \in Nat /\ Cardinality(Starting) <= Cardinality(Client)
      BY <2>1, ClientFinite, FS_Subset, FS_CardinalityType
    <2> QED BY <1>1, <2>2 DEF CrewInv
  <1>8. UsersInv
    BY <1>1, <1>5, Roles DEF UsersInv, HasOpened
  <1> QED BY <1>1, <1>4, <1>6, <1>7, <1>8 DEF ClientInv, WaitersInv, NamesInv, ValueInv, LockInv

LEMMA ClientStays ==
  ASSUME IInv, UNCHANGED vars
  PROVE  IInv'
  <1>1. TableInv'
    BY TableStays DEF IInv
  <1>2. /\ Still /\ UNCHANGED <<at, id, left, semId, sems, missed>> /\ Table' = Table
        /\ \A i \in DOMAIN sems : Pids(i)' = Pids(i)
    BY StillStep DEF IInv, vars, sysVars, Still, NoSem
  <1>3. TypesInv' /\ StagesInv' /\ CrewInv'
    BY <1>2 DEF IInv, ClientInv, TypesInv, StagesInv, CrewInv, Starting
  <1>4. WaitersInv'
    <2>1. ASSUME NEW i \in DOMAIN sems, NEW p, p = Pids(i) PROVE Waiting(p, i)'
      BY <1>2, <2>1 DEF IInv, ClientInv, WaitersInv, Waiting
    <2>2. \A i \in DOMAIN sems' : Waiting(Pids(i), i)'
      BY <1>2, <2>1
    <2> QED BY <2>2 DEF WaitersInv
  <1>5. NamesInv'
    BY <1>2 DEF IInv, ClientInv, NamesInv, Cell
  <1>6. UsersInv'
    BY <1>2, UsersKept DEF IInv, ClientInv, HasOpened
  <1>7. ValueInv'
    BY <1>2 DEF IInv, ClientInv, ValueInv, Single, Sure, Inside
  <1>8. LockInv'
    BY <1>2 DEF IInv, ClientInv, LockInv, Sure
  <1> QED BY <1>1, <1>3, <1>4, <1>5, <1>6, <1>7, <1>8 DEF IInv, ClientInv

LEMMA NextClient ==
  ASSUME IInv, [Next]_vars
  PROVE  IInv'
  <1>1. CASE Next
    <2>1. Does /\ TableInv'
      BY <1>1, NextDoes, DoesTable DEF IInv
    <2> QED BY <2>1, DoesTypes, DoesStages, DoesCrew, DoesWaiters, DoesNames, DoesUsers, DoesValue, DoesLock
            DEF IInv, ClientInv
  <1>2. CASE UNCHANGED vars
    BY <1>2, ClientStays
  <1> QED BY <1>1, <1>2

(* The table and its users fit together after any calls.                    *)
THEOREM IInvHolds == Spec => []IInv
  <1>1. Init => IInv
    BY InitTable, InitClient DEF IInv
  <1>2. IInv /\ [Next]_vars => IInv'
    BY NextClient
  <1> QED BY <1>1, <1>2, PTL DEF Spec

LEMMA TypesOK ==
  ASSUME IInv
  PROVE  TypeOK
  <1>1. /\ TypesInv /\ CrewInv /\ UsersInv /\ ValueInv /\ TableInv
        /\ DOMAIN sems \subseteq 0..(semId - 1) /\ semId \in Nat
    BY TableFacts DEF IInv, ClientInv
  <1>2. DOMAIN mem \subseteq Node /\ semQueue \in QueueType
    <2>1. PICK qs : qs = QsOf(semQueue, sems)
      OBVIOUS
    <2>2. Laid(mem, qs) /\ NULL \in DOMAIN qs /\ qs[NULL] = semQueue
      <3>1. Shape(mem, semQueue, sems, semId)
        BY <1>1, SoundFacts DEF TableInv
      <3> QED BY <1>1, <2>1, <3>1 DEF TableInv, Sound, Shape
    <2>3. Cells(mem) /\ Chain(mem, semQueue, NodesOf(mem, semQueue))
      BY <2>2, LaidFacts
    <2> QED BY <2>3 DEF Cells, Chain
  <1>3. PICK N \in Nat : N = Cardinality(Client)
    BY ClientFinite
  <1>4. semId <= N
    <2>1. Starting \in SUBSET Client
      BY DEF Starting
    <2>2. Cardinality(Starting) \in Nat
      BY <2>1, ClientFinite, FS_Subset, FS_CardinalityType
    <2> QED BY <1>1, <1>3, <2>2 DEF CrewInv
  <1>5. N >= 1
    <2>1. {Owner} \in SUBSET Client
      BY Roles
    <2>2. Cardinality({Owner}) = 1 /\ Cardinality({Owner}) <= Cardinality(Client)
      BY <2>1, ClientFinite, FS_Subset, FS_Singleton
    <2> QED BY <1>3, <2>2
  <1>6. SemId = 0..N
    BY <1>3 DEF SemId
  <1>7. semId \in SemId /\ DOMAIN sems \subseteq SemId /\ 0..(semId - 1) \subseteq SemId
    BY <1>1, <1>4, <1>6
  <1>8. \A i \in DOMAIN sems : sems[i].attached \in 1..N
    <2> TAKE i \in DOMAIN sems
    <2>1. sems[i].attached >= 1
      BY <1>1 DEF UsersInv
    <2>2. CASE i \in Table
      <3>1. sems[i].attached \in Int
        <4>1. sems[i] \in Sem
          BY <1>1, TableFacts
        <4> QED BY <4>1 DEF Sem
      <3>2. Cardinality(Ever(i)) \in Nat /\ Cardinality(Ever(i)) <= N /\ sems[i].attached <= Cardinality(Ever(i))
        BY <1>1, <1>3, <2>2, EverFinite DEF UsersInv, Counted
      <3> QED BY <2>1, <3>1, <3>2
    <2>3. CASE i \notin Table
      BY <1>1, <1>5, <2>3 DEF UsersInv
    <2> QED BY <2>2, <2>3
  <1>9. id \in [Client -> SemId \cup {NULL}]
    BY <1>1, <1>7 DEF TypesInv
  <1>10. \A i \in DOMAIN sems : sems[i].value \in IF Lower[sems[i].name] \in missed THEN Nat ELSE 0..1
    BY <1>1 DEF ValueInv, Single, Sure
  <1> QED BY <1>1, <1>2, <1>3, <1>7, <1>8, <1>9, <1>10 DEF TypeOK, QueueType, TypesInv, Stages

(* Identifiers, counts, places and rounds keep to their ranges, for any      *)
(* calls: a count stays 0 or 1 through semWait and semPost unless find has   *)
(* missed the semaphore and a caller has gone in without a unit, and         *)
(* attached never exceeds the number of processes nor falls to 0 (sem.c).    *)
THEOREM TypesHold == Spec => []TypeOK
  <1>1. IInv => TypeOK
    BY TypesOK
  <1> QED BY <1>1, IInvHolds, PTL

LEMMA OpenedOK ==
  ASSUME IInv
  PROVE  OpenedStays
  <1>1. TableInv /\ NamesInv /\ UsersInv
    BY DEF IInv, ClientInv
  <1>2. \A c \in Opener : HasOpened(c) => id[c] \in DOMAIN sems
    BY <1>1 DEF UsersInv
  <1>3. ASSUME NEW c \in Opener, HasOpened(c), Intact(Cell(c))
        PROVE  id[c] \in Table /\ Lower[sems[id[c]].name] = Cell(c) /\ sems[id[c]].name # Unnamed
    <2>1. id[c] \in DOMAIN sems /\ c \in Client
      BY <1>2, <1>3, Roles
    <2>2. Cell(c) # Unnamed
      BY NameAssumption DEF Cell
    <2>3. Lower[sems[id[c]].name] = Cell(c) /\ sems[id[c]].name # Unnamed
      BY <1>1, <2>1, <2>2 DEF NamesInv
    <2> QED BY <1>3, <2>1, <2>3 DEF Intact, Named
  <1>4. ASSUME NEW c \in Opener, NEW d \in Opener, HasOpened(c), HasOpened(d), Cell(c) = Cell(d), Intact(Cell(c))
        PROVE  id[c] = id[d] /\ id[c] \in Table
    <2>1. /\ id[c] \in Table /\ Lower[sems[id[c]].name] = Cell(c) /\ sems[id[c]].name # Unnamed
          /\ id[d] \in Table /\ Lower[sems[id[d]].name] = Cell(c)
      BY <1>3, <1>4
    <2>2. Cell(c) \notin missed
      BY <1>4 DEF Intact
    <2> QED BY <1>1, <2>1, <2>2 DEF NamesInv
  <1>5. ASSUME NEW k \in DOMAIN GetSemInfo, Lower[GetSemInfo[k].name] \notin missed
        PROVE  GetSemInfo[k].attached = Cardinality({c \in Client : HasOpened(c) /\ id[c] = GetSemInfo[k].id})
    <2>1. PICK ids : ids = Contents(mem, semQueue)
      OBVIOUS
    <2>2. k \in DOMAIN ids
      BY <2>1 DEF GetSemInfo
    <2>3. /\ GetSemInfo[k].attached = sems[ids[k]].attached /\ GetSemInfo[k].id = ids[k]
          /\ GetSemInfo[k].name = sems[ids[k]].name
      BY <2>1, <2>2 DEF GetSemInfo
    <2>4. ids[k] \in Table
      BY <2>1, <2>2, TableIs DEF Rng
    <2>5. sems[ids[k]].attached = Cardinality(Users(ids[k]))
      BY <1>1, <1>5, <2>3, <2>4 DEF UsersInv, Counted
    <2> QED BY <2>3, <2>5 DEF Users
  <1> QED BY <1>2, <1>4, <1>5, Zenon DEF OpenedStays, InTable

(* Nobody destroys the semaphore of an opener before it closes it; until     *)
(* find misses one of a name, or createSem leaves it out of the table, for   *)
(* want of memory, those who open the name share it and find it, and as long *)
(* as find has not missed it the dump counts just those who have it open     *)
(* (semOpen, semClose and getSemInfo in sem.c).                              *)
THEOREM OpenedHolds == Spec => []OpenedStays
  <1>1. IInv => OpenedStays
    BY OpenedOK
  <1> QED BY <1>1, IInvHolds, PTL

(* Who sleeps is in the queue of its semaphore, or stranded.                *)
Queued(c) == id[c] \in Table /\ \E k \in DOMAIN Pids(id[c]) : Pids(id[c])[k] = c

LEMMA StrandedIs ==
  ASSUME TableInv, NEW c
  PROVE  Stranded(c) <=> at[c] = "asleep" /\ ~Queued(c)
  <1>1. GetBlockedPids(id[c]) = IF id[c] \in Table THEN Pids(id[c]) ELSE <<>>
    <2>1. FindSem(id[c]) = (IF id[c] \in Table THEN id[c] ELSE NULL) /\ NULL \notin Table
      BY FindSemIs, TableFacts
    <2> QED BY <2>1 DEF GetBlockedPids, Pids
  <1>2. CASE id[c] \in Table
    BY <1>1, <1>2 DEF Stranded, Queued
  <1>3. CASE id[c] \notin Table
    BY <1>1, <1>3 DEF Stranded, Queued
  <1> QED BY <1>2, <1>3

StrandedMeans == \A c \in Client : Stranded(c) <=> at[c] = "asleep" /\ ~Queued(c)
LEMMA StrandedNow == TableInv => StrandedMeans
  BY StrandedIs DEF StrandedMeans

LEMMA StrandedThen == TableInv' => StrandedMeans'
  BY StrandedNow, PTL

(* Who sleeps in a queue stays there or is woken, unless its semaphore goes. *)
LEMMA DoesStrand ==
  ASSUME IInv, Does, NEW c \in Client, at'[c] = "asleep", at[c] # "asleep" \/ Queued(c)
  PROVE  \/ Queued(c)'
         \/ (c \in Guest /\ at[Owner] = "close" /\ at'[Owner] = "done")
         \/ (at[c] = "wait" /\ "node" \in Faults /\ UNCHANGED sysVars)
  <1>0. /\ TableInv /\ TypesInv /\ StagesInv /\ WaitersInv /\ NamesInv /\ UsersInv
        /\ Table \subseteq DOMAIN sems
    BY TableFacts DEF IInv, ClientInv
  <1>1. ASSUME Queued(c), id'[c] = id[c],
               Still \/ NoSem \/ (\E s \in Table \ {id[c]} : GoneSem(s)) \/ (\E name, listed : NewSem(name, listed))
                 \/ (\E s, v, a, l : SemChanged(s, v, a, l, Pids(s)))
        PROVE  Queued(c)'
    <2>1. PICK i, p : i = id[c] /\ p = Pids(i)
      OBVIOUS
    <2>2. i \in Table /\ i \in DOMAIN sems /\ \E k \in DOMAIN p : p[k] = c
      BY <1>0, <1>1, <2>1 DEF Queued
    <2>3. i \in Table' /\ i \in DOMAIN sems'
      <3>1. CASE Still \/ NoSem
        BY <2>2, <3>1 DEF Still, NoSem
      <3>2. CASE \E s \in Table \ {i} : GoneSem(s)
        BY <2>2, <3>2 DEF GoneSem, Drop
      <3>3. CASE \E name, listed : NewSem(name, listed)
        BY <2>2, <3>3 DEF NewSem, Add
      <3>4. CASE \E s, v, a, l : SemChanged(s, v, a, l, Pids(s))
        BY <2>2, <3>4 DEF SemChanged
      <3> QED BY <1>1, <2>1, <3>1, <3>2, <3>3, <3>4
    <2>4. Pids(i)' = p
      <3>1. \A j \in DOMAIN sems' : Pids(j)' = IF j \in DOMAIN sems THEN Pids(j) ELSE <<>>
        <4>1. Still \/ NoSem \/ (\E s : GoneSem(s)) \/ (\E name, listed : NewSem(name, listed))
                \/ (\E s, v, a, l : SemChanged(s, v, a, l, Pids(s)))
          BY <1>1
        <4> QED BY <1>0, <4>1, SamePids
      <3> QED BY <2>1, <2>2, <2>3, <3>1
    <2>5. id'[c] = i
      BY <1>1, <2>1
    <2> QED BY <2>2, <2>3, <2>4, <2>5 DEF Queued
  <1>2. ASSUME NEW d \in Client, NEW to \in Stages \ {"asleep"}, Goes(d, to)
        PROVE  c # d /\ at[c] = "asleep" /\ Queued(c)
    BY <1>0, <1>2, Moved
  <1>3. ASSUME NEW d \in Client, OpenDoes(d) PROVE Queued(c)'
    <2>1. \E to \in {"wait", "done"} : Goes(d, to)
      BY <1>3 DEF OpenDoes
    <2>2. c # d /\ Queued(c)
      BY <1>2, <2>1 DEF Stages
    <2>3. id'[c] = id[c]
      BY <1>0, <1>3, <2>2 DEF OpenDoes, TypesInv
    <2> QED BY <1>1, <1>3, <2>2, <2>3 DEF OpenDoes
  <1>4. ASSUME InitDoes PROVE Queued(c)'
    <2>1. CASE NoSem /\ UNCHANGED id /\ Goes(Owner, "done")
      <3>1. Queued(c)
        BY <1>2, <2>1, Roles DEF Stages
      <3> QED BY <1>1, <2>1, <3>1
    <2>2. CASE \E listed \in BOOLEAN :
                 /\ NewSem(Unnamed, listed)
                 /\ id' = [x \in Client |-> IF x = Owner \/ at[x] = "idle" THEN semId ELSE id[x]]
                 /\ at' = [x \in Client |-> IF x = Owner THEN "close"
                                            ELSE IF at[x] = "idle" THEN "wait" ELSE at[x]]
      <3>1. at[c] = "asleep" /\ c # Owner
        BY <2>2
      <3>2. id'[c] = id[c]
        BY <2>2, <3>1
      <3> QED BY <1>1, <2>2, <3>1, <3>2
    <2> QED BY <1>4, <2>1, <2>2 DEF InitDoes
  <1>5. ASSUME NEW d \in Client, CloseDoes(d)
        PROVE  Queued(c)' \/ (c \in Guest /\ at[Owner] = "close" /\ at'[Owner] = "done")
    <2>1. at[d] = "close" /\ UNCHANGED id /\ Goes(d, "done")
      BY <1>5 DEF CloseDoes
    <2>2. c # d /\ at[c] = "asleep" /\ Queued(c)
      BY <1>2, <2>1 DEF Stages
    <2>3. CASE ~(id[d] = id[c] /\ GoneSem(id[d]))
      BY <1>1, <1>5, <2>1, <2>2, <2>3 DEF CloseDoes
    <2>4. CASE id[d] = id[c] /\ GoneSem(id[d])
      <3>1. id[d] \in Table
        BY <2>2, <2>4 DEF Queued
      <3>2. sems[id[d]].name = Unnamed \/ sems[id[d]].attached = 1
        <4>1. CASE Still \/ SemChanged(id[d], sems[id[d]].value, sems[id[d]].attached - 1, sems[id[d]].lock, Pids(id[d]))
          BY <2>4, <3>1, <4>1 DEF Still, NoSem, SemChanged, GoneSem
        <4> QED BY <1>5, <4>1 DEF CloseDoes
      <3>3. id[c] # NULL /\ c # Owner /\ id[c] \in DOMAIN sems /\ d \notin Guest
        BY <1>0, <2>1, <2>2, <2>4, <3>1 DEF StagesInv
      <3>4. c \notin Opener
        <4>1. SUFFICES ASSUME c \in Opener PROVE FALSE
          OBVIOUS
        <4>2. HasOpened(c)
          BY <2>2, <3>3, <4>1 DEF HasOpened
        <4>3. c = d
          BY <1>0, <2>1, <2>4, <3>1, <3>2, <4>1, <4>2, GoneUsers
        <4> QED BY <2>2, <4>3
      <3>5. c \in Guest
        BY <3>3, <3>4, Roles
      <3>6. sems[id[c]].name = Unnamed
        BY <1>0, <3>3, <3>4 DEF NamesInv
      <3>7. Lower[sems[id[d]].name] = Cell(d) /\ Cell(d) = Unnamed
        BY <1>0, <2>4, <3>3, <3>6, NameAssumption DEF NamesInv
      <3>8. d \notin Opener
        BY <3>7, NameAssumption DEF Cell
      <3>9. d = Owner
        BY <3>3, <3>8, Roles
      <3>10. at'[d] = "done"
        BY <1>0, <2>1, Moved DEF Stages
      <3> QED BY <2>1, <3>5, <3>9, <3>10
    <2> QED BY <2>3, <2>4
  <1>6. ASSUME NEW d \in Client, WaitDoes(d)
        PROVE  Queued(c)' \/ (at[c] = "wait" /\ "node" \in Faults /\ UNCHANGED sysVars)
    <2>1. UNCHANGED id /\ \E to \in {"read", "halts", "asleep"} : Goes(d, to)
      BY <1>6 DEF WaitDoes
    <2>2. CASE /\ id[d] \in Table /\ Goes(d, "asleep")
               /\ SemChanged(id[d], sems[id[d]].value, sems[id[d]].attached, sems[id[d]].lock, Append(Pids(id[d]), d))
      <3>1. PICK s, p, w : s = id[d] /\ p = Pids(s) /\ w = Append(p, d)
        OBVIOUS
      <3>2. s \in Table /\ s \in DOMAIN sems /\ Waiting(p, s)
        BY <1>0, <2>2, <3>1 DEF WaitersInv
      <3>3. /\ DOMAIN sems' = DOMAIN sems /\ Table' = Table
            /\ \A i \in DOMAIN sems : Pids(i)' = IF i = s THEN w ELSE Pids(i)
        <4>1. SemChanged(s, sems[s].value, sems[s].attached, sems[s].lock, w)
          BY <2>2, <3>1
        <4> QED BY <4>1 DEF SemChanged
      <3>4. PICK L \in Nat : L = Len(p) /\ DOMAIN p = 1..L
        BY <3>2 DEF Waiting
      <3>5. DOMAIN w = 1..(L + 1) /\ w[L + 1] = d /\ \A k \in 1..L : w[k] = p[k] /\ k \in DOMAIN w
        BY <3>1, <3>2, <3>4 DEF Waiting
      <3>6. CASE c = d
        <4>1. L + 1 \in DOMAIN w
          BY <3>5
        <4> QED BY <2>1, <3>1, <3>2, <3>3, <3>5, <3>6, <4>1 DEF Queued
      <3>7. CASE c # d
        <4>1. Queued(c)
          BY <1>0, <2>2, <3>7, Moved DEF Stages
        <4>2. PICK i, q : i = id[c] /\ q = Pids(i)
          OBVIOUS
        <4>3. i \in Table /\ i \in DOMAIN sems /\ \E k \in DOMAIN q : q[k] = c
          BY <1>0, <4>1, <4>2 DEF Queued
        <4>4. \E k \in DOMAIN Pids(i)' : Pids(i)'[k] = c
          <5>1. CASE i = s
            <6>1. q = p /\ Pids(i)' = w
              BY <3>1, <3>3, <4>2, <4>3, <5>1
            <6>2. PICK k \in 1..L : p[k] = c
              BY <3>4, <4>3, <6>1
            <6> QED BY <3>5, <6>1, <6>2
          <5>2. CASE i # s
            BY <3>3, <4>2, <4>3, <5>2
          <5> QED BY <5>1, <5>2
        <4>5. Pids(i)' = Pids(id[c])' /\ id'[c] = i
          BY <2>1, <4>2
        <4> QED BY <3>3, <4>3, <4>4, <4>5 DEF Queued
      <3> QED BY <3>6, <3>7
    <2>3. CASE "node" \in Faults /\ UNCHANGED sysVars /\ Goes(d, "asleep") /\ Still
      <3>1. CASE c = d
        BY <1>6, <2>3, <3>1 DEF WaitDoes
      <3>2. CASE c # d
        <4>1. Queued(c)
          BY <1>0, <2>3, <3>2, Moved DEF Stages
        <4> QED BY <1>1, <2>1, <2>3, <4>1
      <3> QED BY <3>1, <3>2
    <2>4. CASE Still \/ SemChanged(id[d], sems[id[d]].value - 1, sems[id[d]].attached, sems[id[d]].lock, Pids(id[d]))
               \/ SemChanged(id[d], sems[id[d]].value, sems[id[d]].attached, TRUE, Pids(id[d]))
      <3>1. CASE \E to \in {"read", "halts"} : Goes(d, to)
        <4>1. Queued(c)
          BY <1>2, <3>1 DEF Stages
        <4> QED BY <1>1, <2>1, <2>4, <4>1
      <3>2. CASE ~\E to \in {"read", "halts"} : Goes(d, to)
        BY <1>6, <2>2, <2>3, <3>2 DEF WaitDoes
      <3> QED BY <3>1, <3>2
    <2> QED BY <1>6, <2>2, <2>3, <2>4 DEF WaitDoes
  <1>7. ASSUME NEW d \in Client, PostDoes(d) PROVE Queued(c)'
    <2>1. at[d] = "write" /\ UNCHANGED id /\ (Halts(d) \/ GoesOn(d) \/ Raises(d) \/ \E w \in Client : Hands(d, w))
      BY <1>0, <1>7, PostPosts DEF Posts
    <2>2. To(d) \in Stages \ {"asleep"} /\ "halts" \in Stages \ {"asleep"}
      BY DEF To, Stages
    <2>3. CASE Halts(d) \/ GoesOn(d)
      <3>1. Queued(c)
        BY <1>2, <2>2, <2>3 DEF Halts, GoesOn
      <3> QED BY <1>1, <2>1, <2>3, <3>1 DEF Halts, GoesOn
    <2>4. ASSUME Queued(c), at[c] = "asleep", NEW s \in Table, NEW w, NEW v, NEW a, NEW l, SemChanged(s, v, a, l, w),
                 id[c] = s => \E k \in DOMAIN w : w[k] = c
          PROVE  Queued(c)'
      <3>1. PICK i, q : i = id[c] /\ q = Pids(i)
        OBVIOUS
      <3>2. i \in Table /\ i \in DOMAIN sems /\ \E k \in DOMAIN q : q[k] = c
        BY <1>0, <2>4, <3>1 DEF Queued
      <3>3. Table' = Table /\ Pids(i)' = IF i = s THEN w ELSE q
        BY <2>4, <3>1, <3>2 DEF SemChanged
      <3>4. \E k \in DOMAIN Pids(i)' : Pids(i)'[k] = c
        BY <2>4, <3>1, <3>2, <3>3
      <3>5. id'[c] = i
        BY <2>1, <3>1
      <3> QED BY <3>2, <3>3, <3>4, <3>5 DEF Queued
    <2>5. CASE Raises(d)
      <3>1. PICK s, p : s = id[d] /\ p = Pids(s)
        OBVIOUS
      <3>2. s \in Table /\ Alive(p) = {} /\ Goes(d, To(d))
            /\ SemChanged(s, sems[s].value + 1, sems[s].attached, sems[s].lock, <<>>)
        BY <2>5, <3>1 DEF Raises
      <3>3. Queued(c) /\ at[c] = "asleep"
        BY <1>2, <2>2, <3>2
      <3>4. id[c] # s
        BY <3>1, <3>2, <3>3 DEF Queued, Alive
      <3> QED BY <2>4, <3>2, <3>3, <3>4
    <2>6. ASSUME NEW x \in Client, Hands(d, x) PROVE Queued(c)'
      <3>1. PICK s, p, k : s = id[d] /\ p = Pids(s) /\ k = Passed(p)
        OBVIOUS
      <3>2. PICK w : w = Rest(p, k)
        OBVIOUS
      <3>3. s \in Table /\ s \in DOMAIN sems /\ Waiting(p, s) /\ Alive(p) # {} /\ x = p[k]
        BY <1>0, <2>6, <3>1 DEF WaitersInv, Hands
      <3>4. p \in Seq(Client) /\ k \in 1..Len(p) /\ \A l \in 1..Len(p) : l < k => at[p[l]] = "dead"
        BY <3>1, <3>3, PassedFacts DEF Waiting
      <3>5. PICK L \in Nat : L = Len(p) /\ DOMAIN p = 1..L /\ k \in 1..L
        BY <3>4
      <3>6. DOMAIN w = 1..(L - k) /\ \A l \in DOMAIN w : w[l] = p[l + k]
        BY <3>2, <3>5 DEF Rest
      <3>7. c # d /\ c # x /\ at[c] = "asleep" /\ Queued(c)
        <4>1. at'[d] = To(d) /\ at'[x] = "read" /\ \A e \in Client \ {d, x} : at'[e] = at[e]
          BY <1>0, <2>6, HandMoved
        <4> QED BY <2>2, <4>1
      <3>8. SemChanged(s, sems[s].value, sems[s].attached, sems[s].lock, w)
        BY <2>6, <3>1, <3>2 DEF Hands
      <3>9. ASSUME id[c] = s PROVE \E l \in DOMAIN w : w[l] = c
        <4>1. PICK j \in 1..L : p[j] = c
          BY <3>1, <3>5, <3>7, <3>9 DEF Queued
        <4>2. ~(j < k) /\ j # k
          BY <3>3, <3>4, <3>5, <3>7, <4>1
        <4>3. PICK l \in 1..(L - k) : l + k = j
          <5>1. j - k \in 1..(L - k) /\ (j - k) + k = j
            BY <3>5, <4>1, <4>2
          <5> QED BY <5>1
        <4> QED BY <3>6, <4>1, <4>3
      <3> QED BY <2>4, <3>3, <3>7, <3>8, <3>9
    <2> QED BY <2>1, <2>3, <2>5, <2>6
  <1>8. ASSUME NEW d \in Client, ReadDoes(d) \/ KillDoes(d) PROVE Queued(c)'
    <2>1. Still /\ UNCHANGED id /\ \E to \in {"write", "dead"} : Goes(d, to)
      BY <1>8 DEF ReadDoes, KillDoes
    <2>2. Queued(c)
      BY <1>2, <2>1 DEF Stages
    <2> QED BY <1>1, <2>1, <2>2
  <1> QED BY <1>3, <1>4, <1>5, <1>6, <1>7, <1>8 DEF Does

(* A process asleep is in the queue of a semaphore in the table, until the  *)
(* owner closes one without a name under its guests (semClose in sem.c      *)
(* frees the pids and wakes nobody), unless it went to sleep without memory *)
(* for its node (enqueue, whose answer semWait does not look at): nothing   *)
(* else semClose, semPost or a kill does, and no other malloc that fails,   *)
(* takes a sleeper out of its queue without waking it.                      *)
THEOREM OnlyCloseOrMemoryStrands == Spec => StrandedByCloseOrMemory
  <1>1. ASSUME IInv, IInv', [Next]_vars
        PROVE  [\A c \in Client : Stranded(c)' /\ ~Stranded(c) =>
                  \/ c \in Guest /\ at[Owner] = "close" /\ at'[Owner] = "done"
                  \/ at[c] = "wait" /\ "node" \in Faults /\ UNCHANGED sysVars]_vars
    <2>1. StrandedMeans /\ StrandedMeans'
      BY <1>1, StrandedNow, StrandedThen DEF IInv
    <2>2. CASE Next
      <3>1. Does
        BY <1>1, <2>2, NextDoes DEF IInv
      <3>2. ASSUME NEW c \in Client, Stranded(c)', ~Stranded(c)
            PROVE  \/ c \in Guest /\ at[Owner] = "close" /\ at'[Owner] = "done"
                   \/ at[c] = "wait" /\ "node" \in Faults /\ UNCHANGED sysVars
        <4>1. at'[c] = "asleep" /\ ~Queued(c)' /\ (at[c] # "asleep" \/ Queued(c))
          BY <2>1, <3>2 DEF StrandedMeans
        <4> QED BY <1>1, <3>1, <4>1, DoesStrand
      <3> QED BY <3>2
    <2> QED BY <1>1, <2>2
  <1> QED BY <1>1, IInvHolds, PTL DEF Spec, StrandedByCloseOrMemory

-----------------------------------------------------------------------------
(* The table as its abstract specification sees it.                         *)
Seen == [i \in Table |-> [value |-> sems[i].value, waiters |-> Pids(i)]]

(* The process a semPost wakes, and what it makes of a semaphore.           *)
FirstAlive(w) ==
  CHOOSE k \in 1..(Len(w) + 1) : (k <= Len(w) => w[k] \notin Dead) /\ \A l \in 1..(k - 1) : w[l] \in Dead
PostSeen(s) ==
  IF FirstAlive(s.waiters) > Len(s.waiters) THEN [value |-> s.value + 1, waiters |-> <<>>]
  ELSE [s EXCEPT !.waiters = SubSeq(@, FirstAlive(@) + 1, Len(@))]

LEMMA PostedIs ==
  ASSUME NEW t
  PROVE  Promise!Posted(t) = {[t EXCEPT ![i] = PostSeen(@)] : i \in DOMAIN t}
  BY DEF Promise!Posted, PostSeen, FirstAlive

LEMMA FirstAliveIs ==
  ASSUME NEW p \in Seq(Client), NEW n, n = IF Alive(p) = {} THEN Len(p) + 1 ELSE Passed(p)
  PROVE  FirstAlive(p) = n
  <1>1. PICK L \in Nat : L = Len(p) /\ DOMAIN p = 1..L /\ \A k \in 1..L : p[k] \in Client
    OBVIOUS
  <1>2. \A k \in 1..L : p[k] \in Dead <=> at[p[k]] = "dead"
    BY <1>1 DEF Dead
  <1>3. n \in 1..(L + 1) /\ (n <= L => p[n] \notin Dead) /\ \A l \in 1..(n - 1) : l \in 1..L /\ p[l] \in Dead
    <2>1. CASE Alive(p) = {}
      <3>1. n = L + 1 /\ \A l \in 1..L : at[p[l]] = "dead"
        BY <1>1, <2>1, PassedFacts
      <3> QED BY <1>2, <3>1
    <2>2. CASE Alive(p) # {}
      <3>1. n \in 1..L /\ at[p[n]] # "dead" /\ \A l \in 1..L : l < n => at[p[l]] = "dead"
        BY <1>1, <2>2, PassedFacts
      <3>2. \A l \in 1..(n - 1) : l \in 1..L /\ l < n
        BY <3>1
      <3> QED BY <1>2, <3>1, <3>2
    <2> QED BY <2>1, <2>2
  <1>4. ASSUME NEW k \in 1..(L + 1), k <= L => p[k] \notin Dead, \A l \in 1..(k - 1) : p[l] \in Dead
        PROVE  k = n
    <2>1. CASE k < n
      <3>1. k \in 1..(n - 1)
        BY <1>3, <2>1
      <3> QED BY <1>1, <1>3, <1>4, <3>1
    <2>2. CASE n < k
      <3>1. n \in 1..(k - 1) /\ n <= L
        BY <1>3, <1>4, <2>2
      <3> QED BY <1>3, <1>4, <3>1
    <2> QED BY <1>3, <2>1, <2>2
  <1>5. FirstAlive(p) = CHOOSE k \in 1..(L + 1) : (k <= L => p[k] \notin Dead) /\ \A l \in 1..(k - 1) : p[l] \in Dead
    BY <1>1 DEF FirstAlive
  <1> QED BY <1>3, <1>4, <1>5

LEMMA RestIs ==
  ASSUME NEW p \in Seq(Client), NEW k \in Nat, k <= Len(p)
  PROVE  SubSeq(p, k + 1, Len(p)) = Rest(p, k)
  <1>1. PICK L \in Nat : L = Len(p) /\ p \in [1..L -> Client] /\ k <= L
    OBVIOUS
  <1>2. SubSeq(p, k + 1, L) = [l \in 1..(L - k) |-> p[l + k]]
    <2>1. SubSeq(p, k + 1, L) = [l \in 1..(L - (k + 1) + 1) |-> p[l + (k + 1) - 1]]
      BY <1>1
    <2>2. L - (k + 1) + 1 = L - k /\ \A l \in 1..(L - k) : l + (k + 1) - 1 = l + k
      BY <1>1
    <2> QED BY <2>1, <2>2
  <1> QED BY <1>1, <1>2 DEF Rest

LEMMA SeenStays ==
  ASSUME Table' = Table, \A i \in Table : sems'[i].value = sems[i].value /\ Pids(i)' = Pids(i)
  PROVE  Seen' = Seen
  BY DEF Seen

LEMMA SeenChanged ==
  ASSUME TableInv, NEW s \in Table, NEW v, NEW a, NEW l, NEW w, SemChanged(s, v, a, l, w)
  PROVE  Seen' = [Seen EXCEPT ![s] = [value |-> v, waiters |-> w]]
  <1>1. Table' = Table /\ \A i \in Table : sems'[i].value = (IF i = s THEN v ELSE sems[i].value)
                                         /\ Pids(i)' = IF i = s THEN w ELSE Pids(i)
    BY TableFacts DEF SemChanged
  <1> QED BY <1>1 DEF Seen

LEMMA DeadStays ==
  ASSUME TypesInv, NEW c \in Client, at[c] # "dead", NEW to \in Stages \ {"dead"}, Goes(c, to)
  PROVE  Dead' = Dead
  BY Moved DEF Dead

LEMMA SeenCreated ==
  ASSUME TableInv, semId \in SemId, NEW name, NEW listed \in BOOLEAN, NewSem(name, listed)
  PROVE  Seen' = Seen \/ Seen' \in Promise!Created(Seen)
  <1>1. PICK new : new.value = 1 /\ sems' = Add(sems, semId, new)
    BY DEF NewSem
  <1>2. PICK n : n = semId
    OBVIOUS
  <1>3. n \notin DOMAIN sems /\ Table \subseteq DOMAIN sems /\ n \in SemId
    BY <1>2, TableFacts
  <1>4. /\ sems'[n].value = 1 /\ \A i \in Table : sems'[i] = sems[i] /\ Pids(i)' = Pids(i)
        /\ Pids(n)' = <<>>
    BY <1>1, <1>2, <1>3 DEF Add, NewSem
  <1>5. CASE ~listed
    <2>1. Table' = Table
      BY <1>5 DEF NewSem
    <2> QED BY <1>4, <2>1, SeenStays
  <1>6. CASE listed
    <2>1. Table' = Table \cup {n}
      BY <1>2, <1>6 DEF NewSem
    <2>2. Seen' = [j \in Table \cup {n} |-> IF j = n THEN [value |-> 1, waiters |-> <<>>] ELSE Seen[j]]
      BY <1>3, <1>4, <2>1 DEF Seen
    <2>3. DOMAIN Seen = Table /\ n \in SemId \ DOMAIN Seen
      BY <1>3 DEF Seen
    <2>4. \E i \in SemId \ DOMAIN Seen, v \in 0..1 :
            Seen' = [j \in DOMAIN Seen \cup {i} |-> IF j = i THEN [value |-> v, waiters |-> <<>>] ELSE Seen[j]]
      BY <2>2, <2>3
    <2> QED BY <2>4 DEF Promise!Created
  <1> QED BY <1>5, <1>6

LEMMA SeenDestroyed ==
  ASSUME TableInv, NEW s \in Table, GoneSem(s)
  PROVE  Seen' \in Promise!Destroyed(Seen)
  <1>1. Table' = Table \ {s} /\ \A i \in Table' : sems'[i] = sems[i] /\ Pids(i)' = Pids(i)
    BY TableFacts DEF GoneSem, Drop
  <1>2. Seen' = [j \in Table \ {s} |-> Seen[j]] /\ DOMAIN Seen = Table
    BY <1>1 DEF Seen
  <1> QED BY <1>2 DEF Promise!Destroyed

(* What a semWait of c makes of the semaphores t.                           *)
WaitSeen(t, i, c) ==
  IF t[i].value > 0 THEN [t EXCEPT ![i].value = @ - 1] ELSE [t EXCEPT ![i].waiters = Append(@, c)]

LEMMA WaitedIs ==
  ASSUME NEW t
  PROVE  Promise!Waited(t) = {WaitSeen(t, i, c) : i \in DOMAIN t, c \in Client \ Dead}
  BY DEF Promise!Waited, WaitSeen

LEMMA WaitSeenIs ==
  ASSUME NEW t, NEW s \in DOMAIN t, NEW v \in Int, NEW p, t[s] = [value |-> v, waiters |-> p], NEW c
  PROVE  WaitSeen(t, s, c) = [t EXCEPT ![s] = IF v > 0 THEN [value |-> v - 1, waiters |-> p]
                                              ELSE [value |-> v, waiters |-> Append(p, c)]]
  <1>1. t[s].value = v /\ t[s].waiters = p
    OBVIOUS
  <1>2. CASE v > 0
    <2>1. PICK u : u = v - 1
      OBVIOUS
    <2>2. [t[s] EXCEPT !.value = u] = [value |-> u, waiters |-> p]
      OBVIOUS
    <2>3. [t EXCEPT ![s].value = u] = [t EXCEPT ![s] = [value |-> u, waiters |-> p]]
      BY <2>2
    <2>4. WaitSeen(t, s, c) = [t EXCEPT ![s].value = u]
      BY <1>1, <1>2, <2>1 DEF WaitSeen
    <2> QED BY <1>2, <2>1, <2>3, <2>4
  <1>3. CASE ~(v > 0)
    <2>1. PICK w : w = Append(p, c)
      OBVIOUS
    <2>2. [t[s] EXCEPT !.waiters = w] = [value |-> v, waiters |-> w]
      OBVIOUS
    <2>3. [t EXCEPT ![s].waiters = w] = [t EXCEPT ![s] = [value |-> v, waiters |-> w]]
      BY <2>2
    <2>4. WaitSeen(t, s, c) = [t EXCEPT ![s].waiters = w]
      BY <1>1, <1>3, <2>1 DEF WaitSeen
    <2> QED BY <1>3, <2>1, <2>3, <2>4
  <1> QED BY <1>2, <1>3

(* Each call is an operation on the counts, or none.                        *)
LEMMA DoesPromised ==
  ASSUME IInv, Does
  PROVE  \/ Dead' = Dead /\ Seen' = Seen
         \/ /\ Dead' = Dead
            /\ Seen' \in Promise!Created(Seen) \cup Promise!Destroyed(Seen)
                         \cup Promise!Waited(Seen) \cup Promise!Posted(Seen)
         \/ \E c \in Client : Dead' = Dead \cup {c} /\ Seen' = Seen
  <1>0. /\ TableInv /\ TypesInv /\ StagesInv /\ WaitersInv /\ ValueInv
        /\ Table \subseteq DOMAIN sems /\ semId \in SemId
    <2>1. TypeOK
      BY TypesOK
    <2> QED BY <2>1, TableFacts DEF IInv, ClientInv, TypeOK
  <1>1. ASSUME Still \/ NoSem \/ \E s, a, l : SemChanged(s, sems[s].value, a, l, Pids(s))
        PROVE  Seen' = Seen
    <2>1. Table' = Table /\ \A i \in Table : sems'[i].value = sems[i].value /\ Pids(i)' = Pids(i)
      <3>1. CASE Still \/ NoSem
        BY <1>0, <3>1 DEF Still, NoSem
      <3>2. CASE \E s, a, l : SemChanged(s, sems[s].value, a, l, Pids(s))
        BY <1>0, <3>2 DEF SemChanged
      <3> QED BY <1>1, <3>1, <3>2
    <2> QED BY <2>1, SeenStays
  <1>2. ASSUME NEW c \in Client, OpenDoes(c)
        PROVE  Dead' = Dead /\ (Seen' = Seen \/ Seen' \in Promise!Created(Seen))
    <2>1. Dead' = Dead
      <3>1. at[c] = "start" /\ \E to \in {"wait", "done"} : Goes(c, to)
        BY <1>2 DEF OpenDoes
      <3> QED BY <1>0, <3>1, DeadStays DEF Stages
    <2>2. CASE \E listed \in BOOLEAN : NewSem(Spelling[c], listed)
      BY <1>0, <2>1, <2>2, SeenCreated
    <2> QED BY <1>1, <1>2, <2>1, <2>2 DEF OpenDoes
  <1>3. ASSUME InitDoes
        PROVE  Dead' = Dead /\ (Seen' = Seen \/ Seen' \in Promise!Created(Seen))
    <2>1. CASE NoSem /\ Goes(Owner, "done")
      <3>1. at[Owner] = "start" /\ Owner \in Client
        BY <1>3, Roles DEF InitDoes
      <3>2. Dead' = Dead
        BY <1>0, <2>1, <3>1, DeadStays DEF Stages
      <3> QED BY <1>1, <2>1, <3>2
    <2>2. CASE /\ \E listed \in BOOLEAN : NewSem(Unnamed, listed)
               /\ at' = [x \in Client |-> IF x = Owner THEN "close"
                                          ELSE IF at[x] = "idle" THEN "wait" ELSE at[x]]
      <3>1. Dead' = Dead
        BY <1>3, <2>2 DEF InitDoes, Dead
      <3> QED BY <1>0, <2>2, <3>1, SeenCreated
    <2> QED BY <1>3, <2>1, <2>2 DEF InitDoes
  <1>4. ASSUME NEW c \in Client, CloseDoes(c)
        PROVE  Dead' = Dead /\ (Seen' = Seen \/ Seen' \in Promise!Destroyed(Seen))
    <2>1. Dead' = Dead
      BY <1>0, <1>4, DeadStays DEF CloseDoes, Stages
    <2>2. CASE id[c] \in Table /\ GoneSem(id[c])
      BY <1>0, <2>1, <2>2, SeenDestroyed
    <2> QED BY <1>1, <1>4, <2>1, <2>2 DEF CloseDoes
  <1>5. ASSUME NEW c \in Client, WaitDoes(c)
        PROVE  Dead' = Dead /\ (Seen' = Seen \/ Seen' \in Promise!Waited(Seen))
    <2>1. at[c] = "wait" /\ \E to \in {"read", "halts", "asleep"} : Goes(c, to)
      BY <1>5 DEF WaitDoes
    <2>2. Dead' = Dead
      BY <1>0, <2>1, DeadStays DEF Stages
    <2>3. PICK s, p : s = id[c] /\ p = Pids(s)
      OBVIOUS
    <2>4. /\ DOMAIN Seen = Table /\ c \in Client \ Dead
          /\ s \in Table => Seen[s] = [value |-> sems[s].value, waiters |-> p]
      BY <2>1, <2>3 DEF Seen, Dead
    <2>5. ASSUME s \in Table, Seen' = WaitSeen(Seen, s, c)
          PROVE  Seen' \in Promise!Waited(Seen)
      <3>1. Seen' \in {WaitSeen(Seen, i, d) : i \in DOMAIN Seen, d \in Client \ Dead}
        BY <2>4, <2>5
      <3> QED BY <3>1, WaitedIs
    <2>6. s \in Table => sems[s].value \in Int
      BY <1>0 DEF ValueInv, Single
    <2>7. CASE /\ s \in Table /\ sems[s].value > 0
               /\ SemChanged(s, sems[s].value - 1, sems[s].attached, sems[s].lock, p)
      <3>1. Seen' = [Seen EXCEPT ![s] = [value |-> sems[s].value - 1, waiters |-> p]]
        BY <1>0, <2>7, SeenChanged
      <3>2. PICK v \in Int : v = sems[s].value
        BY <2>6, <2>7
      <3>3. WaitSeen(Seen, s, c) = [Seen EXCEPT ![s] = IF v > 0 THEN [value |-> v - 1, waiters |-> p]
                                                       ELSE [value |-> v, waiters |-> Append(p, c)]]
        BY <2>4, <2>7, <3>2, WaitSeenIs
      <3>4. Seen' = WaitSeen(Seen, s, c)
        BY <2>7, <3>1, <3>2, <3>3
      <3> QED BY <2>2, <2>5, <2>7, <3>4
    <2>8. CASE /\ s \in Table /\ sems[s].value = 0
               /\ SemChanged(s, sems[s].value, sems[s].attached, sems[s].lock, Append(p, c))
      <3>1. PICK w : w = Append(p, c)
        OBVIOUS
      <3>2. Seen' = [Seen EXCEPT ![s] = [value |-> sems[s].value, waiters |-> w]]
        BY <1>0, <2>8, <3>1, SeenChanged
      <3>3. PICK v \in Int : v = sems[s].value
        BY <2>6, <2>8
      <3>4. WaitSeen(Seen, s, c) = [Seen EXCEPT ![s] = IF v > 0 THEN [value |-> v - 1, waiters |-> p]
                                                       ELSE [value |-> v, waiters |-> Append(p, c)]]
        BY <2>4, <2>8, <3>3, WaitSeenIs
      <3>5. ~(v > 0)
        BY <2>8, <3>3
      <3>6. Seen' = WaitSeen(Seen, s, c)
        BY <3>1, <3>2, <3>3, <3>4, <3>5
      <3> QED BY <2>2, <2>5, <2>8, <3>6
    <2> QED BY <1>1, <1>5, <2>2, <2>3, <2>7, <2>8 DEF WaitDoes
  <1>6. ASSUME NEW c \in Client, PostDoes(c)
        PROVE  Dead' = Dead /\ (Seen' = Seen \/ Seen' \in Promise!Posted(Seen))
    <2>1. at[c] = "write" /\ UNCHANGED id /\ (Halts(c) \/ GoesOn(c) \/ Raises(c) \/ \E w \in Client : Hands(c, w))
      BY <1>0, <1>6, PostPosts DEF Posts
    <2>2. To(c) \in Stages \ {"dead"} /\ "halts" \in Stages \ {"dead"} /\ at[c] # "dead"
      BY <2>1 DEF To, Stages
    <2>3. PICK s, p : s = id[c] /\ p = Pids(s)
      OBVIOUS
    <2>4. /\ DOMAIN Seen = Table
          /\ s \in Table => /\ Seen[s] = [value |-> sems[s].value, waiters |-> p]
                            /\ p \in Seq(Client) /\ s \in DOMAIN sems
      <3>1. s \in Table => Waiting(p, s) /\ s \in DOMAIN sems
        BY <1>0, <2>3 DEF WaitersInv
      <3> QED BY <2>3, <3>1 DEF Seen, Waiting
    <2>5. CASE Halts(c) \/ GoesOn(c)
      BY <1>0, <1>1, <2>2, <2>5, DeadStays DEF Halts, GoesOn
    <2>6. ASSUME s \in Table, NEW x, x = PostSeen(Seen[s]), Seen' = [Seen EXCEPT ![s] = x]
          PROVE  Seen' \in Promise!Posted(Seen)
      <3>1. Seen' \in {[Seen EXCEPT ![i] = PostSeen(@)] : i \in DOMAIN Seen}
        BY <2>4, <2>6
      <3> QED BY <3>1, PostedIs
    <2>7. CASE Raises(c)
      <3>1. /\ s \in Table /\ Alive(p) = {} /\ Goes(c, To(c))
            /\ SemChanged(s, sems[s].value + 1, sems[s].attached, sems[s].lock, <<>>)
        BY <2>3, <2>7 DEF Raises
      <3>2. Dead' = Dead
        BY <1>0, <2>2, <3>1, DeadStays
      <3>3. PICK x : x = [value |-> sems[s].value + 1, waiters |-> <<>>]
        OBVIOUS
      <3>4. Seen' = [Seen EXCEPT ![s] = x]
        BY <1>0, <3>1, <3>3, SeenChanged
      <3>5. FirstAlive(p) = Len(p) + 1
        BY <2>4, <3>1, FirstAliveIs
      <3>6. FirstAlive(p) > Len(p)
        BY <2>4, <3>1, <3>5
      <3>7. x = PostSeen(Seen[s])
        <4>1. Seen[s].waiters = p /\ Seen[s].value = sems[s].value
          BY <2>4, <3>1
        <4> QED BY <3>3, <3>6, <4>1 DEF PostSeen
      <3> QED BY <2>6, <3>1, <3>2, <3>4, <3>7
    <2>8. ASSUME NEW w \in Client, Hands(c, w)
          PROVE  Dead' = Dead /\ (Seen' = Seen \/ Seen' \in Promise!Posted(Seen))
      <3>1. PICK k, r : k = Passed(p) /\ r = Rest(p, k)
        OBVIOUS
      <3>2. /\ s \in Table /\ Alive(p) # {} /\ at[w] = "asleep"
            /\ SemChanged(s, sems[s].value, sems[s].attached, sems[s].lock, r)
        BY <2>3, <2>8, <3>1 DEF Hands
      <3>3. Dead' = Dead
        <4>1. at'[c] = To(c) /\ at'[w] = "read" /\ \A e \in Client \ {c, w} : at'[e] = at[e]
          BY <1>0, <2>8, HandMoved
        <4> QED BY <2>2, <3>2, <4>1 DEF Dead
      <3>4. PICK x : x = [value |-> sems[s].value, waiters |-> r]
        OBVIOUS
      <3>5. Seen' = [Seen EXCEPT ![s] = x]
        BY <1>0, <3>2, <3>4, SeenChanged
      <3>6. FirstAlive(p) = k
        BY <2>4, <3>1, <3>2, FirstAliveIs
      <3>7. k \in 1..Len(p) /\ k \in Nat /\ k <= Len(p) /\ ~(k > Len(p))
        <4>1. k \in 1..Len(p)
          BY <2>4, <3>1, <3>2, PassedFacts
        <4>2. Len(p) \in Nat
          BY <2>4, <3>2
        <4> QED BY <4>1, <4>2
      <3>8. SubSeq(p, k + 1, Len(p)) = r
        BY <2>4, <3>1, <3>2, <3>7, RestIs
      <3>9. x = PostSeen(Seen[s])
        <4>1. Seen[s].waiters = p
          BY <2>4, <3>2
        <4>2. PostSeen(Seen[s]) = [Seen[s] EXCEPT !.waiters = SubSeq(p, k + 1, Len(p))]
          BY <3>6, <3>7, <4>1 DEF PostSeen
        <4>3. [Seen[s] EXCEPT !.waiters = r] = x
          BY <2>4, <3>2, <3>4
        <4> QED BY <3>8, <4>2, <4>3
      <3> QED BY <2>6, <3>2, <3>3, <3>5, <3>9
    <2> QED BY <2>1, <2>5, <2>7, <2>8
  <1>7. ASSUME NEW c \in Client, ReadDoes(c) PROVE Dead' = Dead /\ Seen' = Seen
    BY <1>0, <1>1, <1>7, DeadStays DEF ReadDoes, Stages
  <1>8. ASSUME NEW c \in Client, KillDoes(c) PROVE Dead' = Dead \cup {c} /\ Seen' = Seen
    <2>1. at'[c] = "dead" /\ \A d \in Client \ {c} : at'[d] = at[d]
      BY <1>0, <1>8, Moved DEF KillDoes, Stages
    <2>2. Dead' = Dead \cup {c}
      BY <2>1 DEF Dead
    <2> QED BY <1>1, <1>8, <2>2 DEF KillDoes
  <1> QED BY <1>2, <1>3, <1>4, <1>5, <1>6, <1>7, <1>8 DEF Does

(* Through every list operation the semaphores in the table are counts with *)
(* their sleepers in the order they came, and semPost wakes the first that  *)
(* is alive (semWait and semPost in sem.c).  No malloc that fails in the    *)
(* calls, for the semaphore, its queue, its name or node, a pid or its      *)
(* node, or the iterator of find, breaks that: such a call is one of the    *)
(* operations, or none.                                                     *)
THEOREM SemTablePromises == Spec => SemaphoresPromised
  <1>1. Init => Promise!Init
    <2>1. SUFFICES ASSUME Init PROVE Promise!Init
      OBVIOUS
    <2>2. Table = {}
      BY <2>1, InitTable
    <2>3. Dead = {}
      BY <2>1 DEF Init, Dead
    <2> QED BY <2>2, <2>3 DEF Promise!Init
  <1>2. ASSUME IInv, [Next]_vars
        PROVE  [Promise!Next]_(Promise!vars)
    <2>1. CASE Next
      <3>1. Does
        BY <1>2, <2>1, NextDoes DEF IInv
      <3>2. CASE Dead' = Dead /\ Seen' = Seen
        BY <3>2 DEF Promise!vars, Seen, Pids
      <3>3. CASE /\ Dead' = Dead
                 /\ Seen' \in Promise!Created(Seen) \cup Promise!Destroyed(Seen)
                              \cup Promise!Waited(Seen) \cup Promise!Posted(Seen)
        <4>1. Promise!Operation
          BY <3>3, Zenon DEF Promise!Operation, Seen, Pids
        <4> QED BY <4>1 DEF Promise!Next
      <3>4. CASE \E c \in Client : Dead' = Dead \cup {c} /\ Seen' = Seen
        BY <3>4 DEF Promise!Next, Promise!Kill, Seen, Pids
      <3> QED BY <1>2, <3>1, <3>2, <3>3, <3>4, DoesPromised
    <2>2. CASE UNCHANGED vars
      BY <2>2 DEF vars, Promise!vars, Table, Dead
    <2> QED BY <1>2, <2>1, <2>2
  <1> QED BY <1>1, <1>2, IInvHolds, PTL DEF Spec, SemaphoresPromised, Promise!Spec

-----------------------------------------------------------------------------
(* The counters.  A sum over a finite set, as FoldSet takes it.              *)
Sum(w, S) == FoldSet(LAMBDA c, n : n + w[c], 0, S)
First(s) == CHOOSE x \in s : TRUE
SumStep(w, f, s) == IF s = {} THEN 0 ELSE f[s \ {First(s)}] + w[First(s)]
Sums(w, f, D) == f = [s \in D |-> SumStep(w, f, s)]
UpTo(S, e) == {s \in SUBSET S : Cardinality(s) <= e}

LEMMA Smaller ==
  ASSUME NEW S, IsFiniteSet(S), NEW s \in SUBSET S, s # {}
  PROVE  /\ First(s) \in s /\ s \ {First(s)} \in SUBSET S
         /\ Cardinality(s) \in Nat \ {0} /\ Cardinality(s \ {First(s)}) = Cardinality(s) - 1
  <1>1. IsFiniteSet(s) /\ First(s) \in s
    BY FS_Subset DEF First
  <1>2. Cardinality(s) \in Nat /\ Cardinality(s) # 0
    BY <1>1, FS_CardinalityType, FS_EmptySet
  <1> QED BY <1>1, <1>2, FS_RemoveElement

LEMMA SumsExist ==
  ASSUME NEW S, IsFiniteSet(S), NEW w
  PROVE  \E f : Sums(w, f, SUBSET S)
  <1> DEFINE Bad == {e \in Nat : ~\E f : Sums(w, f, UpTo(S, e))}
  <1>1. Bad = {}
    <2> SUFFICES ASSUME Bad # {} PROVE FALSE
      OBVIOUS
    <2>1. PICK e \in Bad : \A l \in Bad : e <= l
      BY Least
    <2>3. e # 0
      <3> DEFINE f == [s \in UpTo(S, 0) |-> 0]
      <3>1. \A s \in UpTo(S, 0) : s = {}
        <4> TAKE s \in UpTo(S, 0)
        <4>1. s # {} => Cardinality(s) \in Nat \ {0} /\ Cardinality(s) <= 0
          BY Smaller DEF UpTo
        <4> QED BY <4>1
      <3>2. \A s \in UpTo(S, 0) : SumStep(w, f, s) = 0
        BY <3>1 DEF SumStep
      <3>3. Sums(w, f, UpTo(S, 0))
        BY <3>2 DEF Sums
      <3> QED BY <3>3
    <2>4. PICK f : Sums(w, f, UpTo(S, e - 1))
      <3>1. e - 1 \in Nat /\ e - 1 \notin Bad
        BY <2>1, <2>3
      <3> QED BY <3>1
    <2> DEFINE g == [s \in UpTo(S, e) |-> IF s \in UpTo(S, e - 1) THEN f[s] ELSE SumStep(w, f, s)]
    <2>5. ASSUME NEW s \in UpTo(S, e)
          PROVE  g[s] = SumStep(w, g, s)
      <3>1. s # {} => s \ {First(s)} \in UpTo(S, e - 1) /\ s \ {First(s)} \in UpTo(S, e)
        <4> SUFFICES ASSUME s # {} PROVE s \ {First(s)} \in UpTo(S, e - 1) /\ s \ {First(s)} \in UpTo(S, e)
          OBVIOUS
        <4>1. Cardinality(s) \in Nat /\ Cardinality(s \ {First(s)}) = Cardinality(s) - 1
              /\ s \ {First(s)} \in SUBSET S /\ Cardinality(s) <= e /\ e \in Nat
          BY <2>1, Smaller DEF UpTo
        <4> QED BY <4>1 DEF UpTo
      <3>2. s # {} => g[s \ {First(s)}] = f[s \ {First(s)}]
        BY <3>1
      <3>3. SumStep(w, g, s) = SumStep(w, f, s)
        BY <3>2 DEF SumStep
      <3>4. s \in UpTo(S, e - 1) => f[s] = SumStep(w, f, s)
        BY <2>4 DEF Sums
      <3> QED BY <3>3, <3>4
    <2>6. Sums(w, g, UpTo(S, e))
      BY <2>5 DEF Sums
    <2> QED BY <2>1, <2>6
  <1>2. PICK e \in Nat : e = Cardinality(S)
    BY FS_CardinalityType
  <1>3. UpTo(S, e) = SUBSET S
    BY <1>2, FS_Subset DEF UpTo
  <1>4. e \notin Bad
    BY <1>1
  <1> QED BY <1>2, <1>3, <1>4

LEMMA SumIs ==
  ASSUME NEW S, IsFiniteSet(S), NEW w
  PROVE  \E f : Sums(w, f, SUBSET S) /\ Sum(w, S) = f[S]
  <1>1. PICK g : g = CHOOSE f : f = [s \in SUBSET S |-> IF s = {} THEN 0
                                     ELSE f[s \ {CHOOSE x \in s : TRUE}] + w[CHOOSE x \in s : TRUE]]
    OBVIOUS
  <1>2. \E f : f = [s \in SUBSET S |-> IF s = {} THEN 0
                    ELSE f[s \ {CHOOSE x \in s : TRUE}] + w[CHOOSE x \in s : TRUE]]
    <2>1. PICK f : Sums(w, f, SUBSET S)
      BY SumsExist
    <2> QED BY <2>1, Zenon DEF Sums, SumStep, First
  <1>3. g = [s \in SUBSET S |-> IF s = {} THEN 0
             ELSE g[s \ {CHOOSE x \in s : TRUE}] + w[CHOOSE x \in s : TRUE]]
    BY <1>1, <1>2, Zenon
  <1>4. Sum(w, S) = g[S]
    BY <1>1, Zenon DEF Sum, FoldSet, MapThenFoldSet
  <1>5. Sums(w, g, SUBSET S)
    BY <1>3, Zenon DEF Sums, SumStep, First
  <1> QED BY <1>4, <1>5

(* Weights that differ by d in one place give sums that do.                 *)
Shifted(v, w, S, c, d) ==
  /\ IsFiniteSet(S) /\ d \in Int
  /\ \A x \in S : w[x] \in Int /\ v[x] = IF x = c THEN w[x] + d ELSE w[x]

LEMMA SumChange ==
  ASSUME NEW S, NEW w, NEW v, NEW c, NEW d, Shifted(v, w, S, c, d)
  PROVE  Sum(w, S) \in Int /\ Sum(v, S) = IF c \in S THEN Sum(w, S) + d ELSE Sum(w, S)
  <1>0. /\ IsFiniteSet(S) /\ d \in Int
        /\ \A x \in S : w[x] \in Int /\ v[x] = IF x = c THEN w[x] + d ELSE w[x]
    BY DEF Shifted
  <1>1. PICK f : Sums(w, f, SUBSET S) /\ Sum(w, S) = f[S]
    BY <1>0, SumIs
  <1>2. PICK g : Sums(v, g, SUBSET S) /\ Sum(v, S) = g[S]
    BY <1>0, SumIs
  <1> DEFINE Good(s) == f[s] \in Int /\ g[s] = IF c \in s THEN f[s] + d ELSE f[s]
             Bad == {e \in Nat : \E s \in SUBSET S : Cardinality(s) = e /\ ~Good(s)}
  <1>3. Bad = {}
    <2> SUFFICES ASSUME Bad # {} PROVE FALSE
      OBVIOUS
    <2>1. PICK e \in Bad : \A l \in Bad : e <= l
      BY Least
    <2>2. PICK s \in SUBSET S : Cardinality(s) = e /\ ~Good(s)
      BY <2>1
    <2>3. f[s] = SumStep(w, f, s) /\ g[s] = SumStep(v, g, s)
      BY <1>1, <1>2 DEF Sums
    <2>4. CASE s = {}
      BY <2>2, <2>3, <2>4, <1>0 DEF SumStep
    <2>5. CASE s # {}
      <3>1. PICK x, t : x = First(s) /\ t = s \ {x}
        OBVIOUS
      <3>2. x \in s /\ t \in SUBSET S /\ e \in Nat \ {0} /\ Cardinality(t) = e - 1
        BY <1>0, <2>2, <2>5, <3>1, Smaller
      <3>3. Good(t)
        <4>1. e - 1 \in Nat /\ ~(e <= e - 1)
          BY <3>2
        <4>2. e - 1 \notin Bad
          BY <2>1, <4>1
        <4> QED BY <3>2, <4>1, <4>2
      <3>4. f[s] = f[t] + w[x] /\ g[s] = g[t] + v[x]
        BY <2>3, <2>5, <3>1 DEF SumStep
      <3>5. w[x] \in Int /\ v[x] = IF x = c THEN w[x] + d ELSE w[x]
        BY <1>0, <3>2
      <3>6. c \in t <=> c \in s /\ c # x
        BY <3>1
      <3> QED BY <1>0, <2>2, <3>2, <3>3, <3>4, <3>5, <3>6
    <2> QED BY <2>4, <2>5
  <1>4. Good(S)
    <2>1. Cardinality(S) \in Nat
      BY <1>0, FS_CardinalityType
    <2> QED BY <1>3, <2>1
  <1> QED BY <1>1, <1>2, <1>4

LEMMA SumZero ==
  ASSUME NEW S, IsFiniteSet(S), NEW w, \A x \in S : w[x] = 0
  PROVE  Sum(w, S) = 0
  <1>1. PICK f : Sums(w, f, SUBSET S) /\ Sum(w, S) = f[S]
    BY SumIs
  <1> DEFINE Bad == {e \in Nat : \E s \in SUBSET S : Cardinality(s) = e /\ f[s] # 0}
  <1>2. Bad = {}
    <2> SUFFICES ASSUME Bad # {} PROVE FALSE
      OBVIOUS
    <2>1. PICK e \in Bad : \A l \in Bad : e <= l
      BY Least
    <2>2. PICK s \in SUBSET S : Cardinality(s) = e /\ f[s] # 0
      BY <2>1
    <2>3. f[s] = SumStep(w, f, s)
      BY <1>1 DEF Sums
    <2>4. s # {}
      BY <2>2, <2>3 DEF SumStep
    <2>5. PICK x, t : x = First(s) /\ t = s \ {x}
      OBVIOUS
    <2>6. x \in s /\ t \in SUBSET S /\ e \in Nat \ {0} /\ Cardinality(t) = e - 1
      BY <2>2, <2>4, <2>5, Smaller
    <2>7. f[t] = 0
      <3>1. e - 1 \in Nat /\ ~(e <= e - 1)
        BY <2>6
      <3>2. e - 1 \notin Bad
        BY <2>1, <3>1
      <3> QED BY <2>6, <3>1, <3>2
    <2>8. f[s] = f[t] + w[x] /\ w[x] = 0
      BY <2>3, <2>4, <2>5, <2>6 DEF SumStep
    <2> QED BY <2>2, <2>7, <2>8
  <1>3. Cardinality(S) \in Nat
    BY FS_CardinalityType
  <1> QED BY <1>1, <1>2, <1>3

-----------------------------------------------------------------------------
(* The counter of a name is exact in order: find has not missed its          *)
(* semaphore, which is in the table, and was not left with its lock taken.  *)
InOrder(name) ==
  name \notin missed /\ \A i \in DOMAIN sems : Lower[sems[i].name] = name => i \in Table /\ ~sems[i].lock
Added == [c \in Opener |-> (Rounds - left[c]) * Amount[c]]
Shared == {Cell(c) : c \in Opener}
Sharing(name) == {c \in Opener : Cell(c) = name}
NumbersInv ==
  /\ aux \in [Client -> Int] /\ global \in [{Cell(c) : c \in Client} -> Int]
Exact(name) ==
  /\ global[name] = Sum(Added, Sharing(name))
  /\ \A c \in Sharing(name) : at[c] = "write" => aux[c] = global[name]
CountInv == \A name \in Shared : InOrder(name) => Exact(name)

LEMMA DoesNumbers ==
  ASSUME NumbersInv, Does
  PROVE  NumbersInv'
  <1>1. \A c \in Client : aux[c] \in Int /\ Amount[c] \in Int /\ global[Cell(c)] \in Int
    BY CounterAssumption DEF NumbersInv
  <1>2. ASSUME NEW c \in Client, PostDoes(c) PROVE NumbersInv'
    <2>1. aux[c] + Amount[c] \in Int /\ 0 \in Int
      BY <1>1
    <2>2. global' = [global EXCEPT ![Cell(c)] = aux[c] + Amount[c]] /\ aux' = [aux EXCEPT ![c] = 0]
      BY <1>2 DEF PostDoes
    <2> QED BY <2>1, <2>2 DEF NumbersInv, Cell
  <1>3. ASSUME NEW c \in Client, ReadDoes(c) PROVE NumbersInv'
    BY <1>1, <1>3 DEF ReadDoes, NumbersInv, Cell
  <1>4. ASSUME UNCHANGED <<aux, global>> PROVE NumbersInv'
    BY <1>4 DEF NumbersInv, Cell
  <1> QED BY <1>2, <1>3, <1>4 DEF Does, InitDoes, OpenDoes, CloseDoes, WaitDoes, KillDoes

(* What is out of order stays so: a semaphore that is not in the table is   *)
(* never closed, nor is one with a name whose lock is taken.                *)
LEMMA OrderWas ==
  ASSUME IInv, Does, NEW name \in Shared, InOrder(name)'
  PROVE  InOrder(name)
  <1>0. /\ TableInv /\ TypesInv /\ StagesInv /\ WaitersInv /\ NamesInv /\ UsersInv /\ LockInv
        /\ Table \subseteq DOMAIN sems /\ semId \notin DOMAIN sems /\ NULL \notin DOMAIN sems
    BY TableFacts DEF IInv, ClientInv
  <1>m. name \notin missed /\ name # Unnamed
    <2>1. name \notin missed
      BY MissedGrows DEF InOrder
    <2>2. name # Unnamed
      BY NameAssumption DEF Shared, Cell
    <2> QED BY <2>1, <2>2
  <1>w. ASSUME \A i \in DOMAIN sems : Lower[sems[i].name] = name =>
                 /\ i \in DOMAIN sems' /\ sems'[i].name = sems[i].name
                 /\ i \in Table' => i \in Table
                 /\ sems[i].lock => sems'[i].lock
        PROVE  InOrder(name)
    BY <1>m, <1>w DEF InOrder
  <1>1. ASSUME Still \/ NoSem PROVE InOrder(name)
    BY <1>1, <1>w DEF Still, NoSem
  <1>2. ASSUME NEW s, NEW v, NEW a, NEW l, NEW w, SemChanged(s, v, a, l, w),
               s \in DOMAIN sems /\ sems[s].lock => l
        PROVE InOrder(name)
    BY <1>2, <1>w DEF SemChanged
  <1>3. ASSUME NEW n, NEW listed \in BOOLEAN, NewSem(n, listed) PROVE InOrder(name)
    <2>1. PICK new : sems' = Add(sems, semId, new)
      BY <1>3 DEF NewSem
    <2>2. /\ Table' \subseteq Table \cup {semId}
          /\ \A i \in DOMAIN sems : i # semId /\ i \in DOMAIN sems' /\ sems'[i] = sems[i]
      BY <1>0, <1>3, <2>1 DEF Add, NewSem
    <2> QED BY <1>w, <2>2
  <1>4. ASSUME NEW c \in Client, CloseDoes(c), id[c] \in Table,
               sems[id[c]].name = Unnamed \/ sems[id[c]].attached = 1, GoneSem(id[c])
        PROVE  InOrder(name)
    <2>1. PICK s : s = id[c]
      OBVIOUS
    <2>2. /\ DOMAIN sems' = DOMAIN sems \ {s} /\ Table' = Table \ {s} /\ s \in Table /\ s \in DOMAIN sems
          /\ \A i \in DOMAIN sems' : sems'[i] = sems[i]
      BY <1>0, <1>4, <2>1 DEF GoneSem, Drop
    <2>3. ASSUME Lower[sems[s].name] = name, sems[s].lock PROVE FALSE
      <3>0. sems[s].name # Unnamed /\ Sure(s)
        BY <1>0, <1>m, <2>2, <2>3 DEF NamesInv, Sure
      <3>1. PICK d \in Opener : id[d] = s /\ at[d] \in {"read", "write", "dead", "halts"}
        BY <1>0, <2>2, <2>3, <3>0 DEF LockInv
      <3>2. HasOpened(d)
        BY <1>0, <2>2, <3>1 DEF HasOpened
      <3>3. at[c] = "close"
        BY <1>4 DEF CloseDoes
      <3>4. d = c
        BY <1>0, <1>4, <2>1, <3>1, <3>2, <3>3, GoneUsers
      <3> QED BY <3>1, <3>3, <3>4
    <2>4. ASSUME NEW i \in DOMAIN sems, Lower[sems[i].name] = name PROVE i \in Table /\ ~sems[i].lock
      <3>1. CASE i = s
        BY <2>2, <2>3, <2>4, <3>1
      <3>2. CASE i # s
        BY <2>2, <2>4, <3>2 DEF InOrder
      <3> QED BY <3>1, <3>2
    <2> QED BY <1>m, <2>4 DEF InOrder
  <1>5. ASSUME NEW c \in Client, PostDoes(c) PROVE InOrder(name)
    <2>1. Halts(c) \/ GoesOn(c) \/ Raises(c) \/ \E w \in Client : Hands(c, w)
      BY <1>0, <1>5, PostPosts DEF Posts
    <2> QED BY <1>1, <1>2, <2>1 DEF Halts, GoesOn, Raises, Hands
  <1>6. ASSUME NEW c \in Client, WaitDoes(c) PROVE InOrder(name)
    BY <1>1, <1>2, <1>6 DEF WaitDoes
  <1>7. ASSUME NEW c \in Client, CloseDoes(c) PROVE InOrder(name)
    BY <1>1, <1>2, <1>4, <1>7 DEF CloseDoes
  <1>8. ASSUME NEW c \in Client, OpenDoes(c) PROVE InOrder(name)
    BY <1>1, <1>2, <1>3, <1>8 DEF OpenDoes
  <1>9. ASSUME InitDoes PROVE InOrder(name)
    BY <1>1, <1>3, <1>9 DEF InitDoes
  <1>10. ASSUME NEW c \in Client, ReadDoes(c) \/ KillDoes(c) PROVE InOrder(name)
    BY <1>1, <1>10 DEF ReadDoes, KillDoes
  <1> QED BY <1>5, <1>6, <1>7, <1>8, <1>9, <1>10 DEF Does

LEMMA CountKept ==
  ASSUME CountInv, \A name \in Shared : InOrder(name)' => InOrder(name), \A d \in Opener : left'[d] = left[d],
         \A name \in Shared : global'[name] = global[name],
         \A d \in Opener : at'[d] = "write" =>
           (at[d] = "write" /\ aux'[d] = aux[d]) \/ (aux'[d] = global[Cell(d)])
  PROVE  CountInv'
  <1>1. Added' = Added
    BY DEF Added
  <1>2. ASSUME NEW name \in Shared, InOrder(name)' PROVE Exact(name)'
    <2>1. Exact(name) /\ global'[name] = global[name]
      BY <1>2 DEF CountInv
    <2>2. \A c \in Sharing(name) : c \in Opener /\ Cell(c) = name
      BY DEF Sharing
    <2>3. \A c \in Sharing(name) : at'[c] = "write" => aux'[c] = global'[name]
      BY <2>1, <2>2 DEF Exact
    <2> QED BY <1>1, <2>1, <2>3 DEF Exact, Sharing, Cell
  <1> QED BY <1>2 DEF CountInv, Shared, Cell

LEMMA OneMore ==
  ASSUME NEW a \in Int, NEW b \in Int
  PROVE  (a + 1) * b = a * b + b /\ a * b \in Int
  OBVIOUS

(* A round of c counts for its counter and for no other.                    *)
LEMMA CountRound ==
  ASSUME TypesInv, NumbersInv, CountInv, NEW c \in Opener, left[c] # 0,
         left' = [left EXCEPT ![c] = @ - 1], at[c] = "write",
         global' = [global EXCEPT ![Cell(c)] = aux[c] + Amount[c]],
         NEW name \in Shared, InOrder(name)
  PROVE  global'[name] = Sum(Added', Sharing(name))
  <1>1. c \in Client /\ Rounds \in Int /\ Amount[c] \in Int /\ \A d \in Opener : left[d] \in Int /\ Amount[d] \in Int
    <2>1. Opener \subseteq Client /\ Rounds \in Nat /\ \A d \in Client : Amount[d] \in Int /\ left[d] \in 0..Rounds
      BY Roles, CounterAssumption DEF TypesInv
    <2>2. 0..Rounds \subseteq Int /\ Rounds \in Int
      BY <2>1
    <2> QED BY <2>1, <2>2
  <1>2. left'[c] = left[c] - 1 /\ \A d \in Opener \ {c} : left'[d] = left[d]
    BY <1>1, Roles DEF TypesInv
  <1>3. \A d \in Opener : Added[d] \in Int
    <2> TAKE d \in Opener
    <2>1. Rounds - left[d] \in Int /\ Amount[d] \in Int
      BY <1>1
    <2>2. (Rounds - left[d]) * Amount[d] \in Int
      BY <2>1, OneMore
    <2> QED BY <2>2 DEF Added
  <1>4. Added'[c] = Added[c] + Amount[c]
    <2>1. PICK a \in Int, b \in Int : a = Rounds - left[c] /\ b = Amount[c]
      BY <1>1
    <2>2. Rounds - left'[c] = a + 1
      BY <1>1, <1>2, <2>1
    <2>3. Added'[c] = (a + 1) * b /\ Added[c] = a * b
      BY <2>1, <2>2 DEF Added
    <2> QED BY <2>1, <2>3, OneMore
  <1>5. \A d \in Opener : Added'[d] = IF d = c THEN Added[d] + Amount[c] ELSE Added[d]
    <2>1. \A d \in Opener \ {c} : Added'[d] = Added[d]
      BY <1>2 DEF Added
    <2> QED BY <1>4, <2>1
  <1>6. PICK S : S = Sharing(name) /\ S \subseteq Opener /\ IsFiniteSet(S) /\ (c \in S <=> name = Cell(c))
    <2>1. Sharing(name) \in SUBSET Opener /\ (c \in Sharing(name) <=> name = Cell(c))
      BY DEF Sharing
    <2> QED BY <2>1, ProcessAssumption, FS_Subset
  <1>7. PICK w, v : w = Added /\ v = Added'
    OBVIOUS
  <1>8. Sum(w, S) \in Int /\ Sum(v, S) = IF c \in S THEN Sum(w, S) + Amount[c] ELSE Sum(w, S)
    <2>1. PICK a \in Int : a = Amount[c]
      BY <1>1
    <2>2. Shifted(v, w, S, c, a)
      BY <1>3, <1>5, <1>6, <1>7, <2>1 DEF Shifted
    <2>3. Sum(w, S) \in Int /\ Sum(v, S) = IF c \in S THEN Sum(w, S) + a ELSE Sum(w, S)
      BY <2>2, SumChange
    <2> QED BY <2>1, <2>3
  <1>9. global[name] = Sum(w, S) /\ (c \in S => aux[c] = global[name])
    BY <1>6, <1>7 DEF CountInv, Exact
  <1>10. global'[name] = IF name = Cell(c) THEN aux[c] + Amount[c] ELSE global[name]
    <2>1. name \in DOMAIN global
      BY Roles DEF NumbersInv, Shared
    <2> QED BY <2>1
  <1> QED BY <1>6, <1>7, <1>8, <1>9, <1>10

LEMMA DoesCount ==
  ASSUME IInv, NumbersInv, CountInv, Does
  PROVE  CountInv'
  <1>0. /\ TableInv /\ TypesInv /\ StagesInv /\ WaitersInv /\ NamesInv /\ UsersInv /\ ValueInv
        /\ Table \subseteq DOMAIN sems /\ Opener \subseteq Client
        /\ \A d \in Opener : Cell(d) # Unnamed
    BY TableFacts, Roles, NameAssumption DEF IInv, ClientInv, Cell
  <1>1. \A name \in Shared : InOrder(name)' => InOrder(name)
    BY OrderWas
  <1>s. \A d \in Opener : Cell(d) \in Shared
    BY DEF Shared
  <1>2. ASSUME NEW c \in Client, NEW to \in Stages \ {"write"}, Goes(c, to), UNCHANGED <<left, aux, global>>
        PROVE  CountInv'
    <2>1. \A d \in Opener : at'[d] = "write" => at[d] = "write"
      BY <1>0, <1>2, Moved
    <2> QED BY <1>1, <1>2, <2>1, CountKept
  <1>3. ASSUME NEW c \in Client, OpenDoes(c) \/ CloseDoes(c) \/ WaitDoes(c) \/ KillDoes(c) PROVE CountInv'
    <2>1. \E to \in {"wait", "done", "read", "halts", "asleep", "dead"} : Goes(c, to)
      BY <1>3 DEF OpenDoes, CloseDoes, WaitDoes, KillDoes
    <2> QED BY <1>2, <1>3, <2>1 DEF OpenDoes, CloseDoes, WaitDoes, KillDoes, Stages
  <1>4. ASSUME InitDoes PROVE CountInv'
    <2>1. \A d \in Opener : at'[d] = "write" => at[d] = "write"
      BY <1>0, <1>4, Roles DEF InitDoes, Goes, TypesInv
    <2> QED BY <1>1, <1>4, <2>1, CountKept DEF InitDoes
  <1>5. ASSUME NEW c \in Client, ReadDoes(c) PROVE CountInv'
    <2>1. /\ \A d \in Client \ {c} : at'[d] = at[d] /\ aux'[d] = aux[d]
          /\ aux'[c] = global[Cell(c)] /\ UNCHANGED <<left, global>>
      BY <1>0, <1>5, Moved DEF ReadDoes, NumbersInv, Stages
    <2> QED BY <1>0, <1>1, <2>1, CountKept
  <1>6. ASSUME NEW c \in Client, PostDoes(c) PROVE CountInv'
    <2>1. Posts(c)
      BY <1>0, <1>6, PostPosts
    <2>2. /\ at[c] = "write" /\ left[c] # 0 /\ UNCHANGED id
          /\ global' = [global EXCEPT ![Cell(c)] = aux[c] + Amount[c]]
          /\ \A d \in Client \ {c} : aux'[d] = aux[d]
      BY <1>0, <2>1 DEF Posts, StagesInv, NumbersInv
    <2>3. \A d \in Client : at'[d] = "write" => d # c /\ at[d] = "write"
      <3>1. CASE \E to \in Stages \ {"write"} : Goes(c, to)
        BY <1>0, <3>1, Moved
      <3>2. CASE \E w \in Client : Hands(c, w)
        BY <1>0, <3>2, HandMoved DEF To
      <3>3. To(c) \in Stages \ {"write"} /\ "halts" \in Stages \ {"write"}
        BY DEF To, Stages
      <3> QED BY <2>1, <3>1, <3>2, <3>3 DEF Posts, Halts, GoesOn, Raises
    <2>4. \A d \in Client : global'[Cell(d)] = IF Cell(d) = Cell(c) THEN aux[c] + Amount[c] ELSE global[Cell(d)]
      BY <2>2 DEF NumbersInv
    <2>5. left' = [left EXCEPT ![c] = @ - 1]
      BY <2>1 DEF Posts
    <2>6. CASE c \notin Opener
      <3>1. Cell(c) = Unnamed
        BY <2>6 DEF Cell
      <3>2. \A d \in Opener : left'[d] = left[d] /\ global'[Cell(d)] = global[Cell(d)]
        <4>1. \A d \in Opener : left'[d] = left[d]
          BY <1>0, <2>5, <2>6 DEF TypesInv
        <4> QED BY <1>0, <2>4, <3>1, <4>1
      <3>3. \A name \in Shared : global'[name] = global[name]
        BY <3>2 DEF Shared
      <3> QED BY <1>0, <1>1, <2>2, <2>3, <2>6, <3>2, <3>3, CountKept
    <2>7. CASE c \in Opener
      <3>1. ASSUME NEW d \in Opener, at[d] = "write", InOrder(Cell(d))
            PROVE  id[d] \in Table /\ Lower[sems[id[d]].name] = Cell(d)
                   /\ sems[id[d]].name # Unnamed /\ ~sems[id[d]].lock
        <4>1. d \in Client /\ HasOpened(d)
          BY <1>0, <3>1 DEF StagesInv, HasOpened
        <4>2. id[d] \in DOMAIN sems
          BY <1>0, <4>1 DEF UsersInv
        <4>3. Lower[sems[id[d]].name] = Cell(d) /\ sems[id[d]].name # Unnamed
          BY <1>0, <4>1, <4>2 DEF NamesInv
        <4> QED BY <3>1, <4>2, <4>3 DEF InOrder
      <3>2. ASSUME NEW name \in Shared, InOrder(name)' PROVE Exact(name)'
        <4>1. InOrder(name)
          BY <1>1, <3>2
        <4>2. global'[name] = Sum(Added', Sharing(name))
          BY <1>0, <2>2, <2>5, <2>7, <4>1, CountRound
        <4>3. ASSUME NEW d \in Opener, Cell(d) = name, at'[d] = "write" PROVE aux'[d] = global'[name]
          <5>1. d # c /\ at[d] = "write" /\ d \in Client
            BY <1>0, <2>3, <4>3
          <5>2. Cell(d) # Cell(c)
            <6> SUFFICES ASSUME Cell(d) = Cell(c) PROVE FALSE
              OBVIOUS
            <6>1. /\ id[d] \in Table /\ Lower[sems[id[d]].name] = name /\ sems[id[d]].name # Unnamed
                  /\ id[c] \in Table /\ Lower[sems[id[c]].name] = name /\ ~sems[id[c]].lock
              BY <2>2, <2>7, <3>1, <4>1, <4>3, <5>1
            <6>2. name \notin missed
              BY <4>1 DEF InOrder
            <6>3. id[d] = id[c] /\ Single(id[c]) /\ Sure(id[c])
              BY <1>0, <6>1, <6>2 DEF NamesInv, ValueInv, Sure
            <6>4. d \in Inside(id[c]) /\ c \in Inside(id[c])
              BY <2>2, <5>1, <6>3 DEF Inside
            <6>5. d = c
              BY <6>1, <6>3, <6>4 DEF Single
            <6> QED BY <5>1, <6>5
          <5>3. aux[d] = global[name]
            BY <4>1, <4>3, <5>1 DEF CountInv, Exact, Sharing
          <5> QED BY <2>2, <2>4, <4>3, <5>1, <5>2, <5>3
        <4> QED BY <4>2, <4>3 DEF Exact, Sharing, Cell
      <3> QED BY <3>2 DEF CountInv, Shared, Cell
    <2> QED BY <2>6, <2>7
  <1> QED BY <1>3, <1>4, <1>5, <1>6 DEF Does

LEMMA InitCount ==
  ASSUME Init
  PROVE  NumbersInv /\ CountInv
  <1>1. /\ left = [c \in Client |-> Rounds] /\ aux = [c \in Client |-> 0]
        /\ global = [n \in {Cell(c) : c \in Client} |-> 0]
        /\ \A c \in Client : at[c] # "write"
    <2>1. \E crew : at = [c \in Client |-> IF c \notin crew THEN "done"
                                           ELSE IF c \in Guest THEN "idle" ELSE "start"]
      BY DEF Init
    <2> QED BY <2>1 DEF Init
  <1>2. NumbersInv
    BY <1>1 DEF NumbersInv
  <1>3. \A c \in Opener : Added[c] = 0
    <2> TAKE c \in Opener
    <2>1. Amount[c] \in Int /\ Rounds \in Int /\ c \in Client
      BY Roles, CounterAssumption
    <2>2. PICK a, b \in Int : a = Rounds - Rounds /\ a = 0 /\ b = Amount[c]
      BY <2>1
    <2>3. a * b = 0
      BY <2>2
    <2> QED BY <1>1, <2>1, <2>2, <2>3 DEF Added
  <1>4. ASSUME NEW name \in Shared
        PROVE  global[name] = Sum(Added, Sharing(name))
    <2>1. PICK S : S = Sharing(name) /\ S \subseteq Opener /\ IsFiniteSet(S)
      <3>1. Sharing(name) \in SUBSET Opener
        BY DEF Sharing
      <3> QED BY <3>1, ProcessAssumption, FS_Subset
    <2>2. PICK w : w = Added
      OBVIOUS
    <2>3. Sum(w, S) = 0
      BY <1>3, <2>1, <2>2, SumZero
    <2>4. global[name] = 0
      BY <1>1, Roles DEF Shared
    <2> QED BY <2>1, <2>2, <2>3, <2>4
  <1> QED BY <1>1, <1>2, <1>4, Roles DEF CountInv, Exact, Sharing

LEMMA NextCount ==
  ASSUME IInv, NumbersInv, CountInv, [Next]_vars
  PROVE  NumbersInv' /\ CountInv'
  <1>1. CASE Next
    <2>1. Does
      BY <1>1, NextDoes DEF IInv
    <2> QED BY <2>1, DoesNumbers, DoesCount
  <1>2. CASE UNCHANGED vars
    <2>1. Table' = Table /\ UNCHANGED <<sems, at, left, aux, global, missed>>
      BY <1>2, TableIs DEF vars
    <2>2. \A name \in Shared : InOrder(name)' => InOrder(name)
      BY <2>1 DEF InOrder
    <2>3. CountInv'
      BY <2>1, <2>2, CountKept
    <2> QED BY <2>1, <2>3 DEF NumbersInv, Cell
  <1> QED BY <1>1, <1>2

LEMMA ValueFinal ==
  ASSUME CountInv
  PROVE  FinalValue
  <1>1. ASSUME NEW name \in {Cell(c) : c \in Opener}, Intact(name), \A i \in Named(name) : ~sems[i].lock
        PROVE  LET users == {c \in Opener : Cell(c) = name}
                   added == [c \in Opener |-> (Rounds - left[c]) * Amount[c]]
               IN global[name] = FoldSet(LAMBDA c, n : n + added[c], 0, users)
    <2>1. InOrder(name) /\ name \in Shared
      BY <1>1 DEF InOrder, Intact, Named, Shared
    <2>2. global[name] = Sum(Added, Sharing(name))
      BY <2>1 DEF CountInv, Exact
    <2> QED BY <2>2, Zenon DEF Sum, Added, Sharing
  <1> QED BY <1>1, Zenon DEF FinalValue

(* No addition is lost: the counter of a name is the sum of what its         *)
(* processes added, for any number of them, any names and any rounds, as    *)
(* long as find has not missed its semaphore (queue.c, findSem), createSem  *)
(* has not left it out of the table and semWait has not left its lock taken *)
(* for want of memory (semWait and semPost around slowInc, test_sync.c).    *)
THEOREM CountersExact == Spec => []FinalValue
  <1>1. Init => IInv /\ NumbersInv /\ CountInv
    BY InitTable, InitClient, InitCount DEF IInv
  <1>2. IInv /\ NumbersInv /\ CountInv /\ [Next]_vars => IInv' /\ NumbersInv' /\ CountInv'
    BY NextClient, NextCount
  <1>3. CountInv => FinalValue
    BY ValueFinal
  <1> QED BY <1>1, <1>2, <1>3, PTL DEF Spec

=============================================================================
