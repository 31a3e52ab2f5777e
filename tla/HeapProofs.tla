----------------------------- MODULE HeapProofs -----------------------------
(***************************************************************************)
(* Proofs about the default heap (memory_manager/memoryManager.c) for a    *)
(* heap of any size, any number of pointers and any sizes asked for.       *)
(***************************************************************************)
EXTENDS Heap, FiniteSetTheorems, WellFoundedInduction, TLAPS

(* The blocks, and those of them that are free.                             *)
Begins == {u \in Unit : Size(u) > 0}
Holder == {c \in Client : Holding(c)}
HeaderOf(c) == held[c].at \div HeaderSize - 1
Avail == Begins \ {HeaderOf(c) : c \in Holder}

Typed ==
  /\ mm = "STANDARD"
  /\ header \in [Unit -> [next : Unit, size : 0..header_blocks]]
  /\ held \in [Client -> [at : Nat, size : {0} \cup Request]]

(* Whoever holds memory holds the bytes behind the header of a block of its *)
(* own that is long enough.                                                 *)
GivenOut ==
  /\ \A c \in Holder : /\ held[c].at = HeaderSize * (HeaderOf(c) + 1)
                       /\ HeaderOf(c) \in Begins
                       /\ held[c].size \in Request
                       /\ held[c].size + HeaderSize <= HeaderSize * Size(HeaderOf(c))
  /\ \A c, d \in Holder : HeaderOf(c) = HeaderOf(d) => c = d

(* Each block ends where the next one begins, or with the heap.             *)
Tiles ==
  /\ \A b \in Begins : b + Size(b) <= header_blocks
  /\ \A b, d \in Begins : b < d => b + Size(b) <= d
  /\ \A u \in Unit : \E b \in Begins : b <= u /\ u < b + Size(b)

(* The free blocks are a ring in the order of their addresses, that begins  *)
(* with the lowest of the heap; no two of them touch.                       *)
Follows(a) ==
  \/ a + Size(a) < NextOf(a) /\ \A b \in Avail : b <= a \/ NextOf(a) <= b
  \/ NextOf(a) = base /\ \A b \in Avail : b <= a
Ring ==
  /\ base \in Avail /\ free_node \in Avail
  /\ \A a \in Avail : NextOf(a) \in Avail /\ Follows(a)

HInv == Typed /\ GivenOut /\ Tiles /\ Ring

-----------------------------------------------------------------------------
(* Arithmetic and sets of numbers.                                          *)

LEMMA HeapFacts ==
  /\ header_blocks \in Nat /\ header_blocks >= 2
  /\ base = 0 /\ base \in Unit /\ HeaderSize = 16 /\ Unit \subseteq Nat
  /\ \A u : u \in Unit <=> u \in Nat /\ u < header_blocks
  /\ HeapSize % HeaderSize = 0 => HeaderSize * header_blocks = HeapSize + HeaderSize
  BY RequestAssumption DEF header_blocks, RoundUp, base, HeaderSize, Unit

LEMMA BlocksFacts ==
  ASSUME NEW mem \in Request
  PROVE  /\ Blocks(mem) \in Nat /\ Blocks(mem) >= 2 /\ mem \in Nat /\ mem > 0
         /\ mem + HeaderSize <= HeaderSize * Blocks(mem)
  BY RequestAssumption DEF Blocks, RoundUp, HeaderSize

(* A set of numbers that is not empty has a least one. *)
LEMMA Least ==
  ASSUME NEW S \in SUBSET Nat, S # {}
  PROVE  \E k \in S : \A l \in S : k <= l
  <1>1. PICK i \in S : \A j \in S : ~(<<j, i>> \in OpToRel(<, Nat))
    BY NatLessThanWellFounded, WFMin
  <1>2. \A j \in S : ~(j < i)
    BY <1>1 DEF OpToRel
  <1> QED BY <1>2

(* The list from free_node on exists, for any length.                       *)
LEMMA WalkExists ==
  \A n \in Nat : \E f : f = [i \in 0..n |-> IF i = 0 THEN free_node ELSE header[f[i - 1]].next]
  <1> DEFINE Good(n) == \E f : f = [i \in 0..n |-> IF i = 0 THEN free_node ELSE header[f[i - 1]].next]
             Bad == {n \in Nat : ~Good(n)}
  <1>1. SUFFICES ASSUME Bad # {} PROVE FALSE
    OBVIOUS
  <1>2. PICK n \in Bad : \A l \in Bad : n <= l
    BY <1>1, Least
  <1>3. n # 0
    <2> DEFINE f == [i \in 0..0 |-> free_node]
    <2>1. f = [i \in 0..0 |-> IF i = 0 THEN free_node ELSE header[f[i - 1]].next]
      OBVIOUS
    <2> QED BY <2>1, <1>2
  <1>4. PICK f : f = [i \in 0..(n - 1) |-> IF i = 0 THEN free_node ELSE header[f[i - 1]].next]
    <2>1. n - 1 \in Nat /\ n - 1 \notin Bad
      BY <1>2, <1>3
    <2> QED BY <2>1
  <1> DEFINE g == [i \in 0..n |-> IF i < n THEN f[i] ELSE header[f[n - 1]].next]
  <1>5. \A i \in 0..n : g[i] = IF i = 0 THEN free_node ELSE header[g[i - 1]].next
    <2> TAKE i \in 0..n
    <2>1. CASE i = n
      BY <2>1, <1>2, <1>3
    <2>2. CASE i < n
      <3>1. i \in 0..(n - 1) /\ g[i] = f[i]
        BY <2>2, <1>2
      <3>2. i # 0 => g[i - 1] = f[i - 1]
        BY <2>2, <1>2
      <3>3. f[i] = IF i = 0 THEN free_node ELSE header[f[i - 1]].next
        BY <1>4, <3>1
      <3> QED BY <3>1, <3>2, <3>3
    <2> QED BY <2>1, <2>2, <1>2
  <1>6. g = [i \in 0..n |-> IF i = 0 THEN free_node ELSE header[g[i - 1]].next]
    BY <1>5
  <1> QED BY <1>6, <1>2

(* Node follows the list.                                                   *)
LEMMA NodeFacts ==
  /\ Node[0] = free_node
  /\ \A i \in 1..header_blocks : Node[i] = NextOf(Node[i - 1])
  <1>0. \A n \in Nat : \E f : f = [i \in 0..n |-> IF i = 0 THEN free_node ELSE header[f[i - 1]].next]
    BY WalkExists
  <1>1. \E f : f = [i \in 0..header_blocks |-> IF i = 0 THEN free_node ELSE header[f[i - 1]].next]
    BY <1>0, HeapFacts
  <1>2. Node = [i \in 0..header_blocks |-> IF i = 0 THEN free_node ELSE NextOf(Node[i - 1])]
    BY <1>1 DEF Node, NextOf
  <1> QED BY <1>2, HeapFacts

-----------------------------------------------------------------------------
(* The list and the ring.                                                   *)

LEMMA AvailFacts ==
  ASSUME HInv, NEW a \in Avail
  PROVE  /\ a \in Unit /\ a \in Begins /\ a \in 0..(header_blocks - 1) /\ a \in Nat
         /\ Size(a) \in 1..header_blocks
         /\ NextOf(a) \in Avail /\ NextOf(a) \in Unit /\ NextOf(a) \in Nat
  BY HeapFacts DEF HInv, Typed, Ring, Avail, Begins, Size

LEMMA BeginsFacts ==
  ASSUME Typed, NEW a \in Begins
  PROVE  a \in Unit /\ a \in 0..(header_blocks - 1) /\ Size(a) \in 1..header_blocks
  BY HeapFacts DEF Typed, Begins, Size

(* The list visits free blocks only.                                        *)
LEMMA NodesFree ==
  ASSUME HInv
  PROVE  \A i \in 0..header_blocks : Node[i] \in Avail
  <1> DEFINE Bad == {i \in 0..header_blocks : Node[i] \notin Avail}
  <1>1. SUFFICES ASSUME Bad # {} PROVE FALSE
    OBVIOUS
  <1>2. PICK i \in Bad : \A l \in Bad : i <= l
    <2>1. Bad \in SUBSET Nat
      BY HeapFacts
    <2> QED BY <2>1, <1>1, Least
  <1>3. i # 0
    BY <1>2, NodeFacts DEF HInv, Ring
  <1>4. i - 1 \in 0..header_blocks /\ i - 1 \notin Bad /\ i \in 1..header_blocks
    BY <1>2, <1>3, HeapFacts
  <1>5. Node[i] = NextOf(Node[i - 1]) /\ Node[i - 1] \in Avail
    BY <1>4, NodeFacts
  <1> QED BY <1>5, <1>2, AvailFacts

(* Where the list goes up from free block x, it reaches each higher one     *)
(* before it has made more steps than there are units between.              *)
LEMMA Climbs ==
  ASSUME HInv, NEW x \in Avail, NEW i \in 0..header_blocks, Node[i] = x
  PROVE  \A y \in Avail : x <= y /\ i + y - x <= header_blocks =>
           \E j \in i..(i + y - x) : Node[j] = y
  <1> DEFINE Bad == {y \in Avail : /\ x <= y /\ i + y - x <= header_blocks
                                   /\ ~\E j \in i..(i + y - x) : Node[j] = y}
  <1>1. SUFFICES ASSUME Bad # {} PROVE FALSE
    OBVIOUS
  <1>2. PICK y \in Bad : \A l \in Bad : y <= l
    <2>1. Bad \in SUBSET Nat
      BY AvailFacts, HeapFacts
    <2> QED BY <2>1, <1>1, Least
  <1>3. x \in Nat /\ y \in Nat /\ y \in Avail /\ x <= y
    BY <1>2, AvailFacts, HeapFacts
  <1>4. y # x
    BY <1>2, <1>3
  <1> DEFINE Below == {z \in Avail : x <= z /\ z < y}
             Gap == {y - z : z \in Below}
  <1>5. PICK g \in Gap : \A l \in Gap : g <= l
    <2>1. \A z \in Below : z \in Nat /\ y - z \in Nat
      BY <1>3, AvailFacts, HeapFacts
    <2>2. Gap \in SUBSET Nat
      BY <2>1
    <2>3. y - x \in Gap
      BY <1>3, <1>4
    <2> QED BY <2>2, <2>3, Least
  <1>6. PICK z \in Below : g = y - z
    BY <1>5
  <1>7. z \in Nat /\ z < y /\ x <= z /\ z \in Avail /\ \A w \in Below : w <= z
    <2>1. \A w \in Below : y - z <= y - w
      BY <1>5, <1>6
    <2> QED BY <2>1, <1>3, <1>6, AvailFacts, HeapFacts
  <1>8. NextOf(z) = y
    <2>1. Follows(z)
      BY <1>7 DEF HInv, Ring
    <2>2. NextOf(z) \in Avail /\ NextOf(z) \in Nat /\ Size(z) \in 1..header_blocks
      BY <1>7, AvailFacts
    <2>3. z + Size(z) < NextOf(z) /\ NextOf(z) <= y
      BY <2>1, <2>2, <1>3, <1>7 DEF Follows
    <2>4. NextOf(z) < y => NextOf(z) \in Below
      BY <2>2, <2>3, <1>3, <1>7
    <2> QED BY <2>2, <2>3, <2>4, <1>3, <1>7
  <1>9. PICK j \in i..(i + z - x) : Node[j] = z
    <2>1. z \notin Bad
      BY <1>2, <1>3, <1>7
    <2>2. i + z - x <= header_blocks
      BY <1>2, <1>3, <1>7, HeapFacts
    <2> QED BY <2>1, <2>2, <1>7
  <1>10. j + 1 \in i..(i + y - x) /\ j + 1 \in 1..header_blocks
    BY <1>2, <1>3, <1>7, <1>9, HeapFacts
  <1>11. Node[j + 1] = y
    <2>1. Node[j + 1] = NextOf(Node[(j + 1) - 1])
      BY <1>10, NodeFacts
    <2> QED BY <2>1, <1>8, <1>9, <1>10
  <1> QED BY <1>2, <1>10, <1>11


(* The last block of the ring leads back to the first.                      *)
LEMMA Highest ==
  ASSUME HInv
  PROVE  \E m \in Avail : NextOf(m) = base /\ \A a \in Avail : a <= m
  <1> DEFINE Gap == {header_blocks - a : a \in Avail}
  <1>1. PICK g \in Gap : \A l \in Gap : g <= l
    <2>1. Gap \in SUBSET Nat
      BY AvailFacts, HeapFacts
    <2>2. Gap # {}
      BY DEF HInv, Ring
    <2> QED BY <2>1, <2>2, Least
  <1>2. PICK m \in Avail : g = header_blocks - m
    BY <1>1
  <1>3. \A a \in Avail : a <= m
    <2> TAKE a \in Avail
    <2>1. header_blocks - m <= header_blocks - a
      BY <1>1, <1>2
    <2>2. a \in Nat /\ m \in Nat /\ header_blocks \in Nat
      BY AvailFacts, HeapFacts
    <2> QED BY <2>1, <2>2
  <1>4. NextOf(m) = base
    <2>1. Follows(m)
      BY DEF HInv, Ring
    <2>2. ~(m + Size(m) < NextOf(m))
      BY <1>3, AvailFacts
    <2> QED BY <2>1, <2>2 DEF Follows
  <1> QED BY <1>3, <1>4

(* The list visits every free block, in one turn.                           *)
LEMMA NodesAll ==
  ASSUME HInv
  PROVE  \A y \in Avail : \E j \in 0..(header_blocks - 1) : Node[j] = y
  <1>1. PICK f : f = free_node
    OBVIOUS
  <1>2. f \in Avail /\ Node[0] = f /\ 0 \in 0..header_blocks /\ f \in 0..(header_blocks - 1)
    BY <1>1, NodeFacts, HeapFacts, AvailFacts DEF HInv, Ring
  <1>3. \A y \in Avail : f <= y => \E j \in 0..(y - f) : Node[j] = y
    <2>1. \A y \in Avail : f <= y /\ 0 + y - f <= header_blocks =>
             \E j \in 0..(0 + y - f) : Node[j] = y
      BY <1>2, Climbs
    <2> QED BY <2>1, <1>2, AvailFacts, HeapFacts
  <1>4. PICK m \in Avail : NextOf(m) = base /\ \A a \in Avail : a <= m
    BY Highest
  <1>5. PICK k \in 0..(m - f) : Node[k] = m
    BY <1>2, <1>3, <1>4
  <1>6. k + 1 \in 1..header_blocks /\ k + 1 <= m - f + 1 /\ m \in 0..(header_blocks - 1)
    BY <1>2, <1>4, <1>5, AvailFacts, HeapFacts
  <1>7. Node[k + 1] = base
    <2>1. Node[k + 1] = NextOf(Node[(k + 1) - 1])
      BY <1>6, NodeFacts
    <2> QED BY <2>1, <1>4, <1>5
  <1>8. \A y \in Avail : y < f => \E j \in 0..(header_blocks - 1) : Node[j] = y
    <2>1. base \in Avail /\ k + 1 \in 0..header_blocks
      BY <1>6, HeapFacts DEF HInv, Ring
    <2>2. \A y \in Avail : base <= y /\ k + 1 + y - base <= header_blocks =>
             \E j \in (k + 1)..(k + 1 + y - base) : Node[j] = y
      BY <2>1, <1>7, Climbs
    <2> SUFFICES ASSUME NEW y \in Avail, y < f
                 PROVE  \E j \in 0..(header_blocks - 1) : Node[j] = y
      OBVIOUS
    <2>3. y \in Nat /\ base = 0 /\ k + 1 + y - base <= header_blocks - 1
      BY <1>2, <1>6, AvailFacts, HeapFacts
    <2>4. PICK j \in (k + 1)..(k + 1 + y - base) : Node[j] = y
      BY <2>2, <2>3, HeapFacts
    <2>5. j \in 0..(header_blocks - 1)
      BY <1>6, <2>3, <2>4, HeapFacts
    <2> QED BY <2>4, <2>5
  <1>9. ASSUME NEW y \in Avail, f <= y
        PROVE  \E j \in 0..(header_blocks - 1) : Node[j] = y
    <2>1. PICK j \in 0..(y - f) : Node[j] = y
      BY <1>3, <1>9
    <2>2. j \in 0..(header_blocks - 1)
      BY <1>2, AvailFacts, HeapFacts
    <2> QED BY <2>1, <2>2
  <1> QED BY <1>8, <1>9, <1>2, AvailFacts

LEMMA FreeNodesAvail ==
  ASSUME HInv
  PROVE  FreeNodes = Avail
  BY NodesFree, NodesAll, HeapFacts DEF FreeNodes


-----------------------------------------------------------------------------
(* What the invariant says of a state: the properties the runs check.       *)

LEMMA BlocksCover ==
  ASSUME HInv, NEW u \in Unit
  PROVE  \E b \in Begins : u \in Units(b)
  <1>1. PICK b \in Begins : b <= u /\ u < b + Size(b)
    BY DEF HInv, Tiles
  <1> QED BY <1>1, BeginsFacts, HeapFacts DEF Units, HInv

LEMMA BlocksDisjoint ==
  ASSUME HInv, NEW a \in Begins, NEW b \in Begins, a # b
  PROVE  Units(a) \cap Units(b) = {}
  <1>1. a < b \/ b < a
    BY BeginsFacts DEF HInv
  <1>2. a + Size(a) <= b \/ b + Size(b) <= a
    BY <1>1 DEF HInv, Tiles
  <1> QED BY <1>2, BeginsFacts DEF Units, HInv

LEMMA BlocksInside ==
  ASSUME HInv, NEW a \in Begins
  PROVE  Units(a) \subseteq Unit
  BY BeginsFacts, HeapFacts DEF Units, HInv, Tiles

(* As many blocks are given out as there are pointers that hold one.        *)
LEMMA HeadersCounted ==
  ASSUME HInv
  PROVE  Cardinality(Headers) = Cardinality(Holder)
  <1>1. Headers = {HeaderOf(c) : c \in Holder}
    BY DEF Headers, HeaderOf, Holder
  <1>2. IsFiniteSet(Headers)
    <2>1. Headers \subseteq Begins
      BY <1>1 DEF HInv, GivenOut
    <2>3. Begins \subseteq 0..header_blocks
      BY BeginsFacts, HeapFacts DEF HInv
    <2>2. IsFiniteSet(0..header_blocks)
      BY FS_Interval, HeapFacts
    <2> QED BY <2>1, <2>2, <2>3, FS_Subset
  <1> DEFINE f == [h \in Headers |-> CHOOSE c \in Holder : HeaderOf(c) = h]
  <1>3. \A h \in Headers : f[h] \in Holder /\ HeaderOf(f[h]) = h
    BY <1>1
  <1>4. \A c \in Holder : HeaderOf(c) \in Headers /\ f[HeaderOf(c)] = c
    BY <1>1, <1>3 DEF HInv, GivenOut
  <1>5. f \in Bijection(Headers, Holder)
    <2>1. f \in [Headers -> Holder]
      BY <1>3
    <2>2. f \in Injection(Headers, Holder)
      BY <2>1, <1>3 DEF Injection, IsInjective
    <2>3. f \in Surjection(Headers, Holder)
      BY <2>1, <1>4 DEF Surjection
    <2> QED BY <2>2, <2>3 DEF Bijection
  <1> QED BY <1>2, <1>5, FS_Bijection DEF ExistsBijection

LEMMA TiledHolds ==
  ASSUME HInv
  PROVE  Tiled
  <1>1. Headers = {HeaderOf(c) : c \in Holder}
    BY DEF Headers, HeaderOf, Holder
  <1>2. FreeNodes \cap Headers = {} /\ FreeNodes \cup Headers = Begins
    BY <1>1, FreeNodesAvail DEF Avail, HInv, GivenOut
  <1>3. UNION {Units(a) : a \in FreeNodes \cup Headers} = Unit
    BY <1>2, BlocksCover, BlocksInside
  <1>4. \A a, b \in FreeNodes \cup Headers : a # b => Units(a) \cap Units(b) = {}
    BY <1>2, BlocksDisjoint
  <1>5. Cardinality(Headers) = Cardinality({c \in Client : Holding(c)})
    BY HeadersCounted DEF Holder
  <1>6. \A c \in Client : Holding(c) =>
          held[c].size + HeaderSize <= HeaderSize * Size(held[c].at \div HeaderSize - 1)
    BY DEF HInv, GivenOut, Holder, HeaderOf
  <1>7. FreeListTiled
    BY <1>2, <1>3, <1>4, <1>5, <1>6 DEF FreeListTiled
  <1> QED BY <1>7 DEF Tiled, Standard, HInv, Typed

LEMMA OrderedHolds ==
  ASSUME HInv
  PROVE  ListOrdered
  <1>1. \A a \in Avail : Follows(a)
    BY DEF HInv, Ring
  <1>2. \A a \in Avail : base <= a
    BY AvailFacts, HeapFacts
  <1> QED BY <1>1, <1>2, FreeNodesAvail DEF ListOrdered, FreeListOrdered, Follows

(* When the list is back where it began it has visited every free block.    *)
LEMMA OneTurn ==
  ASSUME HInv, NEW j \in 1..header_blocks, Node[j] = free_node, NEW y \in Avail
  PROVE  \E k \in 0..(j - 1) : Node[k] = y
  <1>1. \A k \in 0..(header_blocks - j) : Node[k + j] = Node[k]
    <2> DEFINE Bad == {k \in 0..(header_blocks - j) : Node[k + j] # Node[k]}
    <2>1. SUFFICES ASSUME Bad # {} PROVE FALSE
      OBVIOUS
    <2>2. PICK k \in Bad : \A l \in Bad : k <= l
      <3>1. Bad \in SUBSET Nat
        BY HeapFacts
      <3> QED BY <3>1, <2>1, Least
    <2>3. k # 0
      BY <2>2, NodeFacts
    <2>4. /\ k - 1 \in 0..(header_blocks - j) /\ k - 1 \notin Bad
          /\ k \in 1..header_blocks /\ k + j \in 1..header_blocks
          /\ (k + j) - 1 = (k - 1) + j
      BY <2>2, <2>3, HeapFacts
    <2>5. Node[(k - 1) + j] = Node[k - 1]
      BY <2>4
    <2>6. Node[k + j] = NextOf(Node[(k + j) - 1]) /\ Node[k] = NextOf(Node[k - 1])
      BY <2>4, NodeFacts
    <2> QED BY <2>2, <2>4, <2>5, <2>6
  <1> DEFINE At == {l \in 0..header_blocks : Node[l] = y}
  <1>2. PICK l \in At : \A m \in At : l <= m
    <2>1. At \in SUBSET Nat /\ At # {}
      BY NodesAll, HeapFacts
    <2> QED BY <2>1, Least
  <1>3. l < j
    <2>1. SUFFICES ASSUME l >= j PROVE FALSE
      BY <1>2, HeapFacts
    <2>2. l - j \in 0..(header_blocks - j) /\ l - j \in 0..header_blocks /\ (l - j) + j = l
      BY <1>2, <2>1, HeapFacts
    <2>3. l - j \in At
      BY <1>1, <2>2
    <2> QED BY <1>2, <2>3, HeapFacts
  <1> QED BY <1>2, <1>3

(* Each free block follows one in the list.                                 *)
LEMMA HasPredecessor ==
  ASSUME HInv, NEW x \in Avail
  PROVE  \E z \in Avail : NextOf(z) = x
  <1>1. CASE x = base
    BY <1>1, Highest
  <1>2. CASE x # base
    <2> DEFINE Gap == {x - z : z \in {w \in Avail : w < x}}
    <2>1. base \in Avail /\ base < x
      BY <1>2, AvailFacts, HeapFacts DEF HInv, Ring
    <2>2. \A w \in Avail : w \in Nat
      BY AvailFacts
    <2>3. Gap \in SUBSET Nat /\ Gap # {}
      BY <2>1, <2>2
    <2>4. PICK g \in Gap : \A l \in Gap : g <= l
      BY <2>3, Least
    <2>5. PICK z \in Avail : z < x /\ g = x - z
      BY <2>4
    <2>6. \A w \in Avail : w < x => w <= z
      <3> TAKE w \in Avail
      <3> HAVE w < x
      <3>1. x - z <= x - w
        BY <2>4, <2>5
      <3> QED BY <3>1, <2>2
    <2>7. Follows(z) /\ NextOf(z) \in Avail
      BY <2>5 DEF HInv, Ring
    <2>8. NextOf(z) <= x /\ z < NextOf(z)
      BY <2>2, <2>5, <2>7, AvailFacts DEF Follows
    <2> QED BY <2>2, <2>5, <2>6, <2>7, <2>8
  <1> QED BY <1>1, <1>2

(* The search finds a block if there is one that is large enough.           *)
LEMMA SearchFinds ==
  ASSUME HInv, NEW blocks \in Nat, NEW x \in Avail, Size(x) >= blocks
  PROVE  Found(blocks) # {}
  <1> DEFINE Fit == {i \in 1..header_blocks : Size(Node[i]) >= blocks}
  <1>1. PICK j \in 1..header_blocks : Node[j] = x
    <2>1. PICK z \in Avail : NextOf(z) = x
      BY HasPredecessor
    <2>2. PICK k \in 0..(header_blocks - 1) : Node[k] = z
      BY NodesAll
    <2>3. k + 1 \in 1..header_blocks /\ (k + 1) - 1 = k
      BY <2>2, HeapFacts
    <2> QED BY <2>1, <2>2, <2>3, NodeFacts
  <1>2. PICK i \in Fit : \A m \in Fit : i <= m
    <2>1. Fit \in SUBSET Nat /\ Fit # {}
      BY <1>1, HeapFacts
    <2> QED BY <2>1, Least
  <1>3. ASSUME NEW m \in 1..(i - 1)
        PROVE  Size(Node[m]) < blocks /\ Node[m] # free_node
    <2>1. m \in 1..header_blocks /\ m < i /\ m \notin Fit
      BY <1>2, HeapFacts
    <2>2. Size(Node[m]) \in Nat
      BY <2>1, NodesFree, AvailFacts, HeapFacts
    <2>3. Size(Node[m]) < blocks
      BY <2>1, <2>2
    <2>4. ASSUME Node[m] = free_node PROVE FALSE
      <3>1. PICK k \in 0..(m - 1) : Node[k] = x
        BY <2>1, <2>4, OneTurn
      <3>2. CASE k = 0
        BY <3>1, <3>2, <2>2, <2>3, <2>4, NodeFacts
      <3>3. CASE k # 0
        <4>1. k \in Fit /\ k < i
          BY <3>1, <3>3, <2>1, HeapFacts
        <4> QED BY <4>1, <1>2
      <3> QED BY <3>2, <3>3
    <2> QED BY <2>3, <2>4
  <1> QED BY <1>2, <1>3 DEF Found

LEMMA FitsHolds ==
  ASSUME HInv
  PROVE  RefusesOnlyIfFull
  <1> SUFFICES ASSUME NEW mem \in Request, Found(Blocks(mem)) = {},
                      NEW u \in Unit, u + Blocks(mem) - 1 \in Unit,
                      \A a \in Headers : Units(a) \cap (u..(u + Blocks(mem) - 1)) = {}
               PROVE  FALSE
    BY DEF RefusesOnlyIfFull, FreeListFits, Standard, HInv, Typed
  <1> DEFINE blocks == Blocks(mem)
  <1>1. blocks \in Nat /\ blocks >= 2 /\ u \in Nat
    BY BlocksFacts, HeapFacts
  <1>2. \A v \in u..(u + blocks - 1) : \E b \in Avail : b <= v /\ v < b + Size(b)
    <2> TAKE v \in u..(u + blocks - 1)
    <2>1. v \in Unit
      BY <1>1, HeapFacts
    <2>2. PICK b \in Begins : b <= v /\ v < b + Size(b)
      BY <2>1 DEF HInv, Tiles
    <2>3. v \in Units(b)
      BY <1>1, <2>2, BeginsFacts DEF Units, HInv
    <2>4. b \notin Headers
      BY <2>3
    <2>5. b \in Avail
      BY <2>2, <2>4 DEF Avail, Headers, HeaderOf, Holder
    <2> QED BY <2>2, <2>5
  <1>3. PICK b \in Avail : b <= u /\ u < b + Size(b)
    BY <1>1, <1>2
  <1>4. b \in Nat /\ Size(b) \in Nat /\ Size(b) < blocks
    BY <1>1, <1>3, AvailFacts, SearchFinds
  <1>5. PICK v : v = b + Size(b)
    OBVIOUS
  <1>6. v \in u..(u + blocks - 1) /\ v \in Nat
    BY <1>1, <1>3, <1>4, <1>5
  <1>7. PICK d \in Avail : d <= v /\ v < d + Size(d)
    BY <1>2, <1>6
  <1>8. d \in Nat /\ d \in Begins /\ b \in Begins /\ Size(d) \in Nat
    BY <1>3, <1>7, AvailFacts
  <1>9. d = v
    <2>1. b < d => v <= d
      BY <1>5, <1>8 DEF HInv, Tiles
    <2>2. d < b => d + Size(d) <= b
      BY <1>8 DEF HInv, Tiles
    <2> QED BY <2>1, <2>2, <1>4, <1>5, <1>6, <1>7, <1>8
  <1>10. Follows(b) /\ NextOf(b) \in Nat
    BY <1>3, AvailFacts DEF HInv, Ring
  <1>11. b < d
    BY <1>3, <1>4, <1>5, <1>9, AvailFacts
  <1> QED BY <1>4, <1>5, <1>7, <1>9, <1>10, <1>11 DEF Follows

-----------------------------------------------------------------------------
(* The pointers of the programs, when one is set and when one is freed.     *)

LEMMA Given ==
  ASSUME Typed, NEW c \in Client, ~Holding(c), NEW a \in Unit, NEW mem \in Request,
         held' = [held EXCEPT ![c] = [at |-> HeaderSize * (a + 1), size |-> mem]]
  PROVE  /\ held' \in [Client -> [at : Nat, size : {0} \cup Request]]
         /\ c \notin Holder /\ Holder' = Holder \cup {c}
         /\ held'[c].at = HeaderSize * (a + 1) /\ held'[c].size = mem
         /\ HeaderOf(c)' = a
         /\ \A d \in Holder : held'[d] = held[d] /\ HeaderOf(d)' = HeaderOf(d)
  <1>1. a \in Nat /\ HeaderSize = 16
    BY HeapFacts
  <1>2. HeaderSize * (a + 1) \in Nat /\ (HeaderSize * (a + 1)) \div HeaderSize - 1 = a
    BY <1>1
  <1>3. held'[c] = [at |-> HeaderSize * (a + 1), size |-> mem]
    BY DEF Typed
  <1>4. \A d \in Client : d # c => held'[d] = held[d]
    BY DEF Typed
  <1>5. mem # 0
    BY BlocksFacts
  <1>6. (Holding(c))' /\ c \notin Holder
    BY <1>3, <1>5 DEF Holding, Nothing, Holder
  <1>7. Holder' = Holder \cup {c}
    BY <1>4, <1>6 DEF Holder, Holding
  <1> QED BY <1>2, <1>3, <1>4, <1>6, <1>7 DEF Typed, HeaderOf, Holder

LEMMA GivenBack ==
  ASSUME Typed, NEW c \in Holder, held' = [held EXCEPT ![c] = Nothing]
  PROVE  /\ held' \in [Client -> [at : Nat, size : {0} \cup Request]]
         /\ Holder' = Holder \ {c}
         /\ \A d \in Holder \ {c} : held'[d] = held[d] /\ HeaderOf(d)' = HeaderOf(d)
  <1>1. c \in Client /\ held'[c] = Nothing
    BY DEF Typed, Holder
  <1>2. \A d \in Client : d # c => held'[d] = held[d]
    BY DEF Typed
  <1>3. Holder' = Holder \ {c}
    BY <1>1, <1>2 DEF Holder, Holding
  <1> QED BY <1>1, <1>2, <1>3 DEF Typed, HeaderOf, Holder, Nothing

-----------------------------------------------------------------------------
(* The steps.                                                               *)

LEMMA InitHolds ==
  ASSUME Init, Standard
  PROVE  HInv
  <1>1. mm = "STANDARD" /\ held = [c \in Client |-> Nothing] /\ free_node = base
    BY DEF Init, Standard, FreeListInit
  <1>2. header = [u \in Unit |-> IF u = base THEN [next |-> base, size |-> header_blocks]
                                             ELSE NoHeader]
    BY DEF Init, FreeListInit
  <1>3. Holder = {}
    BY <1>1 DEF Holder, Holding
  <1>4. /\ Size(base) = header_blocks /\ NextOf(base) = base
        /\ \A u \in Unit : u # base => Size(u) = 0
    BY <1>2, HeapFacts DEF Size, NextOf, NoHeader
  <1>5. Begins = {base} /\ Avail = {base}
    BY <1>3, <1>4, HeapFacts DEF Begins, Avail
  <1>6. Typed
    BY <1>1, <1>2, HeapFacts DEF Typed, NoHeader, Nothing
  <1>7. GivenOut
    BY <1>3 DEF GivenOut
  <1>8. Tiles
    BY <1>4, <1>5, HeapFacts DEF Tiles
  <1>9. Ring
    BY <1>1, <1>4, <1>5, HeapFacts DEF Ring, Follows
  <1> QED BY <1>6, <1>7, <1>8, <1>9 DEF HInv

(* malloc unlinks a block that fits exactly.                                *)
LEMMA MallocExact ==
  ASSUME HInv, NEW c \in Client, ~Holding(c), NEW mem \in Request,
         NEW prev \in Avail, NEW cur \in Avail, NextOf(prev) = cur, cur # base,
         Size(cur) = Blocks(mem),
         header' = [header EXCEPT ![prev].next = NextOf(cur), ![cur].next = base],
         held' = [held EXCEPT ![c] = [at |-> HeaderSize * (cur + 1), size |-> mem]],
         free_node' = prev, UNCHANGED mm
  PROVE  HInv'
  <1>1. prev \in Unit /\ cur \in Unit /\ NextOf(cur) \in Avail /\ NextOf(cur) \in Unit
    BY AvailFacts
  <1>2. prev # cur
    <2>1. SUFFICES ASSUME prev = cur PROVE FALSE
      OBVIOUS
    <2>2. NextOf(cur) = cur /\ Follows(cur) /\ cur \in Nat /\ Size(cur) \in Nat
      BY <2>1, AvailFacts DEF HInv, Ring
    <2> QED BY <2>2 DEF Follows
  <1>3. /\ header' \in [Unit -> [next : Unit, size : 0..header_blocks]]
        /\ \A u \in Unit : Size(u)' = Size(u)
        /\ NextOf(prev)' = NextOf(cur)
        /\ \A u \in Unit : u # prev /\ u # cur => NextOf(u)' = NextOf(u)
    BY <1>1, <1>2, HeapFacts DEF HInv, Typed, Size, NextOf
  <1>4. /\ held' \in [Client -> [at : Nat, size : {0} \cup Request]]
        /\ c \notin Holder /\ Holder' = Holder \cup {c}
        /\ held'[c].at = HeaderSize * (cur + 1) /\ held'[c].size = mem
        /\ HeaderOf(c)' = cur
        /\ \A d \in Holder : held'[d] = held[d] /\ HeaderOf(d)' = HeaderOf(d)
    BY <1>1, Given DEF HInv
  <1>5. Begins' = Begins /\ Avail' = Avail \ {cur}
    BY <1>3, <1>4 DEF Begins, Avail
  <1>6. Typed'
    BY <1>3, <1>4 DEF HInv, Typed
  <1>7. GivenOut'
    <2>1. \A d \in Holder : HeaderOf(d) # cur
      BY DEF Avail
    <2>2. \A d \in Holder : HeaderOf(d) \in Unit
      BY DEF HInv, GivenOut, Begins
    <2>3. cur \in Begins /\ mem + HeaderSize <= HeaderSize * Size(cur)
      BY AvailFacts, BlocksFacts
    <2> QED BY <1>1, <1>3, <1>4, <1>5, <2>1, <2>2, <2>3 DEF HInv, GivenOut
  <1>8. Tiles'
    BY <1>3, <1>5 DEF HInv, Tiles, Begins
  <1>9. Ring'
    <2>1. base \in Avail' /\ free_node' \in Avail'
      BY <1>2, <1>5 DEF HInv, Ring
    <2>2. ASSUME NEW a \in Avail, a # cur
          PROVE  NextOf(a)' \in Avail' /\ Follows(a)'
      <3>1. /\ Follows(a) /\ a \in Unit /\ NextOf(a) \in Avail
            /\ Size(a)' = Size(a) /\ a \in Nat /\ Size(a) \in Nat /\ NextOf(a) \in Nat
        BY <1>3, AvailFacts DEF HInv, Ring
      <3>2. CASE a = prev
        <4>1. NextOf(a)' = NextOf(cur) /\ Follows(cur) /\ NextOf(a) = cur
          BY <1>3, <3>2 DEF HInv, Ring
        <4>2. cur \in Nat /\ Size(cur) \in 1..header_blocks /\ NextOf(cur) \in Nat
          BY AvailFacts
        <4>3. NextOf(cur) # cur
          BY <4>1, <4>2 DEF Follows
        <4>4. \A b \in Avail : b \in Nat
          BY AvailFacts
        <4>5. a + Size(a) < cur /\ \A b \in Avail : b <= a \/ cur <= b
          BY <3>1, <4>1, <4>2, HeapFacts DEF Follows
        <4>6. Follows(a)'
          BY <1>5, <3>1, <4>1, <4>2, <4>4, <4>5 DEF Follows
        <4> QED BY <1>1, <1>5, <4>1, <4>3, <4>6
      <3>3. CASE a # prev
        <4>1. NextOf(a)' = NextOf(a)
          BY <1>3, <2>2, <3>1, <3>3
        <4>2. NextOf(a) # cur
          <5>1. SUFFICES ASSUME NextOf(a) = cur PROVE FALSE
            OBVIOUS
          <5>2. Follows(prev) /\ prev \in Nat /\ Size(prev) \in Nat /\ cur \in Nat
            BY AvailFacts DEF HInv, Ring
          <5>3. a < cur /\ prev < cur /\ (prev <= a \/ cur <= prev) /\ (a <= prev \/ cur <= a)
            BY <3>1, <5>1, <5>2 DEF Follows
          <5> QED BY <3>1, <3>3, <5>2, <5>3
        <4>3. Follows(a)'
          BY <1>5, <3>1, <4>1 DEF Follows
        <4> QED BY <1>5, <3>1, <4>1, <4>2, <4>3
      <3> QED BY <3>2, <3>3
    <2> QED BY <1>5, <2>1, <2>2 DEF Ring
  <1> QED BY <1>6, <1>7, <1>8, <1>9 DEF HInv

(* malloc takes the upper end of a larger block.                            *)
LEMMA MallocSplit ==
  ASSUME HInv, NEW c \in Client, ~Holding(c), NEW mem \in Request,
         NEW prev \in Avail, NEW cur \in Avail, Size(cur) > Blocks(mem),
         NEW t, t = cur + Size(cur) - Blocks(mem),
         header' = [header EXCEPT ![cur].size = @ - Blocks(mem), ![t].size = Blocks(mem)],
         held' = [held EXCEPT ![c] = [at |-> HeaderSize * (t + 1), size |-> mem]],
         free_node' = prev, UNCHANGED mm
  PROVE  HInv'
  <1> DEFINE blocks == Blocks(mem)
  <1>1. /\ cur \in Begins /\ cur \in Unit /\ cur \in Nat /\ Size(cur) \in 1..header_blocks
        /\ blocks \in Nat /\ blocks >= 2 /\ cur + Size(cur) <= header_blocks
        /\ mem + HeaderSize <= HeaderSize * blocks
    BY AvailFacts, BlocksFacts DEF HInv, Tiles
  <1>2. t \in Unit /\ t \in Nat /\ cur < t /\ t + blocks = cur + Size(cur)
    BY <1>1, HeapFacts
  <1>3. t \notin Begins
    BY <1>1, <1>2 DEF HInv, Tiles
  <1>4. Size(cur)' = Size(cur) - blocks /\ Size(t)' = blocks
    BY <1>1, <1>2, HeapFacts DEF HInv, Typed, Size
  <1>5. /\ \A u \in Unit : u # cur /\ u # t => Size(u)' = Size(u)
        /\ \A u \in Unit : NextOf(u)' = NextOf(u)
    BY <1>1, <1>2, HeapFacts DEF HInv, Typed, Size, NextOf
  <1>6. header' \in [Unit -> [next : Unit, size : 0..header_blocks]]
    <2>1. Size(cur) - blocks \in 0..header_blocks /\ blocks \in 0..header_blocks
      BY <1>1, HeapFacts
    <2> DEFINE Header == [next : Unit, size : 0..header_blocks]
    <2>2. /\ [header[cur] EXCEPT !.size = @ - blocks] \in Header
          /\ [header[t] EXCEPT !.size = blocks] \in Header
      BY <1>1, <1>2, <2>1 DEF HInv, Typed, Size
    <2>3. header' = [[header EXCEPT ![cur] = [header[cur] EXCEPT !.size = @ - blocks]]
                       EXCEPT ![t] = [header[t] EXCEPT !.size = blocks]]
      BY <1>1, <1>2 DEF HInv, Typed
    <2> QED BY <1>1, <1>2, <2>2, <2>3 DEF HInv, Typed
  <1>7. /\ held' \in [Client -> [at : Nat, size : {0} \cup Request]]
        /\ c \notin Holder /\ Holder' = Holder \cup {c}
        /\ held'[c].at = HeaderSize * (t + 1) /\ held'[c].size = mem
        /\ HeaderOf(c)' = t
        /\ \A d \in Holder : held'[d] = held[d] /\ HeaderOf(d)' = HeaderOf(d)
    BY <1>2, Given DEF HInv
  <1>8. \A u \in Unit : Size(u) \in Nat
    BY HeapFacts DEF HInv, Typed, Size
  <1>9. Begins' = Begins \cup {t}
    BY <1>1, <1>2, <1>4, <1>5, <1>8 DEF Begins
  <1>10. \A d \in Holder : HeaderOf(d) \in Begins /\ HeaderOf(d) # cur /\ HeaderOf(d) # t
    BY <1>3 DEF HInv, GivenOut, Avail
  <1>11. Avail' = Avail
    <2>1. {HeaderOf(d) : d \in Holder}' = {HeaderOf(d) : d \in Holder} \cup {t}
      BY <1>7
    <2> QED BY <1>3, <1>9, <2>1 DEF Avail
  <1>12. Typed'
    BY <1>6, <1>7 DEF HInv, Typed
  <1>13. GivenOut'
    <2>1. \A d \in Holder : HeaderOf(d) \in Unit /\ Size(HeaderOf(d))' = Size(HeaderOf(d))
      BY <1>3, <1>5, <1>7, <1>10 DEF Begins, Size
    <2>2. \A d \in Holder : /\ held'[d].at = HeaderSize * (HeaderOf(d)' + 1)
                            /\ HeaderOf(d)' \in Begins'
                            /\ held'[d].size \in Request
                            /\ held'[d].size + HeaderSize <= HeaderSize * Size(HeaderOf(d))'
      BY <1>7, <1>9, <1>10, <2>1 DEF HInv, GivenOut
    <2> QED BY <1>1, <1>4, <1>7, <1>9, <1>10, <2>2 DEF HInv, GivenOut
  <1>14. Tiles'
    <2>1. \A b \in Begins : b \in Unit /\ b \in Nat /\ Size(b) \in Nat
      BY BeginsFacts, HeapFacts DEF HInv
    <2>2. ASSUME NEW b \in Begins', NEW d \in Begins', b < d
          PROVE  b + Size(b)' <= d
      <3>1. CASE b = t
        <4>1. d \in Begins /\ cur < d
          BY <1>1, <1>2, <1>9, <2>1, <2>2, <3>1
        <4> QED BY <1>1, <1>2, <1>4, <3>1, <4>1 DEF HInv, Tiles
      <3>2. CASE b # t /\ d = t
        <4>1. b \in Begins /\ Size(b)' <= Size(b)
          BY <1>1, <1>4, <1>5, <1>9, <2>1, <3>2
        <4>2. b < cur => b + Size(b) <= cur
          BY <1>1, <4>1 DEF HInv, Tiles
        <4>3. cur < b => cur + Size(cur) <= b
          BY <1>1, <4>1 DEF HInv, Tiles
        <4> QED BY <1>1, <1>2, <1>4, <1>5, <2>1, <2>2, <3>2, <4>1, <4>2, <4>3
      <3>3. CASE b # t /\ d # t
        <4>1. b \in Begins /\ d \in Begins /\ b + Size(b) <= d
          BY <1>9, <2>2, <3>3 DEF HInv, Tiles
        <4>2. Size(b)' <= Size(b) /\ Size(b)' \in Nat
          BY <1>1, <1>4, <1>5, <2>1, <3>3, <4>1
        <4> QED BY <2>1, <4>1, <4>2
      <3> QED BY <3>1, <3>2, <3>3
    <2>3. ASSUME NEW b \in Begins'
          PROVE  b + Size(b)' <= header_blocks
      <3>1. CASE b = t
        BY <1>1, <1>2, <1>4, <3>1
      <3>2. CASE b # t
        <4>1. b \in Begins /\ b + Size(b) <= header_blocks
          BY <1>9, <3>2 DEF HInv, Tiles
        <4>2. Size(b)' <= Size(b) /\ Size(b)' \in Nat
          BY <1>1, <1>4, <1>5, <2>1, <3>2, <4>1
        <4> QED BY <2>1, <4>1, <4>2, HeapFacts
      <3> QED BY <3>1, <3>2
    <2>4. ASSUME NEW u \in Unit
          PROVE  \E b \in Begins' : b <= u /\ u < b + Size(b)'
      <3>1. PICK b \in Begins : b <= u /\ u < b + Size(b)
        BY DEF HInv, Tiles
      <3>2. CASE b # cur
        BY <1>3, <1>5, <1>9, <2>1, <3>1, <3>2
      <3>3. CASE b = cur /\ u < t
        BY <1>1, <1>2, <1>4, <1>9, <3>1, <3>3, HeapFacts
      <3>4. CASE b = cur /\ ~(u < t)
        BY <1>1, <1>2, <1>4, <1>9, <3>1, <3>4, HeapFacts
      <3> QED BY <3>2, <3>3, <3>4
    <2> QED BY <2>2, <2>3, <2>4 DEF Tiles
  <1>15. Ring'
    <2>1. ASSUME NEW a \in Avail
          PROVE  NextOf(a)' \in Avail' /\ Follows(a)'
      <3>1. /\ Follows(a) /\ a \in Unit /\ NextOf(a) \in Avail /\ a \in Nat
            /\ Size(a) \in Nat /\ NextOf(a) \in Nat /\ a \in Begins
        BY AvailFacts DEF HInv, Ring
      <3>2. NextOf(a)' = NextOf(a) /\ Size(a)' \in Nat /\ Size(a)' <= Size(a)
        BY <1>1, <1>3, <1>4, <1>5, <3>1
      <3>3. Follows(a)'
        BY <1>11, <3>1, <3>2 DEF Follows
      <3> QED BY <1>11, <3>1, <3>2, <3>3
    <2> QED BY <1>11, <2>1 DEF HInv, Ring
  <1> QED BY <1>12, <1>13, <1>14, <1>15 DEF HInv

(* Block a, which is in use, comes in the list after n.                     *)
Behind(a, n) ==
  /\ n \in Avail /\ a \in Begins \ Avail
  /\ n < a /\ n + Size(n) <= a
  /\ \/ a < NextOf(n) /\ a + Size(a) <= NextOf(n)
     \/ NextOf(n) = base
  /\ \A b \in Avail : b <= n \/ (a < NextOf(n) /\ NextOf(n) <= b)

(* free finds that place, and does not take the block for a free one.       *)
LEMMA PlaceFound ==
  ASSUME HInv, NEW a \in Begins \ Avail, NEW n, n = Place(a)
  PROVE  Behind(a, n) /\ ~Ignored(a, n)
  <1> DEFINE Stop(x) == Between(a, x) \/ Outside(a, x) \/ Listed(a, x)
  <1>1. a \in Nat /\ a \in Unit /\ Size(a) \in 1..header_blocks
    BY BeginsFacts, HeapFacts DEF HInv
  <1>2. \A x \in Avail : /\ x \in Nat /\ NextOf(x) \in Nat /\ NextOf(x) \in Avail
                         /\ Size(x) \in 1..header_blocks /\ x # a /\ NextOf(x) # a /\ Follows(x)
    BY AvailFacts DEF HInv, Ring
  <1>3. \E x \in Avail : Stop(x)
    <2> DEFINE Gap == {a - x : x \in {w \in Avail : w < a}}
    <2>1. base \in Avail /\ base < a
      BY <1>1, <1>2, HeapFacts DEF HInv, Ring
    <2>2. Gap \in SUBSET Nat /\ Gap # {}
      BY <1>1, <1>2, <2>1
    <2>3. PICK g \in Gap : \A l \in Gap : g <= l
      BY <2>2, Least
    <2>4. PICK x \in Avail : x < a /\ g = a - x
      BY <2>3
    <2>5. \A w \in Avail : w < a => w <= x
      <3> TAKE w \in Avail
      <3> HAVE w < a
      <3>1. a - x <= a - w
        BY <2>3, <2>4
      <3>2. a \in Nat /\ w \in Nat /\ x \in Nat
        BY <1>1, <1>2
      <3> QED BY <3>1, <3>2
    <2>6. CASE x < NextOf(x)
      <3>1. NextOf(x) > a
        BY <1>1, <1>2, <2>4, <2>5, <2>6
      <3> QED BY <2>4, <3>1 DEF Between
    <2>7. CASE ~(x < NextOf(x))
      BY <1>2, <2>4, <2>7 DEF Outside
    <2> QED BY <2>6, <2>7
  <1>4. n \in Avail /\ Stop(n)
    <2>1. \A i \in Stops(a) : i \in 0..header_blocks /\ Node[i] \in Avail /\ Stop(Node[i])
      BY NodesFree DEF Stops
    <2>2. Stops(a) # {}
      <3>1. PICK x \in Avail : Stop(x)
        BY <1>3
      <3>2. PICK i \in 0..header_blocks : Node[i] = x
        BY NodesAll, HeapFacts
      <3> QED BY <3>1, <3>2 DEF Stops
    <2>3. \E i \in Stops(a) : \A j \in Stops(a) : i <= j
      <3>1. Stops(a) \in SUBSET Nat
        BY <2>1, HeapFacts
      <3> QED BY <3>1, <2>2, Least
    <2>4. PICK i \in Stops(a) : n = Node[i]
      BY <2>3 DEF Place
    <2> QED BY <2>1, <2>4
  <1>5. Between(a, n) \/ Outside(a, n)
    BY <1>2, <1>4 DEF Listed
  <1>6. CASE Between(a, n)
    <2>1. n < a /\ a < NextOf(n)
      BY <1>6 DEF Between
    <2>2. n + Size(n) <= a /\ a + Size(a) <= NextOf(n)
      BY <1>2, <1>4, <2>1, AvailFacts DEF HInv, Tiles
    <2>3. \A b \in Avail : b <= n \/ NextOf(n) <= b
      BY <1>2, <1>4, <2>1, HeapFacts DEF Follows
    <2>4. Behind(a, n)
      BY <1>4, <2>1, <2>2, <2>3 DEF Behind
    <2>5. ~Ignored(a, n)
      BY <1>1, <1>2, <1>4, <1>6, <2>2 DEF Ignored
    <2> QED BY <2>4, <2>5
  <1>7. CASE ~Between(a, n) /\ Outside(a, n)
    <2>1. NextOf(n) = base /\ \A b \in Avail : b <= n
      BY <1>2, <1>4, <1>7 DEF Outside, Follows
    <2>2. n < a
      BY <1>1, <1>7, <2>1, HeapFacts DEF Outside
    <2>3. n + Size(n) <= a
      BY <1>4, <2>2, AvailFacts DEF HInv, Tiles
    <2>4. Behind(a, n)
      BY <1>4, <2>1, <2>2, <2>3 DEF Behind
    <2>5. ~Ignored(a, n)
      BY <1>2, <1>4, <1>7 DEF Ignored, Listed
    <2> QED BY <2>4, <2>5
  <1> QED BY <1>5, <1>6, <1>7

(* What joining the block above makes of a: it begins there, s units long,  *)
(* with w next in the list; the header of what joined it is gone.           *)
Grown(a, n, h, s, w, gone) ==
  /\ h \in [Unit -> [next : Unit, size : 0..header_blocks]]
  /\ s \in Nat /\ Size(a) <= s /\ w \in Avail \ gone
  /\ gone \subseteq Avail \ {n} /\ gone \subseteq {NextOf(n)}
  /\ h[a] = [next |-> w, size |-> s]
  /\ \A x \in gone : h[x] = NoHeader
  /\ \A x \in Unit \ (gone \cup {a}) : h[x] = header[x]
  /\ a + s <= header_blocks
  /\ \A b \in Begins \ gone : a < b => a + s <= b
  /\ \A x \in gone : a < x /\ x + Size(x) = a + s
  /\ \/ a + s < w /\ \A b \in Avail \ gone : b <= n \/ w <= b
     \/ w = base /\ \A b \in Avail \ gone : b <= n

LEMMA UpperJoined ==
  ASSUME HInv, NEW a, NEW n, Behind(a, n), NEW h, h = WithUpper(a, n)
  PROVE  \E s, w, gone : Grown(a, n, h, s, w, gone)
  <1> DEFINE u == NextOf(n)
  <1>1. /\ a \in Nat /\ a \in Unit /\ Size(a) \in 1..header_blocks
        /\ n \in Nat /\ n \in Avail /\ n < a /\ u \in Avail /\ u \in Nat /\ u \in Unit
        /\ u \in Begins /\ Size(u) \in 1..header_blocks /\ u # a /\ a \in Begins
        /\ a + Size(a) <= header_blocks /\ u + Size(u) <= header_blocks
    BY BeginsFacts, AvailFacts, HeapFacts DEF HInv, Behind, Tiles
  <1>2. CASE a + Size(a) = u
    <2> DEFINE s == Size(a) + Size(u)
               w == NextOf(u)
    <2>1. a < u /\ u # base /\ u # n
      BY <1>1, <1>2, HeapFacts
    <2>2. h = [header EXCEPT ![a] = [next |-> w, size |-> s], ![u] = NoHeader]
      BY <1>2, <2>1 DEF WithUpper
    <2>3. Follows(u) /\ w \in Avail /\ w \in Unit /\ w \in Nat
      BY <1>1, AvailFacts DEF HInv, Ring
    <2>4. s \in 0..header_blocks /\ Size(a) <= s /\ a + s = u + Size(u)
      BY <1>1, <1>2, HeapFacts
    <2>5. /\ h \in [Unit -> [next : Unit, size : 0..header_blocks]]
          /\ h[a] = [next |-> w, size |-> s] /\ h[u] = NoHeader
          /\ \A x \in Unit \ {u, a} : h[x] = header[x]
      BY <1>1, <2>2, <2>3, <2>4, HeapFacts DEF HInv, Typed, NoHeader
    <2>6. \A b \in Begins \ {u} : a < b => a + s <= b
      <3> TAKE b \in Begins \ {u}
      <3> HAVE a < b
      <3>1. b \in Nat /\ Size(b) \in 1..header_blocks
        BY BeginsFacts, HeapFacts DEF HInv
      <3>2. u < b => u + Size(u) <= b
        BY <1>1 DEF HInv, Tiles
      <3>3. b < u => b + Size(b) <= u
        BY <1>1 DEF HInv, Tiles
      <3>4. a + Size(a) <= b
        BY <1>1 DEF HInv, Tiles
      <3> QED BY <1>1, <1>2, <2>4, <3>1, <3>2, <3>3, <3>4
    <2>7. w # u
      BY <1>1, <2>1, <2>3 DEF Follows
    <2>8. \A b \in Avail \ {u} : b \in Nat /\ (b <= n \/ u < b)
      BY <1>1, AvailFacts DEF Behind
    <2>9. \/ a + s < w /\ \A b \in Avail \ {u} : b <= n \/ w <= b
          \/ w = base /\ \A b \in Avail \ {u} : b <= n
      <3>1. CASE u + Size(u) < w /\ \A b \in Avail : b <= u \/ w <= b
        BY <1>1, <2>4, <2>8, <3>1
      <3>2. CASE w = base /\ \A b \in Avail : b <= u
        BY <1>1, <2>8, <3>2
      <3> QED BY <2>3, <3>1, <3>2 DEF Follows
    <2>10. Grown(a, n, h, s, w, {u})
      BY <1>1, <2>1, <2>3, <2>4, <2>5, <2>6, <2>7, <2>9 DEF Grown
    <2> QED BY <2>10
  <1>3. CASE a + Size(a) # u
    <2>1. h = [header EXCEPT ![a].next = u]
      BY <1>3 DEF WithUpper
    <2>2. /\ h \in [Unit -> [next : Unit, size : 0..header_blocks]]
          /\ h[a] = [next |-> u, size |-> Size(a)]
          /\ \A x \in Unit \ {a} : h[x] = header[x]
      BY <1>1, <2>1 DEF HInv, Typed, Size
    <2>3. \A b \in Begins : a < b => a + Size(a) <= b
      BY <1>1 DEF HInv, Tiles
    <2>4. \/ a + Size(a) < u /\ \A b \in Avail : b <= n \/ u <= b
          \/ u = base /\ \A b \in Avail : b <= n
      BY <1>1, <1>3, HeapFacts DEF Behind
    <2>5. Grown(a, n, h, Size(a), u, {})
      BY <1>1, <2>2, <2>3, <2>4 DEF Grown
    <2> QED BY <2>5
  <1> QED BY <1>2, <1>3

(* A free block leads to the one after it, and no other does.               *)
LEMMA NextUnique ==
  ASSUME HInv, NEW x \in Avail, NEW y \in Avail, NextOf(x) = NextOf(y), NextOf(x) # base
  PROVE  x = y
  <1>1. /\ Follows(x) /\ Follows(y) /\ x \in Nat /\ y \in Nat /\ NextOf(x) \in Nat
        /\ Size(x) \in Nat /\ Size(y) \in Nat
    BY AvailFacts DEF HInv, Ring
  <1> QED BY <1>1 DEF Follows

(* What Grown says, in the terms of the state that results.                 *)
LEMMA GrownFacts ==
  ASSUME HInv, NEW a, NEW n, Behind(a, n), NEW h, NEW s, NEW w, NEW gone,
         Grown(a, n, h, s, w, gone)
  PROVE  /\ a \in Nat /\ a \in Unit /\ n \in Nat /\ n \in Unit /\ n < a /\ n \in Avail
         /\ a \in Begins /\ n \in Begins /\ a \notin gone /\ n \notin gone
         /\ s \in Nat /\ s > 0 /\ w \in Nat /\ w \in Unit /\ w # a /\ w \in Avail
         /\ Size(n) \in Nat /\ Size(n) > 0 /\ n + Size(n) <= a
         /\ a + s <= header_blocks /\ h[n] = header[n] /\ base \notin gone
         /\ gone \subseteq Avail
  <1>1. /\ a \in Nat /\ a \in Unit /\ Size(a) \in 1..header_blocks
        /\ n \in Nat /\ n \in Avail /\ n < a /\ n + Size(n) <= a /\ n \in Unit
        /\ a \in Begins /\ n \in Begins /\ a \notin Avail
        /\ Size(n) \in Nat /\ Size(n) > 0
    BY BeginsFacts, AvailFacts, HeapFacts DEF HInv, Behind
  <1>2. w \in Avail /\ w \in Nat /\ w \in Unit
    BY AvailFacts DEF Grown
  <1>3. base \notin gone
    BY <1>1, HeapFacts DEF Grown
  <1> QED BY <1>1, <1>2, <1>3 DEF Grown

(* free where the block below is not free too: a is linked behind n.        *)
LEMMA FreeApart ==
  ASSUME HInv, NEW c \in Holder, NEW a, a = HeaderOf(c), NEW n, Behind(a, n),
         NEW h, NEW s, NEW w, NEW gone, Grown(a, n, h, s, w, gone),
         n + Size(n) # a, header' = [h EXCEPT ![n].next = a],
         held' = [held EXCEPT ![c] = Nothing], free_node' = n, UNCHANGED mm
  PROVE  HInv'
  <1>1. /\ a \in Nat /\ a \in Unit /\ n \in Nat /\ n \in Unit /\ n < a /\ n \in Avail
        /\ a \in Begins /\ n \in Begins /\ a \notin gone /\ n \notin gone
        /\ s \in Nat /\ s > 0 /\ w \in Nat /\ w \in Unit /\ w # a /\ w \in Avail
        /\ Size(n) \in Nat /\ Size(n) > 0 /\ n + Size(n) <= a
        /\ a + s <= header_blocks /\ h[n] = header[n] /\ base \notin gone
        /\ gone \subseteq Avail
    BY GrownFacts
  <1>2. /\ held' \in [Client -> [at : Nat, size : {0} \cup Request]]
        /\ Holder' = Holder \ {c}
        /\ \A d \in Holder \ {c} : held'[d] = held[d] /\ HeaderOf(d)' = HeaderOf(d)
    BY GivenBack DEF HInv
  <1>3. /\ header' \in [Unit -> [next : Unit, size : 0..header_blocks]]
        /\ Size(a)' = s /\ NextOf(a)' = w
        /\ Size(n)' = Size(n) /\ NextOf(n)' = a
        /\ \A x \in Unit \ (gone \cup {a, n}) : Size(x)' = Size(x) /\ NextOf(x)' = NextOf(x)
        /\ \A x \in gone : Size(x)' = 0
    <2>1. h \in [Unit -> [next : Unit, size : 0..header_blocks]]
      BY DEF Grown
    <2>2. header'[n] = [h[n] EXCEPT !.next = a] /\ \A x \in Unit : x # n => header'[x] = h[x]
      BY <1>1, <2>1
    <2>3. header' \in [Unit -> [next : Unit, size : 0..header_blocks]]
      BY <1>1, <2>1
    <2>4. header'[a] = [next |-> w, size |-> s]
      BY <1>1, <2>2 DEF Grown
    <2>5. header'[n].next = a /\ header'[n].size = header[n].size
      BY <1>1, <2>1, <2>2
    <2>6. \A x \in Unit \ (gone \cup {a, n}) : header'[x] = header[x]
      BY <2>2 DEF Grown
    <2>7. \A x \in gone : x \in Unit /\ header'[x] = NoHeader
      BY <1>1, <2>2, AvailFacts DEF Grown
    <2> QED BY <2>3, <2>4, <2>5, <2>6, <2>7 DEF Size, NextOf, NoHeader
  <1>4. Begins' = Begins \ gone
    BY <1>1, <1>3 DEF Begins
  <1>5. Avail' = (Avail \ gone) \cup {a}
    <2>1. \A d \in Holder : d # c => HeaderOf(d) # a
      BY DEF HInv, GivenOut
    <2>2. {HeaderOf(d) : d \in Holder}' = {HeaderOf(d) : d \in Holder} \ {a}
      BY <1>2, <2>1
    <2>3. a \notin Avail
      BY DEF Behind
    <2> QED BY <1>1, <1>4, <2>2, <2>3 DEF Avail
  <1>6. Typed'
    BY <1>2, <1>3 DEF HInv, Typed
  <1>7. GivenOut'
    <2>1. \A d \in Holder \ {c} : HeaderOf(d) \in Begins /\ HeaderOf(d) \notin Avail /\ HeaderOf(d) # a
      BY DEF HInv, GivenOut, Avail
    <2>2. \A d \in Holder \ {c} : HeaderOf(d) \in Begins' /\ header'[HeaderOf(d)].size = Size(HeaderOf(d))
      BY <1>1, <1>3, <1>4, <2>1 DEF Begins, Size
    <2>3. \A d \in Holder' : /\ held'[d] = held[d] /\ HeaderOf(d)' = HeaderOf(d)
                             /\ Size(HeaderOf(d))' = Size(HeaderOf(d))
      BY <1>2, <2>2 DEF Size
    <2> QED BY <1>2, <2>2, <2>3 DEF HInv, GivenOut
  <1>8. \A b \in Begins : b \in Nat /\ b \in Unit /\ Size(b) \in Nat /\ Size(b) > 0
    BY BeginsFacts, HeapFacts DEF HInv
  <1>9. Tiles'
    <2>1. \A b \in Begins' : b # a => Size(b)' = Size(b)
      BY <1>3, <1>4, <1>8
    <2>2. ASSUME NEW b \in Begins', NEW d \in Begins', b < d
          PROVE  b + Size(b)' <= d
      <3>1. CASE b = a
        BY <1>3, <1>4, <2>2, <3>1 DEF Grown
      <3>2. CASE b # a
        BY <1>4, <2>1, <2>2, <3>2 DEF HInv, Tiles
      <3> QED BY <3>1, <3>2
    <2>3. \A b \in Begins' : b + Size(b)' <= header_blocks
      BY <1>1, <1>3, <1>4, <2>1 DEF HInv, Tiles
    <2>4. ASSUME NEW x \in Unit
          PROVE  \E b \in Begins' : b <= x /\ x < b + Size(b)'
      <3>1. PICK b \in Begins : b <= x /\ x < b + Size(b)
        BY DEF HInv, Tiles
      <3>2. x \in Nat
        BY HeapFacts
      <3>3. CASE b = a
        <4>1. Size(a) <= s
          BY DEF Grown
        <4> QED BY <1>1, <1>3, <1>4, <1>8, <3>1, <3>2, <3>3, <4>1
      <3>4. CASE b \in gone
        <4>1. a < b /\ b + Size(b) = a + s
          BY <3>4 DEF Grown
        <4> QED BY <1>1, <1>3, <1>4, <1>8, <3>1, <3>2, <4>1
      <3>5. CASE b # a /\ b \notin gone
        BY <1>4, <2>1, <3>1, <3>5
      <3> QED BY <3>3, <3>4, <3>5
    <2> QED BY <2>2, <2>3, <2>4 DEF Tiles
  <1>10. Ring'
    <2>1. base \in Avail' /\ free_node' \in Avail'
      BY <1>1, <1>5 DEF HInv, Ring
    <2>2. \A b \in Avail : b \in Nat /\ (b <= n \/ a < b)
      BY <1>1, AvailFacts DEF Behind
    <2>3. NextOf(a)' \in Avail' /\ Follows(a)'
      <3>1. w \in Avail'
        BY <1>5 DEF Grown
      <3>2. CASE a + s < w /\ \A b \in Avail \ gone : b <= n \/ w <= b
        BY <1>1, <1>3, <1>5, <2>2, <3>1, <3>2 DEF Follows
      <3>3. CASE w = base /\ \A b \in Avail \ gone : b <= n
        BY <1>1, <1>3, <1>5, <2>2, <3>1, <3>3 DEF Follows
      <3> QED BY <3>2, <3>3 DEF Grown
    <2>4. NextOf(n)' \in Avail' /\ Follows(n)'
      <3>1. n + Size(n) < a
        BY <1>1
      <3>2. \A b \in Avail' : b <= n \/ a <= b
        BY <1>1, <1>5, <2>2
      <3> QED BY <1>3, <1>5, <3>1, <3>2 DEF Follows
    <2>5. ASSUME NEW x \in Avail \ gone, x # n
          PROVE  NextOf(x)' \in Avail' /\ Follows(x)'
      <3>1. /\ Follows(x) /\ NextOf(x) \in Avail /\ x \in Unit /\ x \in Nat /\ x # a
            /\ NextOf(x) \in Nat /\ Size(x) \in Nat
        BY AvailFacts DEF HInv, Ring, Behind
      <3>2. NextOf(x)' = NextOf(x) /\ Size(x)' = Size(x)
        BY <1>3, <2>5, <3>1
      <3>3. NextOf(x) \notin gone
        BY <1>1, <2>5, NextUnique DEF Grown
      <3>4. CASE x + Size(x) < NextOf(x) /\ \A b \in Avail : b <= x \/ NextOf(x) <= b
        <4>1. a <= x \/ NextOf(x) <= a
          BY <1>1, <2>2, <2>5, <3>1, <3>4
        <4> QED BY <1>5, <3>1, <3>2, <3>3, <3>4, <4>1 DEF Follows
      <3>5. CASE NextOf(x) = base /\ \A b \in Avail : b <= x
        <4>1. a <= x
          BY <1>1, <2>2, <2>5, <3>1, <3>5
        <4> QED BY <1>5, <3>1, <3>2, <3>3, <3>5, <4>1 DEF Follows
      <3> QED BY <3>1, <3>4, <3>5 DEF Follows
    <2> QED BY <1>5, <2>1, <2>3, <2>4, <2>5 DEF Ring
  <1> QED BY <1>6, <1>7, <1>9, <1>10 DEF HInv

(* free where the block below is free too: n takes in a.                    *)
LEMMA FreeJoined ==
  ASSUME HInv, NEW c \in Holder, NEW a, a = HeaderOf(c), NEW n, Behind(a, n),
         NEW h, NEW s, NEW w, NEW gone, Grown(a, n, h, s, w, gone),
         n + Size(n) = a,
         header' = [h EXCEPT ![n] = [next |-> h[a].next, size |-> h[n].size + h[a].size],
                             ![a] = NoHeader],
         held' = [held EXCEPT ![c] = Nothing], free_node' = n, UNCHANGED mm
  PROVE  HInv'
  <1>1. /\ a \in Nat /\ a \in Unit /\ n \in Nat /\ n \in Unit /\ n < a /\ n \in Avail
        /\ a \in Begins /\ n \in Begins /\ a \notin gone /\ n \notin gone
        /\ s \in Nat /\ s > 0 /\ w \in Nat /\ w \in Unit /\ w # a /\ w \in Avail
        /\ Size(n) \in Nat /\ Size(n) > 0 /\ n + Size(n) <= a
        /\ a + s <= header_blocks /\ h[n] = header[n] /\ base \notin gone
        /\ gone \subseteq Avail
    BY GrownFacts
  <1>2. /\ held' \in [Client -> [at : Nat, size : {0} \cup Request]]
        /\ Holder' = Holder \ {c}
        /\ \A d \in Holder \ {c} : held'[d] = held[d] /\ HeaderOf(d)' = HeaderOf(d)
    BY GivenBack DEF HInv
  <1>3. /\ header' \in [Unit -> [next : Unit, size : 0..header_blocks]]
        /\ Size(n)' = Size(n) + s /\ NextOf(n)' = w
        /\ \A x \in Unit \ (gone \cup {a, n}) : Size(x)' = Size(x) /\ NextOf(x)' = NextOf(x)
        /\ \A x \in gone \cup {a} : Size(x)' = 0
    <2> DEFINE joined == [next |-> w, size |-> Size(n) + s]
    <2>1. h \in [Unit -> [next : Unit, size : 0..header_blocks]] /\ h[a] = [next |-> w, size |-> s]
      BY DEF Grown
    <2>2. header' = [h EXCEPT ![n] = joined, ![a] = NoHeader]
      BY <1>1, <2>1 DEF Size
    <2>3. /\ header'[n] = joined /\ header'[a] = NoHeader
          /\ \A x \in Unit : x # n /\ x # a => header'[x] = h[x]
      BY <1>1, <2>1, <2>2
    <2>4. Size(n) + s \in 0..header_blocks
      BY <1>1, HeapFacts
    <2>5. header' \in [Unit -> [next : Unit, size : 0..header_blocks]]
      <3>1. joined \in [next : Unit, size : 0..header_blocks]
        BY <1>1, <2>4
      <3>2. NoHeader \in [next : Unit, size : 0..header_blocks]
        BY HeapFacts DEF NoHeader
      <3> HIDE DEF joined
      <3> QED BY <2>1, <2>2, <3>1, <3>2
    <2>6. \A x \in Unit \ (gone \cup {a, n}) : header'[x] = header[x]
      BY <2>3 DEF Grown
    <2>7. \A x \in gone : x \in Unit /\ header'[x] = NoHeader
      BY <1>1, <2>3, AvailFacts DEF Grown
    <2> QED BY <2>3, <2>5, <2>6, <2>7 DEF Size, NextOf, NoHeader
  <1>4. Begins' = Begins \ (gone \cup {a})
    <2>1. Size(n)' > 0
      BY <1>1, <1>3
    <2>2. \A x \in gone \cup {a} : ~(Size(x)' > 0)
      BY <1>3
    <2>3. \A x \in Unit \ (gone \cup {a, n}) : Size(x)' > 0 <=> Size(x) > 0
      BY <1>3
    <2> QED BY <1>1, <2>1, <2>2, <2>3 DEF Begins
  <1>5. Avail' = Avail \ gone
    <2>1. \A d \in Holder : d # c => HeaderOf(d) # a
      BY DEF HInv, GivenOut
    <2>2. {HeaderOf(d) : d \in Holder}' = {HeaderOf(d) : d \in Holder} \ {a}
      BY <1>2, <2>1
    <2>3. a \notin Avail
      BY DEF Behind
    <2> QED BY <1>1, <1>4, <2>2, <2>3 DEF Avail
  <1>6. Typed'
    BY <1>2, <1>3 DEF HInv, Typed
  <1>7. GivenOut'
    <2>1. \A d \in Holder \ {c} : HeaderOf(d) \in Begins /\ HeaderOf(d) \notin Avail /\ HeaderOf(d) # a
      BY DEF HInv, GivenOut, Avail
    <2>2. \A d \in Holder \ {c} : HeaderOf(d) \in Begins' /\ header'[HeaderOf(d)].size = Size(HeaderOf(d))
      <3> TAKE d \in Holder \ {c}
      <3>1. HeaderOf(d) \in Unit \ (gone \cup {a, n}) /\ HeaderOf(d) \in Begins \ (gone \cup {a})
        BY <1>1, <2>1 DEF Begins
      <3>2. \A x \in Unit \ (gone \cup {a, n}) : header'[x].size = header[x].size
        BY <1>3 DEF Size
      <3> QED BY <1>4, <3>1, <3>2 DEF Size
    <2>3. \A d \in Holder' : /\ held'[d] = held[d] /\ HeaderOf(d)' = HeaderOf(d)
                             /\ Size(HeaderOf(d))' = Size(HeaderOf(d))
      BY <1>2, <2>2 DEF Size
    <2> QED BY <1>2, <2>2, <2>3 DEF HInv, GivenOut
  <1>8. \A b \in Begins : b \in Nat /\ b \in Unit /\ Size(b) \in Nat /\ Size(b) > 0
    BY BeginsFacts, HeapFacts DEF HInv
  <1>9. Tiles'
    <2>1. \A b \in Begins' : b # n => Size(b)' = Size(b)
      BY <1>3, <1>4, <1>8
    <2>2. ASSUME NEW b \in Begins', NEW d \in Begins', b < d
          PROVE  b + Size(b)' <= d
      <3>1. CASE b = n
        <4>1. d \in Begins \ gone /\ d # a /\ d \in Nat
          BY <1>4, <1>8, <2>2
        <4>2. n + Size(n) <= d
          BY <1>1, <2>2, <3>1, <4>1 DEF HInv, Tiles
        <4>3. a < d
          BY <1>1, <4>1, <4>2
        <4>4. a + s <= d
          BY <4>1, <4>3 DEF Grown
        <4> QED BY <1>1, <1>3, <3>1, <4>1, <4>4
      <3>2. CASE b # n
        BY <1>4, <2>1, <2>2, <3>2 DEF HInv, Tiles
      <3> QED BY <3>1, <3>2
    <2>3. \A b \in Begins' : b + Size(b)' <= header_blocks
      <3> TAKE b \in Begins'
      <3>1. CASE b = n
        BY <1>1, <1>3, <3>1, HeapFacts
      <3>2. CASE b # n
        BY <1>4, <2>1, <3>2 DEF HInv, Tiles
      <3> QED BY <3>1, <3>2
    <2>4. ASSUME NEW x \in Unit
          PROVE  \E b \in Begins' : b <= x /\ x < b + Size(b)'
      <3>1. PICK b \in Begins : b <= x /\ x < b + Size(b)
        BY DEF HInv, Tiles
      <3>2. x \in Nat /\ n \in Begins'
        BY <1>1, <1>4, HeapFacts
      <3>3. CASE b = a
        <4>1. Size(a) <= s
          BY DEF Grown
        <4>2. n <= x /\ x < n + Size(n)'
          BY <1>1, <1>3, <1>8, <3>1, <3>2, <3>3, <4>1
        <4> QED BY <3>2, <4>2
      <3>4. CASE b \in gone
        <4>1. a < b /\ b + Size(b) = a + s
          BY <3>4 DEF Grown
        <4>2. n <= x /\ x < n + Size(n)'
          BY <1>1, <1>3, <1>8, <3>1, <3>2, <4>1
        <4> QED BY <3>2, <4>2
      <3>5. CASE b = n
        <4>1. n <= x /\ x < n + Size(n)'
          BY <1>1, <1>3, <3>1, <3>2, <3>5
        <4> QED BY <3>2, <4>1
      <3>6. CASE b # a /\ b \notin gone /\ b # n
        BY <1>4, <2>1, <3>1, <3>6
      <3> QED BY <3>3, <3>4, <3>5, <3>6
    <2> QED BY <2>2, <2>3, <2>4 DEF Tiles
  <1>10. Ring'
    <2>1. base \in Avail' /\ free_node' \in Avail'
      BY <1>1, <1>5 DEF HInv, Ring
    <2>2. \A b \in Avail : b \in Nat
      BY AvailFacts
    <2>3. NextOf(n)' \in Avail' /\ Follows(n)'
      <3>1. w \in Avail'
        BY <1>5 DEF Grown
      <3>2. n + Size(n)' = a + s
        BY <1>1, <1>3
      <3>3. CASE a + s < w /\ \A b \in Avail \ gone : b <= n \/ w <= b
        BY <1>3, <1>5, <3>1, <3>2, <3>3 DEF Follows
      <3>4. CASE w = base /\ \A b \in Avail \ gone : b <= n
        BY <1>3, <1>5, <3>1, <3>4 DEF Follows
      <3> QED BY <3>3, <3>4 DEF Grown
    <2>4. ASSUME NEW x \in Avail \ gone, x # n
          PROVE  NextOf(x)' \in Avail' /\ Follows(x)'
      <3>1. /\ Follows(x) /\ NextOf(x) \in Avail /\ x \in Unit /\ x # a
        BY AvailFacts DEF HInv, Ring, Behind
      <3>2. NextOf(x)' = NextOf(x) /\ Size(x)' = Size(x)
        BY <1>3, <2>4, <3>1
      <3>3. NextOf(x) \notin gone
        BY <1>1, <2>4, NextUnique DEF Grown
      <3> QED BY <1>5, <3>1, <3>2, <3>3 DEF Follows
    <2> QED BY <1>5, <2>1, <2>3, <2>4 DEF Ring
  <1> QED BY <1>6, <1>7, <1>9, <1>10 DEF HInv

(* free.                                                                    *)
LEMMA FreeKeeps ==
  ASSUME HInv, NEW c \in Client, Free(c)
  PROVE  HInv'
  <1>1. FreeListFree(c) /\ UNCHANGED mm /\ c \in Holder
    BY DEF Free, Standard, HInv, Typed, Holder
  <1>2. PICK a : a = HeaderOf(c)
    OBVIOUS
  <1>3. PICK n : n = Place(a)
    OBVIOUS
  <1>4. a \in Begins \ Avail
    BY <1>1, <1>2 DEF HInv, GivenOut, Avail
  <1>5. Behind(a, n) /\ ~Ignored(a, n)
    BY <1>3, <1>4, PlaceFound
  <1>6. PICK h : h = WithUpper(a, n)
    OBVIOUS
  <1>7. /\ held' = [held EXCEPT ![c] = Nothing]
        /\ header' = WithLower(h, a, n) /\ free_node' = n
    BY <1>1, <1>2, <1>3, <1>5, <1>6 DEF FreeListFree, HeaderOf
  <1>8. PICK s, w, gone : Grown(a, n, h, s, w, gone)
    BY <1>5, <1>6, UpperJoined
  <1>9. h[n] = header[n]
    BY <1>5, <1>8, GrownFacts
  <1>10. CASE n + Size(n) = a
    <2>1. header' = [h EXCEPT ![n] = [next |-> h[a].next, size |-> h[n].size + h[a].size],
                              ![a] = NoHeader]
      BY <1>7, <1>9, <1>10 DEF WithLower, Size
    <2> QED BY <1>1, <1>2, <1>5, <1>7, <1>8, <1>10, <2>1, FreeJoined
  <1>11. CASE n + Size(n) # a
    <2>1. header' = [h EXCEPT ![n].next = a]
      BY <1>7, <1>9, <1>11 DEF WithLower, Size
    <2> QED BY <1>1, <1>2, <1>5, <1>7, <1>8, <1>11, <2>1, FreeApart
  <1> QED BY <1>10, <1>11

(* malloc.                                                                  *)
LEMMA MallocKeeps ==
  ASSUME Exhaust = {}, HInv, NEW c \in Client, NEW mem \in Request, Malloc(c, mem)
  PROVE  HInv'
  <1>1. FreeListMalloc(c, mem) /\ UNCHANGED mm /\ ~Holding(c)
    BY DEF Malloc, Standard, HInv, Typed
  <1> DEFINE blocks == Blocks(mem)
  <1>2. PICK i \in Found(blocks) :
          /\ free_node' = Node[i - 1]
          /\ \/ /\ Size(Node[i]) = blocks
                /\ UsesUp(Node[i - 1], Node[i])
                /\ header' = Unlinked(Node[i - 1], Node[i])
                /\ held' = [held EXCEPT ![c] = [at |-> HeaderSize * (Node[i] + 1), size |-> mem]]
             \/ /\ Size(Node[i]) > blocks
                /\ header' = TailGiven(Node[i], blocks)
                /\ held' = [held EXCEPT ![c] =
                     [at |-> HeaderSize * (Node[i] + Size(Node[i]) - blocks + 1), size |-> mem]]
    BY <1>1, Zenon DEF FreeListMalloc
  <1>3. PICK prev, cur : prev = Node[i - 1] /\ cur = Node[i]
    OBVIOUS
  <1>4. i \in 1..header_blocks /\ i - 1 \in 0..header_blocks /\ i \in 0..header_blocks
    BY HeapFacts DEF Found
  <1>5. prev \in Avail /\ cur \in Avail /\ NextOf(prev) = cur
    BY <1>3, <1>4, NodesFree, NodeFacts
  <1>6. free_node' = prev /\ UNCHANGED mm /\ ~Holding(c)
    BY <1>1, <1>2, <1>3
  <1>7. CASE Size(cur) = blocks /\ UsesUp(prev, cur) /\ header' = Unlinked(prev, cur)
             /\ held' = [held EXCEPT ![c] = [at |-> HeaderSize * (cur + 1), size |-> mem]]
    <2>1. cur # prev /\ cur # base
      BY <1>7 DEF UsesUp
    <2>2. header' = [header EXCEPT ![prev].next = NextOf(cur), ![cur].next = base]
      BY <1>7, <2>1 DEF Unlinked
    <2>3. /\ Size(cur) = Blocks(mem)
          /\ held' = [held EXCEPT ![c] = [at |-> HeaderSize * (cur + 1), size |-> mem]]
      BY <1>7
    <2> QED BY <1>5, <1>6, <2>1, <2>2, <2>3, MallocExact, Zenon
  <1>8. CASE Size(cur) > blocks /\ header' = TailGiven(cur, blocks)
             /\ held' = [held EXCEPT ![c] =
                  [at |-> HeaderSize * (cur + Size(cur) - blocks + 1), size |-> mem]]
    <2>1. PICK t : t = cur + Size(cur) - blocks
      OBVIOUS
    <2>2. header' = [header EXCEPT ![cur].size = @ - blocks, ![t].size = blocks]
      BY <1>8, <2>1 DEF TailGiven
    <2>3. held' = [held EXCEPT ![c] = [at |-> HeaderSize * (t + 1), size |-> mem]]
      BY <1>8, <2>1
    <2>4. Size(cur) > Blocks(mem) /\ t = cur + Size(cur) - Blocks(mem)
      BY <1>8, <2>1
    <2> QED BY <1>5, <1>6, <2>2, <2>3, <2>4, MallocSplit, Zenon
  <1> QED BY <1>2, <1>3, <1>7, <1>8

(* In the build with the default heap every step keeps the invariant; the   *)
(* build does not change.                                                   *)
StandardInv == mm \in Builds /\ (Standard => HInv)

LEMMA StandardInit ==
  ASSUME Init
  PROVE  StandardInv
  BY InitHolds DEF StandardInv, Init

LEMMA StandardNext ==
  ASSUME Exhaust = {}, StandardInv, [Next]_vars
  PROVE  StandardInv'
  <1>1. CASE Standard /\ Next
    <2>1. HInv
      BY <1>1 DEF StandardInv
    <2>2. PICK c \in Client : Free(c) \/ \E mem \in Request : Malloc(c, mem)
      BY <1>1 DEF Next
    <2>3. HInv'
      BY <2>1, <2>2, FreeKeeps, MallocKeeps
    <2>4. mm' = mm
      BY <2>2 DEF Free, Malloc
    <2> QED BY <2>3, <2>4 DEF StandardInv
  <1>2. CASE ~Standard /\ Next
    <2>1. mm' = mm
      BY <1>2 DEF Next, Free, Malloc
    <2> QED BY <1>2, <2>1 DEF StandardInv, Standard
  <1>3. CASE UNCHANGED vars
    <2>1. mm' = mm /\ held' = held /\ header' = header /\ free_node' = free_node
      BY <1>3 DEF vars
    <2>2. Holder' = Holder /\ Begins' = Begins
      BY <2>1 DEF Holder, Holding, Begins, Size
    <2>3. Avail' = Avail
      BY <2>1, <2>2 DEF Avail, HeaderOf
    <2>4. Typed' <=> Typed
      BY <2>1 DEF Typed
    <2>5. GivenOut' <=> GivenOut
      BY <2>1, <2>2 DEF GivenOut, HeaderOf, Size
    <2>6. Tiles' <=> Tiles
      BY <2>1, <2>2 DEF Tiles, Size
    <2>7. \A a : Follows(a)' <=> Follows(a)
      BY <2>1, <2>3 DEF Follows, Size, NextOf
    <2>8. Ring' <=> Ring
      BY <2>1, <2>3, <2>7 DEF Ring, NextOf
    <2> QED BY <2>1, <2>4, <2>5, <2>6, <2>8 DEF StandardInv, Standard, HInv
  <1> QED BY <1>1, <1>2, <1>3

-----------------------------------------------------------------------------
(* The blocks programs hold.                                                *)

LEMMA ApartHolds ==
  ASSUME HInv
  PROVE  BlocksApart
  <1> SUFFICES ASSUME NEW c \in Holder, NEW d \in Holder, c # d,
                      HeaderOf(c) < HeaderOf(d)
               PROVE  held[c].at + held[c].size <= held[d].at
    <2>1. \A c, d \in Holder : c # d => HeaderOf(c) < HeaderOf(d) \/ HeaderOf(d) < HeaderOf(c)
      <3> TAKE c, d \in Holder
      <3> HAVE c # d
      <3>1. HeaderOf(c) \in Begins /\ HeaderOf(d) \in Begins /\ HeaderOf(c) # HeaderOf(d)
        BY DEF HInv, GivenOut
      <3> QED BY <3>1, BeginsFacts DEF HInv
    <2> QED BY <2>1 DEF BlocksApart, Allocator!Disjoint, Holder
  <1>1. PICK x, y : x = HeaderOf(c) /\ y = HeaderOf(d)
    OBVIOUS
  <1>2. x \in Begins /\ y \in Begins /\ x \in Nat /\ y \in Nat /\ Size(x) \in Nat
    BY <1>1, BeginsFacts, HeapFacts DEF HInv, GivenOut
  <1>3. x + Size(x) <= y
    BY <1>1, <1>2 DEF HInv, Tiles
  <1>4. /\ held[c].at = 16 * (x + 1) /\ held[d].at = 16 * (y + 1)
        /\ held[c].size \in Nat /\ held[c].size + 16 <= 16 * Size(x)
    BY <1>1, BlocksFacts, HeapFacts DEF HInv, GivenOut
  <1> QED BY <1>2, <1>3, <1>4

(* Blocks given out lie within the heap, if its size is a number of headers.*)
LEMMA WithinHeap ==
  ASSUME HInv, HeapSize % HeaderSize = 0, NEW c \in Holder
  PROVE  held[c] \in Allocator!Block
  <1>1. PICK x : x = HeaderOf(c)
    OBVIOUS
  <1>2. /\ x \in Begins /\ x \in Nat /\ Size(x) \in Nat /\ x + Size(x) <= header_blocks
        /\ header_blocks \in Nat /\ 16 * header_blocks = HeapSize + 16 /\ HeaderSize = 16
    BY <1>1, BeginsFacts, HeapFacts DEF HInv, GivenOut, Tiles
  <1>3. /\ held[c].at = 16 * (x + 1) /\ held[c].size \in Request
        /\ held[c].size \in Nat /\ held[c].size > 0 /\ held[c].size + 16 <= 16 * Size(x)
    BY <1>1, BlocksFacts, HeapFacts DEF HInv, GivenOut
  <1>4. held[c].at \in Nat /\ held[c].at + held[c].size <= HeapSize + HeaderSize
    BY <1>2, <1>3
  <1>5. held[c] = [at |-> held[c].at, size |-> held[c].size]
    BY DEF HInv, Typed, Holder
  <1> QED BY <1>3, <1>4, <1>5 DEF Allocator!Block

InHeap == \A c \in Holder : held[c] \in Allocator!Block

LEMMA StepAllocates ==
  ASSUME HInv, HInv', BlocksApart', InHeap', Next
  PROVE  Allocator!Next
  <1>1. PICK c \in Client : Free(c) \/ \E mem \in Request : Malloc(c, mem)
    BY DEF Next
  <1>2. CASE Free(c)
    <2>1. Holding(c) /\ held' = [held EXCEPT ![c] = Nothing]
      BY <1>2 DEF Free, FreeListFree, Standard, HInv, Typed
    <2>2. Allocator!Release(c)
      BY <2>1 DEF Allocator!Release, Allocator!Nothing, Holding, Nothing
    <2> QED BY <2>2 DEF Allocator!Next
  <1>3. ASSUME NEW mem \in Request, Malloc(c, mem)
        PROVE  Allocator!Allocate(c)
    <2>1. ~Holding(c) /\ FreeListMalloc(c, mem)
      BY <1>3 DEF Malloc, Standard, HInv, Typed
    <2>2. PICK k : held' = [held EXCEPT ![c] = [at |-> k, size |-> mem]]
      BY <2>1, Zenon DEF FreeListMalloc
    <2>3. held'[c] = [at |-> k, size |-> mem] /\ mem # 0
      BY <2>2, BlocksFacts DEF HInv, Typed
    <2>4. Holding(c)'
      BY <2>3 DEF Holding, Nothing
    <2>5. held'[c] \in Allocator!Block
      BY <2>4 DEF InHeap, Holder
    <2>6. \A d \in Client \ {c} : held'[d] = held[d]
      BY <2>2 DEF HInv, Typed
    <2>7. \A d \in Client \ {c} :
             held[d] # Allocator!Nothing => Allocator!Disjoint(held'[c], held[d])
      <3> TAKE d \in Client \ {c}
      <3> HAVE held[d] # Allocator!Nothing
      <3>1. Holding(d)'
        BY <2>6 DEF Holding, Nothing, Allocator!Nothing
      <3>2. Allocator!Disjoint(held[c], held[d])'
        BY <2>4, <3>1 DEF BlocksApart
      <3> QED BY <2>6, <3>2 DEF Allocator!Disjoint
    <2>8. DOMAIN held' = Client /\ held[c] = Allocator!Nothing
      BY <2>1, <2>2 DEF HInv, Typed, Holding, Nothing, Allocator!Nothing
    <2> QED BY <2>5, <2>6, <2>7, <2>8 DEF Allocator!Allocate
  <1> QED BY <1>1, <1>2, <1>3 DEF Allocator!Next

-----------------------------------------------------------------------------
(* The theorems.  Programs leave the lowest free block in the list          *)
(* (Exhaust = {}): HeapExhausted.cfg and HeapLowest.cfg show what malloc    *)
(* and free do when they do not.                                            *)

(* malloc and free keep every header they touch in the heap.                *)
THEOREM HeadersTyped ==
  ASSUME Exhaust = {}, Builds = {"STANDARD"}
  PROVE  Spec => [](FreeListType /\ held \in [Client -> [at : Nat, size : {0} \cup Request]])
  <1>1. StandardInv => FreeListType /\ held \in [Client -> [at : Nat, size : {0} \cup Request]]
    BY HeapFacts DEF StandardInv, Standard, HInv, Typed, Ring, Avail, Begins, FreeListType
  <1>2. StandardInv /\ [Next]_vars => StandardInv'
    BY StandardNext
  <1> QED BY <1>1, <1>2, StandardInit, PTL DEF Spec

(* No memory is lost and none is in two blocks, whatever the order of the   *)
(* calls and wherever the search began (memoryManager.c: malloc, free).     *)
THEOREM NothingLost ==
  ASSUME Exhaust = {}, Builds = {"STANDARD"}
  PROVE  Spec => []Tiled
  <1>1. StandardInv => Tiled
    BY TiledHolds DEF StandardInv, Standard
  <1>2. StandardInv /\ [Next]_vars => StandardInv'
    BY StandardNext
  <1> QED BY <1>1, <1>2, StandardInit, PTL DEF Spec

(* The list of free blocks stays in order, and no two of its blocks touch.  *)
THEOREM ListStaysOrdered ==
  ASSUME Exhaust = {}
  PROVE  Spec => []ListOrdered
  <1>1. StandardInv => ListOrdered
    BY OrderedHolds DEF StandardInv, ListOrdered
  <1>2. StandardInv /\ [Next]_vars => StandardInv'
    BY StandardNext
  <1> QED BY <1>1, <1>2, StandardInit, PTL DEF Spec

(* malloc returns NULL only if no free stretch of memory is long enough: its*)
(* search goes all the way round, and free has joined what touches.         *)
THEOREM NeverRefusesWithRoom ==
  ASSUME Exhaust = {}, Builds = {"STANDARD"}
  PROVE  Spec => []RefusesOnlyIfFull
  <1>1. StandardInv => RefusesOnlyIfFull
    BY FitsHolds DEF StandardInv, Standard
  <1>2. StandardInv /\ [Next]_vars => StandardInv'
    BY StandardNext
  <1> QED BY <1>1, <1>2, StandardInit, PTL DEF Spec

(* The blocks programs hold never overlap, so that each finds what it wrote.*)
THEOREM BlocksStayApart ==
  ASSUME Exhaust = {}, Builds = {"STANDARD"}
  PROVE  Spec => []BlocksApart
  <1>1. StandardInv => BlocksApart
    BY ApartHolds DEF StandardInv, Standard
  <1>2. StandardInv /\ [Next]_vars => StandardInv'
    BY StandardNext
  <1> QED BY <1>1, <1>2, StandardInit, PTL DEF Spec

(* The default heap is the allocator Memory describes, if its size is a     *)
(* number of headers, as HEAP_SIZE of kernel.c is.                          *)
THEOREM DefaultHeapAllocates ==
  ASSUME Exhaust = {}, Builds = {"STANDARD"}, HeapSize % HeaderSize = 0
  PROVE  Spec => HeapAllocates
  <1>1. Init => Allocator!Init
    BY DEF Init, Allocator!Init, Nothing, Allocator!Nothing
  <1>2. StandardInv /\ [Next]_vars => StandardInv'
    BY StandardNext
  <1>3. StandardInv => HInv /\ BlocksApart /\ InHeap
    BY ApartHolds, WithinHeap DEF StandardInv, Standard, InHeap
  <1>4. HInv /\ HInv' /\ BlocksApart' /\ InHeap' /\ [Next]_vars => [Allocator!Next]_held
    <2> SUFFICES ASSUME HInv, HInv', BlocksApart', InHeap', [Next]_vars
                 PROVE  [Allocator!Next]_held
      OBVIOUS
    <2>1. CASE Next
      BY <2>1, StepAllocates
    <2>2. CASE UNCHANGED vars
      BY <2>2 DEF vars
    <2> QED BY <2>1, <2>2
  <1> QED BY <1>1, <1>2, <1>3, <1>4, StandardInit, PTL DEF Spec, HeapAllocates, Allocator!Spec

=============================================================================
