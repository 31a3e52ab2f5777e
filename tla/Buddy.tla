------------------------------- MODULE Buddy -------------------------------
(***************************************************************************)
(* The other heap (memory_manager/buddy.c, buddyBTree.c), built with       *)
(* "make MM=BUDDY": blocks of 2^(4 + order) bytes, split in halves when    *)
(* they are too large and joined with their other half when both are free. *)
(***************************************************************************)
EXTENDS HeapInterface

NodeSize == 24           \* sizeof(list_t)
MIN_ALLOC_LOG2 == 4
MAX_BLOCK_COUNT == 27

log2(n) == CHOOSE k \in 0..31 : 2^k <= n /\ n < 2^(k + 1)
BlockSize(o) == 2^(MIN_ALLOC_LOG2 + o)

currentBlocks == IF log2(HeapSize) - MIN_ALLOC_LOG2 + 1 > MAX_BLOCK_COUNT
                 THEN MAX_BLOCK_COUNT ELSE log2(HeapSize) - MIN_ALLOC_LOG2 + 1
Order == 0..(currentBlocks - 1)
Top == currentBlocks - 1
Address == {a \in 0..(BlockSize(Top) - 1) : a % BlockSize(0) = 0}

VARIABLES orders,   \* the lists of free blocks, by order; blocks are taken
                    \* from the end and added to it
          node      \* the header each address holds if a block begins there

buddyVars == <<orders, node>>

(* The other half of block a of order o: the offset with one bit changed. *)
getBuddyBlock(a, o) ==
  IF (a \div BlockSize(o)) % 2 = 1 THEN a - BlockSize(o) ELSE a + BlockSize(o)

BuddyInit ==
  /\ orders = [o \in Order |-> IF o = Top THEN <<0>> ELSE <<>>]
  /\ node = [a \in Address |-> [order |-> IF a = 0 THEN Top ELSE 0, free |-> a = 0]]

-----------------------------------------------------------------------------
(* malloc *)
getMinimumFittingOrder(n) ==
  IF log2(n) < MIN_ALLOC_LOG2 THEN 0
  ELSE IF n = 2^log2(n) THEN log2(n) - MIN_ALLOC_LOG2
  ELSE log2(n) - MIN_ALLOC_LOG2 + 1

(* The smallest order not below o that has a free block; getFreeBlock       *)
(* returns currentBlocks if there is none, the entry of an order that does  *)
(* not exist, and malloc finds it empty.                                    *)
FreeBlock(o) == {f \in Order : /\ o <= f /\ orders[f] # <<>>
                               /\ \A k \in o..(f - 1) : orders[k] = <<>>}

Last(s) == s[Len(s)]
Without(s, a) == SelectSeq(s, LAMBDA b : b # a)

BuddyMalloc(c, mem) ==
  LET need == mem + NodeSize
      o == getMinimumFittingOrder(need)
  IN  /\ need <= HeapSize
      /\ \E f \in FreeBlock(o) :
           LET a == Last(orders[f])
               half(k) == getBuddyBlock(a, k)
           IN  /\ orders' = [k \in Order |->
                               IF k = f THEN SubSeq(orders[f], 1, Len(orders[f]) - 1)
                               ELSE IF o <= k /\ k < f THEN Append(orders[k], half(k))
                               ELSE orders[k]]
               /\ node' = [b \in Address |->
                             IF b = a THEN [order |-> o, free |-> FALSE]
                             ELSE IF \E k \in o..(f - 1) : b = half(k)
                             THEN [order |-> CHOOSE k \in o..(f - 1) : b = half(k), free |-> TRUE]
                             ELSE node[b]]
               /\ held' = [held EXCEPT ![c] = [at |-> a + NodeSize, size |-> mem]]

-----------------------------------------------------------------------------
(* free.  The block of order k that a becomes a part of: getBlockAddress,   *)
(* once for each order up to k.                                             *)
Ancestor(a, k) == a - (a % BlockSize(k))

BadJoins(a, k) ==   \* faulty, for a mutation run: ignores the order of the other half
  LET other == getBuddyBlock(Ancestor(a, k), k)
  IN  k # Top /\ node[other].free
Joins(a, k) ==
  LET other == getBuddyBlock(Ancestor(a, k), k)
  IN  k # Top /\ node[other].order = k /\ node[other].free

BuddyFree(c) ==
  LET a == held[c].at - NodeSize
      o == node[a].order
      top == CHOOSE m \in Order : /\ o <= m /\ ~Joins(a, m)
                                  /\ \A k \in o..(m - 1) : Joins(a, k)
      grown(b) == {k \in o..top : Ancestor(a, k) = b}
  IN  /\ held' = [held EXCEPT ![c] = Nothing]
      /\ orders' = [k \in Order |->
                      IF o <= k /\ k < top
                      THEN Without(orders[k], getBuddyBlock(Ancestor(a, k), k))
                      ELSE IF k = top THEN Append(orders[k], Ancestor(a, top))
                      ELSE orders[k]]
      /\ node' = [b \in Address |->
                    IF grown(b) = {} THEN node[b]
                    ELSE [order |-> CHOOSE k \in grown(b) : \A m \in grown(b) : m <= k,
                          free |-> TRUE]]

-----------------------------------------------------------------------------
BuddyType ==
  /\ orders \in [Order -> Seq(Address)]
  /\ node \in [Address -> [order : Order, free : BOOLEAN]]

InList(o) == {orders[o][i] : i \in 1..Len(orders[o])}
FreeBlocks == UNION {InList(o) : o \in Order}
GivenBlocks == {held[c].at - NodeSize : c \in {d \in Client : Holding(d)}}
Bytes(a) == {b \in Address : a <= b /\ b < a + BlockSize(node[a].order)}

(* The blocks of the lists and those given out make up the whole heap, each *)
(* begins at a multiple of its size and is in the list of its order; those  *)
(* given out have room for what was asked for.                              *)
BuddyTiled ==
  /\ \A c \in Client : Holding(c) =>
       held[c].size + NodeSize <= BlockSize(node[held[c].at - NodeSize].order)
  /\ \A o \in Order : /\ \A a \in InList(o) : node[a] = [order |-> o, free |-> TRUE]
                      /\ Cardinality(InList(o)) = Len(orders[o])
  /\ \A a \in GivenBlocks : ~node[a].free
  /\ \A a \in FreeBlocks \cup GivenBlocks : a % BlockSize(node[a].order) = 0
  /\ UNION {Bytes(a) : a \in FreeBlocks \cup GivenBlocks} = Address
  /\ \A a, b \in FreeBlocks \cup GivenBlocks : a # b => Bytes(a) \cap Bytes(b) = {}

(* malloc refuses only if no aligned stretch of the size it needs is free:  *)
(* free has joined what could be joined.                                    *)
BuddyFits(mem) ==
  LET o == getMinimumFittingOrder(mem + NodeSize)
  IN  o \in Order /\ FreeBlock(o) = {} =>
        \A a \in Address : a % BlockSize(o) = 0 =>
          \E g \in GivenBlocks : /\ g < a + BlockSize(o)
                                 /\ a < g + BlockSize(node[g].order)

=============================================================================
