------------------------------ MODULE FreeList ------------------------------
(***************************************************************************)
(* The default heap (memory_manager/memoryManager.c): a circular list of   *)
(* free blocks in the order of their addresses, searched from where the    *)
(* last search ended.  Addresses and sizes are in units of a header.       *)
(***************************************************************************)
EXTENDS HeapInterface

CONSTANT Exhaust    \* bound: what programs may use up to the last unit: "last",
                    \* the only free block; "lowest", the free block the heap
                    \* began with, while there are others

ASSUME ExhaustAssumption == Exhaust \subseteq {"last", "lowest"}

HeaderSize == 16    \* sizeof(Header)
RoundUp(mem) == (mem + HeaderSize - 1) \div HeaderSize
base == 0
header_blocks == RoundUp(HeapSize) + 1   \* one more than there is memory for
Unit == base..(header_blocks - 1)

VARIABLES header,     \* the header each unit holds if a block begins there;
                      \* what nobody reads any more is cleared: all of a unit
                      \* inside a block, and next in a block given out
          free_node   \* the node where the next search begins

freeListVars == <<header, free_node>>

Size(a) == header[a].size
NextOf(a) == header[a].next

NoHeader == [next |-> base, size |-> 0]

(* The list from free_node on, once around. *)
Node[i \in 0..header_blocks] == IF i = 0 THEN free_node ELSE NextOf(Node[i - 1])

(* The Bad operators are faulty forms of the definitions that follow them,  *)
(* for the mutation runs; nothing uses them.                                *)
BadFreeListInit ==                        \* the size in bytes
  /\ header = [u \in Unit |-> IF u = base THEN [next |-> base, size |-> HeapSize]
                                          ELSE NoHeader]
  /\ free_node = base
FreeListInit ==
  /\ header = [u \in Unit |-> IF u = base THEN [next |-> base, size |-> header_blocks]
                                          ELSE NoHeader]
  /\ free_node = base

-----------------------------------------------------------------------------
(* malloc *)
BadBlocks(mem) == RoundUp(mem)            \* no room for the header
Blocks(mem) == RoundUp(mem) + 1

(* First fit: the place in the list of the block that malloc takes.  None   *)
(* if the search comes back to free_node.                                   *)
Found(blocks) ==
  {i \in 1..header_blocks :
     /\ Size(Node[i]) >= blocks
     /\ \A j \in 1..(i - 1) : Size(Node[j]) < blocks /\ Node[j] # free_node}

UsesUp(prev, cur) ==
  IF cur = prev THEN "last" \in Exhaust ELSE cur # base \/ "lowest" \in Exhaust

(* A block that fits is unlinked, unless it is linked to itself. *)
Unlinked(prev, cur) ==
  [header EXCEPT ![prev].next = NextOf(cur),
                 ![cur].next = IF cur = prev THEN @ ELSE base]

(* A larger block gives its upper end. *)
TailGiven(cur, blocks) ==
  [header EXCEPT ![cur].size = @ - blocks, ![cur + Size(cur) - blocks].size = blocks]

FreeListMalloc(c, mem) ==
  LET blocks == Blocks(mem)
  IN  \E i \in Found(blocks) :
        LET prev == Node[i - 1]
            cur == Node[i]
            given(a) == held' = [held EXCEPT ![c] = [at |-> HeaderSize * (a + 1), size |-> mem]]
        IN  /\ free_node' = prev
            /\ \/ /\ Size(cur) = blocks
                  /\ UsesUp(prev, cur)
                  /\ header' = Unlinked(prev, cur)
                  /\ given(cur)
               \/ /\ Size(cur) > blocks
                  /\ header' = TailGiven(cur, blocks)
                  /\ given(cur + Size(cur) - blocks)

-----------------------------------------------------------------------------
(* free: the place of block a in the list is after the node a comes after,  *)
(* or after the last node.                                                  *)
Between(a, n) == n < a /\ a < NextOf(n)
Outside(a, n) == NextOf(n) <= n /\ (n < a \/ a < NextOf(n))
Listed(a, n) == n = a \/ NextOf(n) = a
Stops(a) == {i \in 0..header_blocks : LET n == Node[i] IN Between(a, n) \/ Outside(a, n) \/ Listed(a, n)}
Place(a) == Node[CHOOSE i \in Stops(a) : \A j \in Stops(a) : i <= j]

(* The early returns: a is free, or overlaps its neighbours. *)
Ignored(a, n) ==
  \/ ~Between(a, n) /\ Listed(a, n)
  \/ Between(a, n) /\ (n + Size(n) > a \/ a + Size(a) > NextOf(n))

(* The block that follows joins block a, and block a the one before.  The   *)
(* header of what joined is not read again, unless it is also the one before.*)
BadWithUpper(a, n) == [header EXCEPT ![a].next = NextOf(n)]   \* never joins
WithUpper(a, n) ==
  IF a + Size(a) = NextOf(n)
  THEN [header EXCEPT ![a] = [next |-> NextOf(NextOf(n)), size |-> Size(a) + Size(NextOf(n))],
                      ![NextOf(n)] = IF NextOf(n) = n THEN @ ELSE NoHeader]
  ELSE [header EXCEPT ![a].next = NextOf(n)]
BadWithLower(h, a, n) == [h EXCEPT ![n].next = a]   \* never joins
WithLower(h, a, n) ==
  IF n + h[n].size = a
  THEN [h EXCEPT ![n] = [next |-> h[a].next, size |-> h[n].size + h[a].size],
                 ![a] = NoHeader]
  ELSE [h EXCEPT ![n].next = a]

FreeListFree(c) ==
  LET a == held[c].at \div HeaderSize - 1
      n == Place(a)
  IN  /\ held' = [held EXCEPT ![c] = Nothing]
      /\ \/ Ignored(a, n) /\ UNCHANGED freeListVars
         \/ /\ ~Ignored(a, n)
            /\ header' = WithLower(WithUpper(a, n), a, n)
            /\ free_node' = n

-----------------------------------------------------------------------------
FreeListType ==
  /\ header \in [Unit -> [next : Unit, size : 0..header_blocks]]
  /\ free_node \in Unit

Units(a) == a..(a + Size(a) - 1)
FreeNodes == {Node[i] : i \in 0..header_blocks}
Headers == {held[c].at \div HeaderSize - 1 : c \in {d \in Client : Holding(d)}}

(* The blocks of the list and those given out make up the whole heap, none  *)
(* of them overlapping another: nothing is lost or handed out twice.  Those *)
(* given out have room for what was asked for.                              *)
FreeListTiled ==
  /\ \A c \in Client : Holding(c) =>
       held[c].size + HeaderSize <= HeaderSize * Size(held[c].at \div HeaderSize - 1)
  /\ Cardinality(Headers) = Cardinality({c \in Client : Holding(c)})
  /\ FreeNodes \cap Headers = {}
  /\ UNION {Units(a) : a \in FreeNodes \cup Headers} = Unit
  /\ \A a, b \in FreeNodes \cup Headers : a # b => Units(a) \cap Units(b) = {}

(* The list is circular and ascends, and no two of its blocks touch: free   *)
(* has joined them whatever the order of the calls and the place the search *)
(* began.                                                                   *)
FreeListOrdered ==
  \A a \in FreeNodes :
    \/ a + Size(a) < NextOf(a)
    \/ NextOf(a) <= a /\ \A b \in FreeNodes : NextOf(a) <= b /\ b <= a

(* malloc refuses only if no free stretch of memory is long enough. *)
FreeListFits(mem) ==
  Found(Blocks(mem)) = {} =>
    \A u \in Unit : u + Blocks(mem) - 1 \in Unit =>
      \E a \in Headers : Units(a) \cap (u..(u + Blocks(mem) - 1)) # {}

=============================================================================
