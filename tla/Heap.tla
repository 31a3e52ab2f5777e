-------------------------------- MODULE Heap --------------------------------
(***************************************************************************)
(* The heap of the kernel: one of two implementations of malloc and free,  *)
(* chosen when the kernel is built (MM=STANDARD or BUDDY in the Makefile). *)
(* Programs call them in any order, each with its own pointers.  A call is *)
(* one step, for system calls run with interrupts disabled; init, which    *)
(* calls malloc (toBegin, semWait) with interrupts enabled, is left out.   *)
(***************************************************************************)
EXTENDS FreeList, Buddy

CONSTANT Builds      \* the builds to look at

VARIABLE mm          \* the build

vars == <<mm, held, header, free_node, orders, node>>

Standard == mm = "STANDARD"

Init ==
  /\ mm \in Builds
  /\ held = [c \in Client |-> Nothing]
  /\ FreeListInit
  /\ BuddyInit

Malloc(c, mem) ==
  /\ ~Holding(c)
  /\ \/ Standard /\ FreeListMalloc(c, mem) /\ UNCHANGED buddyVars
     \/ ~Standard /\ BuddyMalloc(c, mem) /\ UNCHANGED freeListVars
  /\ UNCHANGED mm

Free(c) ==
  /\ Holding(c)
  /\ \/ Standard /\ FreeListFree(c) /\ UNCHANGED buddyVars
     \/ ~Standard /\ BuddyFree(c) /\ UNCHANGED freeListVars
  /\ UNCHANGED mm

Next == \E c \in Client : Free(c) \/ \E mem \in Request : Malloc(c, mem)

Spec == Init /\ [][Next]_vars

-----------------------------------------------------------------------------
(* Every variable holds what its declaration in the two heaps allows. *)
TypeOK ==
  /\ mm \in {"STANDARD", "BUDDY"}
  /\ held \in [Client -> [at : Nat, size : {0} \cup Request]]
  /\ FreeListType
  /\ BuddyType

(* No memory is lost and none is handed out twice (memoryManager.c and      *)
(* buddy.c: malloc and free): free and given blocks tile the heap.          *)
Tiled == IF Standard THEN FreeListTiled ELSE BuddyTiled

(* The list of free blocks of memoryManager.c stays ordered and coalesced.  *)
ListOrdered == Standard => FreeListOrdered

(* malloc returns NULL only if the heap has no room: free has put together  *)
(* what belongs together.                                                   *)
RefusesOnlyIfFull ==
  \A mem \in Request : IF Standard THEN FreeListFits(mem) ELSE BuddyFits(mem)

(* Either heap is the allocator Memory describes.  The default heap manages *)
(* one header more than there is memory for (header_blocks).                *)
Allocator == INSTANCE Memory WITH Extent <- HeapSize + HeaderSize
HeapAllocates == Allocator!Spec

(* The blocks programs hold do not overlap: test_mm fills each with a value *)
(* of its own and finds it there.                                           *)
BlocksApart ==
  \A c, d \in Client : c # d /\ Holding(c) /\ Holding(d) => Allocator!Disjoint(held[c], held[d])

=============================================================================
