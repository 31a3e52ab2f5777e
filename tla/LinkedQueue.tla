---------------------------- MODULE LinkedQueue ----------------------------
(***************************************************************************)
(* The generic queue of the kernel (lib/queue.c): a list of nodes, with    *)
(* its first and last node and its size kept beside it.  mem is the memory *)
(* the nodes of all queues lie in, a function on the addresses in use.     *)
(* Which free address malloc returns makes no difference here: the lowest. *)
(***************************************************************************)
EXTENDS Integers, Sequences, FiniteSets, FiniteSetsExt

CONSTANT Node         \* addresses, numbers
ASSUME NodeAssumption == Node \subseteq Nat /\ IsFiniteSet(Node)

NULL == -1

(* initQueue *)
EmptyQueue == [first |-> NULL, last |-> NULL, size |-> 0]

(* The links from node n on, one after the other.                          *)
Links(mem, n) ==
  LET nth[k \in 0..Cardinality(DOMAIN mem)] ==
        IF k = 0 THEN n
        ELSE IF nth[k - 1] \in DOMAIN mem THEN mem[nth[k - 1]].next ELSE NULL
  IN nth

(* The nodes an iterator passes from node n on: hasNext and next follow the *)
(* links until NULL, whatever the size of the queue says.                   *)
NodesFrom(mem, n) ==
  LET links == Links(mem, n)
      ends == {k \in DOMAIN links : links[k] \notin DOMAIN mem}
      passed == IF ends = {} THEN Cardinality(DOMAIN mem) + 1 ELSE Min(ends)
  IN [k \in 1..passed |-> links[k - 1]]

(* toBegin and next until the end. *)
Contents(mem, q) ==
  LET nodes == NodesFrom(mem, q.first)
  IN [k \in DOMAIN nodes |-> mem[nodes[k]].value]

(* find, when malloc has memory for the iterator: the first value that      *)
(* meets the condition, that is, one of wanted, or NULL.                    *)
FindFirst(mem, q, wanted) ==
  LET values == Contents(mem, q)
      found == {k \in DOMAIN values : values[k] \in wanted}
  IN IF found = {} THEN NULL ELSE values[Min(found)]

(* What find may answer: NULL too, if that malloc may fail, for hasNext is  *)
(* false of an iterator that is NULL.                                       *)
Answers(first, mayFail) == IF mayFail THEN {first, NULL} ELSE {first}

Room(mem) == Node \ DOMAIN mem # {}
Allocate(mem) == Min(Node \ DOMAIN mem)
With(mem, n, value) ==
  [a \in DOMAIN mem \cup {n} |-> IF a = n THEN [value |-> value, next |-> NULL] ELSE mem[a]]
Without(mem, n) == [a \in DOMAIN mem \ {n} |-> mem[a]]

(* enqueue, when malloc has memory for the node: the memory and the queue   *)
(* after it.                                                                *)
Enqueue(mem, q, value) ==
  LET n == Allocate(mem)
  IN IF q.size = 0
     THEN [mem |-> With(mem, n, value), q |-> [first |-> n, last |-> n, size |-> 1]]
     ELSE [mem |-> With([mem EXCEPT ![q.last].next = n], n, value),
           q |-> [q EXCEPT !.last = n, !.size = @ + 1]]

(* dequeue of a queue that is not empty.  last keeps the address of a node  *)
(* that has been freed when the queue becomes empty.                        *)
Dequeue(mem, q) ==
  [mem |-> Without(mem, q.first),
   q |-> [q EXCEPT !.first = mem[q.first].next, !.size = @ - 1],
   value |-> mem[q.first].value]

BadTakeElement(mem, q, v) ==
  LET nodes == NodesFrom(mem, q.first)
      k == Min({i \in DOMAIN nodes : mem[nodes[i]].value = v})
      n == nodes[k]
      after == mem[n].next
  IN [mem |-> Without(IF k = 1 THEN mem ELSE [mem EXCEPT ![nodes[k - 1]].next = after], n),
      q |-> [q EXCEPT !.first = IF k = 1 THEN after ELSE @, !.size = @ - 1]]

(* takeElement of an element v that is in the queue: the first node that    *)
(* holds it is unlinked.                                                    *)
TakeElement(mem, q, v) ==
  LET nodes == NodesFrom(mem, q.first)
      k == Min({i \in DOMAIN nodes : mem[nodes[i]].value = v})
      n == nodes[k]
      after == mem[n].next
      before == IF k = 1 THEN NULL ELSE nodes[k - 1]
  IN [mem |-> Without(IF k = 1 THEN mem ELSE [mem EXCEPT ![before].next = after], n),
      q |-> [first |-> IF k = 1 THEN after ELSE q.first,
             last |-> IF after = NULL THEN before ELSE q.last,
             size |-> q.size - 1]]

(* freeQueue: the nodes that dequeue returns until it returns NULL.         *)
FreeQueue(mem, q) ==
  LET nodes == NodesFrom(mem, q.first)
  IN [a \in DOMAIN mem \ {nodes[k] : k \in 1..Min({q.size, Len(nodes)})} |-> mem[a]]

(* A queue is in order when its links, its last node and its size agree.    *)
WellFormed(mem, q) ==
  LET nodes == NodesFrom(mem, q.first)
  IN /\ Len(nodes) = q.size
     /\ q.size > 0 => q.last = nodes[q.size]
=============================================================================
