--------------------------- MODULE HeapInterface ---------------------------
(***************************************************************************)
(* What the two heaps of Ques-OS have in common (memoryManager.h).  Each   *)
(* call of malloc or free is one step: system calls are not interrupted.   *)
(***************************************************************************)
EXTENDS Integers, Sequences, FiniteSets

CONSTANTS
  Client,      \* the pointers programs keep, one block each
  Request,     \* the sizes they ask for, in bytes
  HeapSize     \* heap_size, in bytes

ASSUME RequestAssumption ==
  /\ Client # {}
  /\ Request \subseteq Nat \ {0}
  /\ HeapSize \in Nat \ {0}

VARIABLE held  \* the block of each client: first byte, from the start of the
               \* heap, and size asked for

Nothing == [at |-> 0, size |-> 0]
Holding(c) == held[c] # Nothing

=============================================================================
