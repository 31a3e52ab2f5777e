------------------------------- MODULE Memory -------------------------------
(***************************************************************************)
(* What malloc and free promise: a caller gets bytes of the heap that      *)
(* nobody else holds, and holds them until it gives them back.             *)
(***************************************************************************)
EXTENDS Naturals

CONSTANTS Client,    \* the pointers programs keep, one block each
          Extent     \* the bytes the heap manages

VARIABLE held        \* the block of each client: first byte and size

Nothing == [at |-> 0, size |-> 0]
Block == {b \in [at : Nat, size : Nat] : b.size > 0 /\ b.at + b.size <= Extent}

Disjoint(b, d) == b.at + b.size <= d.at \/ d.at + d.size <= b.at

Init == held = [c \in Client |-> Nothing]

Allocate(c) ==
  /\ held[c] = Nothing
  /\ held'[c] \in Block
  /\ \A d \in Client \ {c} : held'[d] = held[d]
  /\ \A d \in Client \ {c} : held[d] # Nothing => Disjoint(held'[c], held[d])
  /\ DOMAIN held' = Client

Release(c) ==
  /\ held[c] # Nothing
  /\ held' = [held EXCEPT ![c] = Nothing]

Next == \E c \in Client : Allocate(c) \/ Release(c)

Spec == Init /\ [][Next]_held

=============================================================================
