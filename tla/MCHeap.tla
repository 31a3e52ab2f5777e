------------------------------- MODULE MCHeap -------------------------------
(* Small instances of Heap for TLC. *)
EXTENDS Heap, TLC

CONSTANTS p1, p2, p3, p4

ClientSymmetry == Permutations(Client)

=============================================================================
