-------------------------- MODULE MCProcessManager --------------------------
(* Small instances of ProcessManager for TLC. *)
EXTENDS ProcessManager, TLC

CONSTANTS idle, init, shell, a, b, c, m

(* The addresses programs can be started at are interchangeable. *)
SlotSymmetry == Permutations(Slot \ {idle, init, shell})

=============================================================================
