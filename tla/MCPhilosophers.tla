--------------------------- MODULE MCPhilosophers ---------------------------
(* Small instances of Philosophers for TLC. *)
EXTENDS Philosophers, TLC
=============================================================================
