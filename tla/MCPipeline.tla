----------------------------- MODULE MCPipeline -----------------------------
(* Small instances of Pipeline for TLC. *)
EXTENDS Pipeline, TLC

CONSTANTS j1, j2, b1, b2

JobByteSymmetry == Permutations(Job) \cup Permutations(Byte)

=============================================================================
