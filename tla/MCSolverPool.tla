---------------------------- MODULE MCSolverPool ----------------------------
(* Two threads a generation, of which the second may hang in an inline      *)
(* solve, and two generations.                                              *)
EXTENDS SolverPool
=============================================================================
