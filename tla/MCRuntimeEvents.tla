--------------------------- MODULE MCRuntimeEvents ---------------------------
(* Connections that are interchangeable. *)
EXTENDS RuntimeEvents, TLC

CONSTANTS c1, c2

Interchangeable == Permutations(Connections)
=============================================================================
