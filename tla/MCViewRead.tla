----------------------------- MODULE MCViewRead -----------------------------
(* A small instance of ViewRead for TLC. *)
EXTENDS ViewRead, TLC

Interchangeable == Permutations(Entities) \cup Permutations(Inodes)

=============================================================================
