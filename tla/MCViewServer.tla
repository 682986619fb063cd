----------------------------- MODULE MCViewServer -----------------------------
(* ViewServer for TLC. *)
EXTENDS ViewServer, TLC

Interchangeable == Permutations(Conns)

===============================================================================
