----------------------------- MODULE MCStageRun -----------------------------
(* A small instance of StageRun for TLC. *)
EXTENDS StageRun, TLC

Interchangeable == Permutations(Commands)

=============================================================================
