------------------------------ MODULE MCLifecycle ------------------------------
(* Lifecycle with small pools: a manual record and one that also carries code, *)
(* and an unsupported verdict with and without a rewrite.                      *)
EXTENDS Lifecycle, TLC

MCCaptures == {{Manual}, {"code"}}
MCFindings ==
  {[status |-> "supported", contrary |-> FALSE, rewrite |-> FALSE],
   [status |-> "contradicted", contrary |-> TRUE, rewrite |-> FALSE],
   [status |-> "unsupported", contrary |-> FALSE, rewrite |-> FALSE],
   [status |-> "unsupported", contrary |-> FALSE, rewrite |-> TRUE]}
Symmetry ==
  UNION {Permutations(p) : p \in {Logs, Facts, Snapshots, Branches}}
===============================================================================
