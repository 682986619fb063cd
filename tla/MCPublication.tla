---------------------------- MODULE MCPublication ----------------------------
(* A small instance of Publication for TLC. *)
EXTENDS Publication, TLC

(* Which free inode a new directory gets, and which fresh identifier a new *)
(* snapshot gets, makes no difference.                                     *)
Interchangeable == Permutations(Entities) \cup Permutations(Inodes)

=============================================================================
