------------------------------ MODULE MCBoard ------------------------------
(* Board on small instances; every set of the instance is symmetric.       *)
EXTENDS Board, TLC

Symmetry ==
  Permutations(Workspaces) \cup Permutations(Projects)
    \cup Permutations(Tasks) \cup Permutations(Texts) \cup Permutations(Requests)
=============================================================================
