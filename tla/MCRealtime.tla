----------------------------- MODULE MCRealtime -----------------------------
(* Realtime on small instances; every set of the instance is symmetric.    *)
EXTENDS Realtime, TLC

Symmetry ==
  Permutations(Users) \cup Permutations(Workspaces) \cup Permutations(Sockets)
    \cup Permutations(Requests)
=============================================================================
