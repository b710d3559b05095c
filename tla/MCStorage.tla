----------------------------- MODULE MCStorage -----------------------------
(* Storage on small instances; tasks, files, requests and the objects that *)
(* are described are only compared for equality.                           *)
EXTENDS Storage, TLC

Symmetry == Permutations(Tasks) \cup Permutations(Files)
              \cup Permutations(Requests) \cup Permutations(Described)
=============================================================================
