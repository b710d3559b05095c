-------------------------- MODULE MCConnectionPool --------------------------
(* ConnectionPool on small instances.                                      *)
EXTENDS ConnectionPool, TLC

\* Requests that accept an invitation differ from the others.
Symmetry ==
  Permutations(Connections) \cup Permutations(Accepting)
    \cup Permutations(Requests \ Accepting)
=============================================================================
