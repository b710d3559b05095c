-------------------------- MODULE MCRefreshTokens --------------------------
(* RefreshTokens on small instances; ids, families and requests are only   *)
(* compared for equality, so permuting them is a symmetry.                 *)
EXTENDS RefreshTokens, TLC

Symmetry ==
  Permutations(Ids) \cup Permutations(Families) \cup Permutations(Requests)
=============================================================================
