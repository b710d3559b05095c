----------------------------- MODULE MCMembers -----------------------------
(* Members on small instances; users and requests are only compared for    *)
(* equality, so permuting them is a symmetry.                              *)
EXTENDS Members, TLC

Symmetry == Permutations(Users) \cup Permutations(Requests)
=============================================================================
