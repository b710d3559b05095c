--------------------------- MODULE MCInvitations ---------------------------
(* Invitations on small instances; every set of the instance is symmetric. *)
EXTENDS Invitations, TLC

Symmetry ==
  Permutations(Ids) \cup Permutations(Users) \cup Permutations(Workspaces)
    \cup Permutations(Emails) \cup Permutations(Requests)
=============================================================================
