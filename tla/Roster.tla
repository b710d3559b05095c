------------------------------- MODULE Roster -------------------------------
(***************************************************************************)
(* What the membership of a workspace promises, whatever happens at once:  *)
(* a row appears as a plain member's, ownership is only ever handed on, by *)
(* one who has had it and to one other row, and the end of the workspace   *)
(* ends every row.  There are no requests, transactions or locks here:     *)
(* Members is shown to implement this.                                     *)
(***************************************************************************)
CONSTANT Users

VARIABLES
  phase,    \* "unborn", "live" or "deleted"
  rank,     \* role of every user, "none" outside the workspace
  trusted   \* users who have been owners

vars == <<phase, rank, trusted>>

Present == {u \in Users : rank[u] # "none"}

Init ==
  /\ phase = "unborn"
  /\ rank = [u \in Users |-> "none"]
  /\ trusted = {}

Found(u) ==
  /\ phase = "unborn"
  /\ phase' = "live"
  /\ rank' = [rank EXCEPT ![u] = "owner"]
  /\ trusted' = trusted \cup {u}

Join(u) ==
  /\ phase = "live" /\ u \notin Present
  /\ rank' = [rank EXCEPT ![u] = "member"]
  /\ UNCHANGED <<phase, trusted>>

Leave(u) ==
  /\ u \in Present
  /\ rank' = [rank EXCEPT ![u] = "none"]
  /\ UNCHANGED <<phase, trusted>>

Assign(u, v) ==
  /\ u \in Present /\ v \in {"admin", "member"}
  /\ rank' = [rank EXCEPT ![u] = v]
  /\ UNCHANGED <<phase, trusted>>

\* u hands the workspace on: of those still present one other row becomes the
\* owner's, and u's own becomes an admin's.  Either of the two may be missing.
HandOver(u) ==
  /\ u \in trusted
  /\ \E up \in SUBSET (Present \ {u}), down \in SUBSET (Present \cap {u}) :
       /\ \A v, w \in up : v = w
       /\ rank' = [v \in Users |-> CASE v \in up -> "owner"
                                     [] v \in down -> "admin"
                                     [] OTHER -> rank[v]]
       /\ trusted' = trusted \cup up
  /\ UNCHANGED phase

Close ==
  /\ phase = "live"
  /\ phase' = "deleted"
  /\ rank' = [u \in Users |-> "none"]
  /\ UNCHANGED trusted

Next ==
  \/ \E u \in Users : Found(u) \/ Join(u) \/ Leave(u) \/ HandOver(u)
  \/ \E u \in Users, v \in {"admin", "member"} : Assign(u, v)
  \/ Close

Spec == Init /\ [][Next]_vars
=============================================================================
