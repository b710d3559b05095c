------------------------------ MODULE Sessions ------------------------------
(***************************************************************************)
(* What README.md:100 promises of a login session: it is a chain of tokens *)
(* of which one at a time is worth something, the next is made only after  *)
(* the one before was spent, to present a spent one again revokes them     *)
(* all, a logout ends them all, and neither is ever taken back.  There are *)
(* no requests, queries or failures here.  Of a session whose requests     *)
(* overlap nothing is promised: it is given up.                            *)
(***************************************************************************)
CONSTANTS Families, Tokens

VARIABLES
  standing,  \* of a session: "none", "live", "revoked", "ended" or "contested"
  current,   \* its tokens that are worth something: one at most
  made       \* all its tokens so far, unless it was given up

vars == <<standing, current, made>>

New == {i \in Tokens : \A f \in Families : i \notin made[f]}

Init ==
  /\ standing = [f \in Families |-> "none"]
  /\ current = [f \in Families |-> {}]
  /\ made = [f \in Families |-> {}]

\* The next token of f, or the first.
Make(f) ==
  /\ current[f] = {}
  /\ \E i \in New : /\ current' = [current EXCEPT ![f] = {i}]
                    /\ made' = [made EXCEPT ![f] = @ \cup {i}]

Open(f) ==
  /\ standing[f] = "none"
  /\ standing' = [standing EXCEPT ![f] = "live"]
  /\ Make(f)

Spend(f) ==
  /\ standing[f] = "live" /\ current[f] # {}
  /\ current' = [current EXCEPT ![f] = {}]
  /\ UNCHANGED <<standing, made>>

Renew(f) ==
  /\ standing[f] = "live"
  /\ Make(f)
  /\ UNCHANGED standing

\* Its tokens are worth nothing from now on.
Close(f, label) ==
  /\ standing' = [standing EXCEPT ![f] = label]
  /\ current' = [current EXCEPT ![f] = {}]

\* Of a session none of whose tokens was spent, none is presented again.
Revoke(f) ==
  /\ standing[f] = "live" /\ made[f] # current[f]
  /\ Close(f, "revoked")
  /\ UNCHANGED made

End(f) ==
  /\ standing[f] \in {"live", "revoked"}
  /\ Close(f, "ended")
  /\ UNCHANGED made

\* Two requests at one time: the session is given up.
Contest(f) ==
  /\ standing[f] \in {"live", "revoked", "ended"}
  /\ Close(f, "contested")
  /\ made' = [made EXCEPT ![f] = {}]

\* Every step changes what one session is worth.
Next ==
  \E f \in Families :
    /\ <<standing[f], current[f]>>' # <<standing[f], current[f]>>
    /\ Open(f) \/ Spend(f) \/ Renew(f) \/ Revoke(f) \/ End(f) \/ Contest(f)

Spec == Init /\ [][Next]_vars
=============================================================================
