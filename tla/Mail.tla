-------------------------------- MODULE Mail --------------------------------
(***************************************************************************)
(* What invitations may take for granted of their emails: one that was     *)
(* asked for may arrive, any time later or never, and none arrives that    *)
(* was not asked for.  EmailQueue is shown to keep it.                     *)
(***************************************************************************)
CONSTANT Mails

VARIABLES asked,   \* emails handed to the queue
          arrived  \* emails somebody has received

vars == <<asked, arrived>>

Init == asked = {} /\ arrived = {}

Ask(m) ==
  /\ m \notin asked
  /\ asked' = asked \cup {m}
  /\ UNCHANGED arrived

Arrive(m) ==
  /\ m \in asked \ arrived
  /\ arrived' = arrived \cup {m}
  /\ UNCHANGED asked

Next == \E m \in Mails : Ask(m) \/ Arrive(m)

Spec == Init /\ [][Next]_vars
=============================================================================
