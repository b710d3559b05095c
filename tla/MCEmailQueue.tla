---------------------------- MODULE MCEmailQueue ----------------------------
(* EmailQueue on small instances.  Liveness is checked, so without symmetry. *)
EXTENDS EmailQueue
=============================================================================
