---------------------------- MODULE MCAutospawn ----------------------------
(* Two clients, the fewest that can race for the lock. *)
EXTENDS Autospawn

CONSTANTS c1, c2
=============================================================================
