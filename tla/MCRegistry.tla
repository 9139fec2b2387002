----------------------------- MODULE MCRegistry -----------------------------
(* Two targets: the fewest that a shutdown can find in different states. *)
EXTENDS Registry

CONSTANTS s1, s2
=============================================================================
