---------------------------- MODULE MCLogFollow ----------------------------
(* Runs enough for the one that is read to be followed by another and pruned. *)
EXTENDS LogFollow
=============================================================================
