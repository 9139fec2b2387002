---------------------------- MODULE MCConnection ----------------------------
(* Ids are numbers, so nothing but the bounds is to be given. *)
EXTENDS Connection
=============================================================================
