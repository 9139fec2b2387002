----------------------------- MODULE MCKillTree -----------------------------
(* Two trees in one batch: one may be gone while the other is still killed. *)
EXTENDS KillTree

CONSTANTS k1, k2
=============================================================================
