------------------------------- MODULE Terminal ------------------------------
(***************************************************************************)
(* The terminal interface (src/tui/app.ts): the list of targets, the pane of *)
(* the selected one and the palette, which share the list and the selection. *)
(*                                                                          *)
(* A behaviour concentrates on one of them, its focus, so that their steps   *)
(* need not be interleaved with all the others': they meet only in the list  *)
(* and the selection, whose changes every focus but "scroll" has.            *)
(***************************************************************************)
EXTENDS LogPane, Palette

VARIABLE focus

vars == <<focus, sidebarVars, paneVars, paletteVars>>

Init ==
    /\ focus \in {"sidebar", "selection", "scroll", "palette"}
    /\ SidebarInit /\ PaneInit /\ PaletteInit

\* j and k, while no other mode has the keys.
MoveKeys == mode = "browse" /\ (MoveSelection(1) \/ MoveSelection(-1))

Next ==
    /\ UNCHANGED focus
    /\ \/ focus = "sidebar" /\ (ListNext \/ ViewNext) /\ UNCHANGED <<paneVars, paletteVars>>
       \/ focus = "selection" /\ (ListNext \/ MoveKeys) /\ UNCHANGED <<paneVars, paletteVars>>
       \/ focus = "selection" /\ StreamNext({CHOOSE t \in Chunks : TRUE}) /\ chunks' <= 1 /\ UNCHANGED paletteVars
       \/ focus = "scroll" /\ Refresh /\ UNCHANGED <<paneVars, paletteVars>>
       \/ focus = "scroll" /\ FixSelection /\ UNCHANGED <<paneVars, paletteVars>>
       \/ focus = "scroll" /\ (StreamNext(Chunks) \/ ScrollNext) /\ UNCHANGED paletteVars
       \/ focus = "palette" /\ ListNext /\ UNCHANGED <<paneVars, paletteVars>>
       \/ focus = "palette" /\ PaletteNext /\ UNCHANGED paneVars

Spec == Init /\ [][Next]_vars

=============================================================================
