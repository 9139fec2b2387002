------------------------------- MODULE Sidebar -------------------------------
(***************************************************************************)
(* The terminal interface's list of targets, and the view state it keeps in *)
(* the daemon: src/tui/sidebar.ts, order.ts, and the parts of app.ts and    *)
(* data.ts about them.                                                      *)
(*                                                                          *)
(* A step is one mouse report, key, timer or answer, with the renderings    *)
(* and effects that follow at once.  Requests reach the daemon in the order *)
(* they were sent in.                                                       *)
(***************************************************************************)
EXTENDS Naturals, FiniteSets, SequencesExt

CONSTANTS
    Slugs, RepoPath,    (* targets, and the repository of each                *)
    Listings,           (* what target.list may answer: sequences of targets  *)
    Widths,             (* where the edge of the sidebar can be dragged to    *)
    Sessions,           (* view states that earlier sessions may have left    *)
    MaxGestures, MaxListings    (* bounds: changes by the user, of the list   *)

Repos == {RepoPath[s] : s \in Slugs}
Nothing == [kind |-> "nothing"]
Nobody == "nobody"

\* A view state orders repositories and the targets of some, each of them once.
OrdersOnce(ui) ==
    /\ "repoOrder" \in DOMAIN ui =>
          ui.repoOrder \in Seq(Repos) /\ IsInjective(ui.repoOrder)
    /\ "targetOrder" \in DOMAIN ui =>
          \A r \in DOMAIN ui.targetOrder :
             ui.targetOrder[r] \in Seq(Slugs) /\ IsInjective(ui.targetOrder[r])

ASSUME SidebarAssumption ==
    /\ Listings \subseteq Seq(Slugs) /\ \A l \in Listings : IsInjective(l)
    /\ \A ui \in Sessions : OrdersOnce(ui)
    /\ \E l \in Listings : \A other \in Listings : Len(other) <= Len(l)
    /\ Nobody \notin Slugs
    /\ MaxGestures \in Nat /\ MaxListings \in Nat

VARIABLES
    listed, targets,    \* the daemon's list, and the last answer about it
    selected,           \* a target, or Nobody
    view,               \* width, folds and orders as they are on the screen
    hydrated,           \* ui.get has been answered, and the screen shows it
    unsent,             \* changes that wait for the end of the debounce
    toDaemon, answer,   \* requests on their way; the answer to ui.get
    stored,             \* ui in the daemon's state file
    armed, grabbed,     \* what the pointer went down on: a click, a handle
    dragging,           \* the pointer has moved since: "no", "row", "edge"
    gestures, listings, \* bounds
    early               \* history: what was changed before the screen was hydrated

listVars == <<listed, targets, listings>>
uiVars == <<view, hydrated, unsent, toDaemon, answer, stored, gestures, early>>
mouseVars == <<armed, grabbed, dragging>>
sidebarVars == <<listVars, selected, uiVars, mouseVars>>

-----------------------------------------------------------------------------
(* order.ts *)

\* The members of a list that are in a set.
Only(list, set) ==
    LET first[n \in 0..Len(list)] ==
            IF n = 0 THEN <<>>
            ELSE IF list[n] \in set THEN Append(first[n - 1], list[n]) ELSE first[n - 1]
    IN first[Len(list)]

\* sortByOrder: what is in the order comes first, as it is there.
SortByOrder(items, order) ==
    Only(order, Range(items)) \o Only(items, Range(items) \ Range(order))

IndexOf(list, x) == CHOOSE i \in DOMAIN list : list[i] = x

\* moveInto: from takes the place of to, the others close the gap.
MoveInto(list, from, to) ==
    IF from = to \/ {from, to} \ Range(list) # {} THEN list
    ELSE InsertAt(RemoveAt(list, IndexOf(list, from)), IndexOf(list, to), from)

-----------------------------------------------------------------------------
(* sidebar.ts: groups and rows *)

Seen(list) == {RepoPath[s] : s \in Range(list)}

\* The repositories of a list, as first seen.
AsSeen(list) ==
    LET repos == [i \in DOMAIN list |-> RepoPath[list[i]]]
        first == {i \in DOMAIN list : \A j \in 1..(i - 1) : repos[j] # repos[i]}
        at == Only([i \in DOMAIN list |-> i], first)
    IN [k \in DOMAIN at |-> repos[at[k]]]

\* groupTargets: the repositories in the user's order, others as first seen.
GroupRepos == SortByOrder(AsSeen(targets), view.repoOrder)

\* The targets of one of them.
Group(r) ==
    LET own == Only(targets, {s \in Slugs : RepoPath[s] = r})
    IN IF r \in DOMAIN view.targetOrder THEN SortByOrder(own, view.targetOrder[r])
                                         ELSE own

\* visibleSlugs
VisibleSlugs ==
    LET open == Only(GroupRepos, Seen(targets) \ view.collapsedRepos)
    IN FlattenSeq([i \in DOMAIN open |-> Group(open[i])])

-----------------------------------------------------------------------------
(* The list and the selection *)

\* A target is added or removed, by whomever.
ListChanges ==
    /\ listings < MaxListings /\ listings' = listings + 1
    /\ listed' \in Listings \ {listed}
    /\ UNCHANGED <<targets, selected, uiVars, mouseVars>>

\* The answer to a poll.
Refresh ==
    /\ targets # listed /\ targets' = listed
    /\ UNCHANGED <<listed, listings, selected, uiVars, mouseVars>>

\* The effect that keeps the selection on a row.
FixSelection ==
    LET rows == VisibleSlugs IN
    /\ selected \notin Range(rows) /\ (selected # Nobody \/ rows # <<>>)
    /\ selected' = IF rows = <<>> THEN Nobody ELSE Head(rows)
    /\ UNCHANGED <<listVars, uiVars, mouseVars>>

MoveSelection(delta) ==
    LET rows == VisibleSlugs
        at == IF selected \in Range(rows) THEN IndexOf(rows, selected) ELSE 0
        to == at + delta
    IN /\ rows # <<>>
       /\ selected' = rows[IF to < 1 THEN 1 ELSE IF to > Len(rows) THEN Len(rows) ELSE to]
       /\ UNCHANGED <<listVars, uiVars, mouseVars>>

-----------------------------------------------------------------------------
(* data.ts useUiState, and what answers it: uiGet, uiSet and mergeUi *)

\* { ...old, ...new }
Over(new, old) ==
    [f \in DOMAIN new \cup DOMAIN old |-> IF f \in DOMAIN new THEN new[f] ELSE old[f]]

\* Mistake: a change takes the place of those that were not sent yet.
MergedLastOnly(changes) == changes

\* Changes are merged field by field.
Merged(changes) == Over(changes, unsent)

\* patch, and the timer that it sets.
Patch(changes) ==
    /\ gestures < MaxGestures /\ gestures' = gestures + 1
    /\ view' = Over(changes, view)
    /\ unsent' = Merged(changes)
    /\ early' = IF hydrated THEN early \ DOMAIN changes ELSE early \cup DOMAIN changes
    /\ UNCHANGED <<hydrated, toDaemon, answer, stored>>

\* flush
FlushUi ==
    /\ unsent # <<>> /\ unsent' = <<>>
    /\ toDaemon' = Append(toDaemon, [ask |-> "ui.set", ui |-> unsent])
    /\ UNCHANGED <<listVars, selected, view, hydrated, answer, stored, gestures, early, mouseVars>>

\* The daemon's turn.
UiServed ==
    /\ toDaemon # <<>> /\ toDaemon' = Tail(toDaemon)
    /\ \/ /\ Head(toDaemon).ask = "ui.get"
          /\ answer' = <<stored>> /\ UNCHANGED stored
       \/ /\ Head(toDaemon).ask = "ui.set"
          /\ stored' = Over(Head(toDaemon).ui, stored) /\ UNCHANGED answer
    /\ UNCHANGED <<listVars, selected, view, hydrated, unsent, gestures, early, mouseVars>>

\* The one-shot effect: the stored fields, and both orders if there is one.
Seeded(ui) ==
    LET orders == IF {"repoOrder", "targetOrder"} \cap DOMAIN ui = {} THEN <<>>
                  ELSE [repoOrder |-> <<>>, targetOrder |-> <<>>]
    IN Over(ui, Over(orders, view))

Hydrate ==
    /\ ~hydrated /\ answer # <<>>
    /\ hydrated' = TRUE /\ answer' = <<>>
    /\ view' = Seeded(answer[1])
    /\ UNCHANGED <<listVars, selected, unsent, toDaemon, stored, gestures, early, mouseVars>>

-----------------------------------------------------------------------------
(* Keys and the mouse.  A press ends what an earlier one has left behind.     *)

ToggleGroup(r) ==
    Patch([collapsedRepos |-> IF r \in view.collapsedRepos THEN view.collapsedRepos \ {r}
                              ELSE view.collapsedRepos \cup {r}])

\* Enter
FoldSelected ==
    /\ selected \in Range(targets)
    /\ ToggleGroup(RepoPath[selected])
    /\ UNCHANGED <<listVars, selected, mouseVars>>

Repo(r) == [kind |-> "repo", key |-> r]
Target(s) == [kind |-> "target", key |-> s]
Handles == {Repo(r) : r \in Seen(targets)} \cup {Target(s) : s \in Range(VisibleSlugs)}

\* onPress and onGrab of a header; onSelect and onGrab of a row, whose dot is armed too.
Press(handle) ==
    /\ grabbed = Nothing /\ dragging = "no" /\ gestures < MaxGestures
    /\ grabbed' = handle
    /\ \/ handle.kind = "repo" /\ armed' = handle /\ UNCHANGED selected
       \/ handle.kind = "target" /\ armed' \in {armed, handle} /\ selected' = handle.key
    /\ UNCHANGED <<listVars, uiVars, dragging>>

\* onMouseDrag of the root: no click any more.
Drag ==
    /\ grabbed # Nothing /\ dragging = "no"
    /\ dragging' = "row" /\ armed' = Nothing
    /\ UNCHANGED <<listVars, selected, uiVars, grabbed>>

Released == grabbed' = Nothing /\ dragging' = "no"

\* onRelease: a click if nothing was dragged and it is what was armed.  (A click
\* on a target's dot starts or stops it: Registry.)
Release(handle) ==
    /\ grabbed # Nothing /\ dragging = "no" /\ Released /\ armed' = Nothing
    /\ IF armed = handle /\ handle.kind = "repo" THEN ToggleGroup(handle.key)
                                                ELSE UNCHANGED uiVars
    /\ UNCHANGED <<listVars, selected>>

\* repoOf: the repository of something that may be gone from the list.
RepoOfHandle(handle) ==
    IF handle.kind = "repo" THEN {handle.key}
    ELSE {RepoPath[s] : s \in Range(targets) \cap {handle.key}}

\* reorder, over where the groups are when the pointer is released.
Drop(to) ==
    /\ dragging = "row" /\ Released /\ UNCHANGED armed
    /\ IF grabbed.kind = "repo"
       THEN \E r \in RepoOfHandle(to) : Patch([repoOrder |-> MoveInto(GroupRepos, grabbed.key, r)])
       ELSE \E r \in RepoOfHandle(to) :
              IF RepoOfHandle(grabbed) # {r} THEN UNCHANGED uiVars
              ELSE LET anchor == IF to.kind = "repo" THEN Head(Group(r)) ELSE to.key
                       own == MoveInto(Group(r), grabbed.key, anchor)
                   IN Patch([targetOrder |-> Over([q \in {r} |-> own], view.targetOrder)])
    /\ UNCHANGED <<listVars, selected>>

\* Elsewhere nothing hears the release, and nothing is dropped.
DropNowhere ==
    /\ grabbed # Nothing /\ Released /\ UNCHANGED armed
    /\ UNCHANGED <<listVars, selected, uiVars>>

\* The edge was pressed, and is dragged: applyWidth.
DragEdge(w) ==
    /\ grabbed = Nothing /\ gestures < MaxGestures
    /\ dragging' = "edge"
    /\ view' = [view EXCEPT !.sidebarWidth = w] /\ view' # view
    /\ UNCHANGED <<listVars, selected, hydrated, unsent, toDaemon, answer, stored, gestures,
                   early, armed, grabbed>>

\* onMouseDragEnd
DropEdge ==
    /\ dragging = "edge" /\ Released /\ UNCHANGED armed
    /\ Patch([sidebarWidth |-> view.sidebarWidth])
    /\ UNCHANGED <<listVars, selected>>

-----------------------------------------------------------------------------

Default == [sidebarWidth |-> 0, collapsedRepos |-> {}, repoOrder |-> <<>>, targetOrder |-> <<>>]

SidebarInit ==
    /\ listed = (CHOOSE l \in Listings : \A other \in Listings : Len(other) <= Len(l))
    /\ targets = <<>> /\ selected = Nobody
    /\ view = Default /\ hydrated = FALSE /\ unsent = <<>>
    /\ toDaemon = <<[ask |-> "ui.get"]>> /\ answer = <<>> /\ stored \in Sessions
    /\ armed = Nothing /\ grabbed = Nothing /\ dragging = "no"
    /\ gestures = 0 /\ listings = 0 /\ early = {}

ListNext == ListChanges \/ Refresh \/ FixSelection

ViewNext ==
    \/ FlushUi \/ UiServed \/ Hydrate \/ FoldSelected
    \/ \E h \in Handles : Press(h) \/ Release(h) \/ Drop(h)
    \/ Drag \/ DropNowhere \/ DropEdge
    \/ \E w \in Widths : DragEdge(w)

-----------------------------------------------------------------------------

\* What the user sees is what the next session will see: once nothing is unsent
\* or on its way, the daemon has stored every field as it is on the screen, in
\* whatever order changes, timers, refreshes and the first answer came; and every
\* target has one row in an open group.  (Not so a field that was changed before
\* the first answer: the answer takes the change off the screen.)
SeenIsStored ==
    /\ hydrated /\ unsent = <<>> /\ toDaemon = <<>> /\ dragging # "edge" =>
          \A f \in DOMAIN view \ early :
              view[f] = IF f \in DOMAIN stored THEN stored[f] ELSE Default[f]
    /\ LET rows == VisibleSlugs IN
       \A s \in Range(targets) :
          Cardinality({i \in DOMAIN rows : rows[i] = s})
              = IF RepoPath[s] \in view.collapsedRepos THEN 0 ELSE 1

=============================================================================
