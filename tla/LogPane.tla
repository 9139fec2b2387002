------------------------------- MODULE LogPane -------------------------------
(***************************************************************************)
(* What the terminal interface shows of the selected target: its status, its *)
(* labels and its log, with one logs.follow subscription for the selection   *)
(* (src/tui/data.ts, log-buffer.ts, logpane.ts and their use in app.ts).     *)
(*                                                                          *)
(* Every change of the selection starts a new view: the effects run again,   *)
(* and what the last one asked for may still be on its way.                  *)
(***************************************************************************)
EXTENDS Sidebar

CONSTANTS
    Labels,
    Chunks,             (* what a command may write: a label, and its text cut *)
                        (* at newlines into "", "plain" or "wanted" parts      *)
    Rows,               (* the height of the pane                              *)
    Retain, Slack,      (* lines that are kept, and kept before a trim         *)
    MaxViews, MaxChunks (* bounds                                              *)

ASSUME LogPaneAssumption ==
    /\ Chunks \subseteq [label : Labels, parts : Seq({"", "plain", "wanted"}) \ {<<>>}]
    /\ Chunks # {}
    /\ {Rows, Retain} \subseteq Nat \ {0} /\ {Slack, MaxViews, MaxChunks} \subseteq Nat

VARIABLES
    views,              \* the runs of the effects, the last one is the current
    asks,               \* requests for the status and the labels of a view
    status, declared,   \* the views whose status and labels are shown, or 0
    pending,            \* entries that wait for the coalescer
    buffer,             \* the lines, and the unfinished one of each label
    error,              \* the view whose failure is shown, or 0
    filter,             \* a set of labels, and whether only wanted text is shown
    scrollBack, visible,
    chunks              \* bound

viewVars == <<views, asks, status, declared, error>>
textVars == <<pending, buffer, scrollBack, visible>>
paneVars == <<viewVars, textVars, filter, chunks>>

-----------------------------------------------------------------------------
(* log-buffer.ts *)

EmptyBuffer == [lines |-> <<>>, partial |-> [l \in Labels |-> 0], total |-> 0]

Trimmed(lines) ==
    IF Len(lines) <= Retain + Slack THEN lines
    ELSE SubSeq(lines, Len(lines) - Retain + 1, Len(lines))

\* append: the text goes on with the unfinished line of its label, and what
\* follows its last newline is unfinished in turn.
Appended(b, entry) ==
    LET l == entry.chunk.label
        parts == entry.chunk.parts
        goesOn == b.partial[l] # 0
        rest == IF goesOn THEN Tail(parts) ELSE parts
        open == rest # <<>> /\ Last(rest) # ""
        kept == IF rest = <<>> \/ open THEN rest ELSE Front(rest)
        old == [i \in DOMAIN b.lines |->
                  IF goesOn /\ b.lines[i].seq = b.partial[l] /\ parts[1] = "wanted"
                  THEN [b.lines[i] EXCEPT !.wanted = TRUE] ELSE b.lines[i]]
        new == [i \in DOMAIN kept |-> [seq |-> b.total + i, label |-> l, view |-> entry.view,
                                       wanted |-> kept[i] = "wanted"]]
    IN [lines |-> Trimmed(old \o new),
        partial |-> [b.partial EXCEPT ![l] = IF rest = <<>> THEN @
                                             ELSE IF open THEN b.total + Len(kept) ELSE 0],
        total |-> b.total + Len(kept)]

Matches(line, flt) == line.label \in flt.labels /\ (flt.search => line.wanted)

Matching(lines, flt) == Only(lines, {line \in Range(lines) : Matches(line, flt)})

\* Mistake: every new line is counted, whatever the filter.
ArrivedAll(b, mark, flt) == b.total - mark

\* countSince
Arrived(b, mark, flt) == Len(Only(Matching(b.lines, flt), {l \in Range(b.lines) : l.seq > mark}))

\* project and window: Rows matching lines, back of them below the last one shown.
Project(b, flt, back) ==
    LET found == Matching(b.lines, flt)
        most == IF Len(found) > Rows THEN Len(found) - Rows ELSE 0
        clamped == IF back < most THEN back ELSE most
        end == Len(found) - clamped
        start == IF end > Rows THEN end - Rows + 1 ELSE 1
    IN /\ scrollBack' = clamped
       /\ visible' = [i \in 1..(end - start + 1) |-> found[start + i - 1].seq]

-----------------------------------------------------------------------------
(* The effects of a selection *)

View(slug) == [slug |-> slug, stream |-> IF slug = Nobody THEN "none" ELSE "asking",
               late |-> FALSE]
Current == Len(views)
InFlight == {"asking", "granted"}

\* The cleanup of the last run, then the new one: the pane is cleared, and the
\* new target's status, labels and log are asked for.
ShowSelected ==
    /\ Last(views).slug # selected /\ Current < MaxViews
    /\ LET last == Last(views)
           left == [last EXCEPT !.stream = IF @ = "held" THEN "stopped" ELSE @,
                                !.late = last.stream \in InFlight]
       IN views' = Append([views EXCEPT ![Current] = left], View(selected))
    /\ asks' = asks \cup IF selected = Nobody THEN {}
                         ELSE {"status", "labels"} \X {Current + 1}
    /\ status' = 0 /\ declared' = 0 /\ error' = 0
    /\ pending' = <<>> /\ buffer' = EmptyBuffer
    /\ scrollBack' = 0 /\ visible' = <<>>
    /\ UNCHANGED <<filter, chunks, sidebarVars>>

\* useRunStatus polls.
PollStatus ==
    /\ selected # Nobody /\ Last(views).slug = selected
    /\ <<"status", Current>> \notin asks
    /\ asks' = asks \cup {<<"status", Current>>}
    /\ UNCHANGED <<views, status, declared, error, textVars, filter, chunks, sidebarVars>>

\* An answer counts if its view is live; a failure changes nothing.
Answered(ask) ==
    /\ asks' = asks \ {ask}
    /\ status' \in IF ask[1] = "status" /\ ask[2] = Current THEN {status, Current} ELSE {status}
    /\ declared' \in IF ask[1] = "labels" /\ ask[2] = Current THEN {declared, Current}
                                                              ELSE {declared}
    /\ UNCHANGED <<views, error, textVars, filter, chunks, sidebarVars>>

Becomes(v, stream) == views' = [views EXCEPT ![v].stream = stream]

\* The answer to the subscription is read; its promise resolves after the frames
\* that were read with it.
Granted(v) ==
    /\ views[v].stream = "asking" /\ Becomes(v, "granted")
    /\ UNCHANGED <<asks, status, declared, error, textVars, filter, chunks, sidebarVars>>

\* Mistake: whoever asked for a stream keeps it.
KeptByAll(v) == TRUE

\* cancelled, seen when the subscription is there.
Kept(v) == v = Current

Subscribed(v) ==
    /\ views[v].stream = "granted"
    /\ Becomes(v, IF Kept(v) THEN "held" ELSE "stopped")
    /\ UNCHANGED <<asks, status, declared, error, textVars, filter, chunks, sidebarVars>>

\* It is refused, or ends in an error: shown whichever view it belongs to.
Failed(v) ==
    /\ views[v].stream \in InFlight \cup {"held"}
    /\ Becomes(v, "failed") /\ error' = v
    /\ UNCHANGED <<asks, status, declared, textVars, filter, chunks, sidebarVars>>

\* onData, while the client has the handler.
Data(v, chunk) ==
    /\ views[v].stream \in {"granted", "held"} /\ chunks < MaxChunks
    /\ chunks' = chunks + 1
    /\ pending' = Append(pending, [view |-> v, chunk |-> chunk])
    /\ UNCHANGED <<viewVars, buffer, scrollBack, visible, filter, sidebarVars>>

\* The coalescer's timer: a pane that is scrolled away holds its position.
Coalesce ==
    /\ pending # <<>> /\ pending' = <<>>
    /\ buffer' = FoldLeft(Appended, buffer, pending)
    /\ Project(buffer', filter,
               IF scrollBack = 0 THEN 0
               ELSE scrollBack + Arrived(buffer', buffer.total, filter))
    /\ UNCHANGED <<viewVars, filter, chunks, sidebarVars>>

-----------------------------------------------------------------------------
(* Scrolling and filters *)

\* Ctrl-u, Ctrl-d and the wheel, g and G.
ScrollTo(back) ==
    /\ Project(buffer, filter, back) /\ scrollBack' # scrollBack
    /\ UNCHANGED <<viewVars, pending, buffer, filter, chunks, sidebarVars>>

Scroll ==
    \/ \E rows \in 1..Rows : ScrollTo(scrollBack + rows)
    \/ \E rows \in 1..Rows : ScrollTo(IF scrollBack > rows THEN scrollBack - rows ELSE 0)
    \/ ScrollTo(0) \/ ScrollTo(buffer.total)

\* jumpTo, for a press in the gutter: the row stands for a fraction of the lines.
JumpTo(row) ==
    LET total == Len(Matching(buffer.lines, filter))
        above == total - Rows
    IN IF Rows <= 1 \/ total <= Rows THEN 0
       ELSE above - ((2 * row * above + Rows - 1) \div (2 * (Rows - 1)))

\* A chip, a, a search or Escape; the effect projects again.
SetFilter(flt) ==
    /\ flt # filter /\ filter' = flt
    /\ Project(buffer, flt, scrollBack)
    /\ UNCHANGED <<viewVars, pending, buffer, chunks, sidebarVars>>

\* The chips: labels of the lines that are retained.
Chips == {line.label : line \in Range(buffer.lines)}

Refilter ==
    \/ \E l \in Chips : SetFilter([filter EXCEPT !.labels = {l}])
    \/ SetFilter([filter EXCEPT !.labels = Labels])
    \/ \E search \in BOOLEAN : SetFilter([filter EXCEPT !.search = search])

-----------------------------------------------------------------------------

PaneInit ==
    /\ views = <<View(Nobody)>> /\ asks = {} /\ status = 0 /\ declared = 0 /\ error = 0
    /\ pending = <<>> /\ buffer = EmptyBuffer /\ scrollBack = 0 /\ visible = <<>>
    /\ filter = [labels |-> Labels, search |-> FALSE] /\ chunks = 0

StreamNext(texts) ==
    \/ ShowSelected \/ PollStatus \/ Coalesce
    \/ \E ask \in asks : Answered(ask)
    \/ \E v \in 1..Current :
          Granted(v) \/ Subscribed(v) \/ Failed(v) \/ \E chunk \in texts : Data(v, chunk)

ScrollNext ==
    \/ Scroll \/ Refilter
    \/ \E row \in 0..(Rows - 1) : ScrollTo(JumpTo(row))

-----------------------------------------------------------------------------

\* "A leaked follow makes the daemon stream into nothing forever": only the view
\* on the screen holds a subscription, and nothing on the screen belongs to an
\* earlier one, however answers and selections interleave.  (Two exceptions: what
\* fails, and what is read together with its grant, after the selection moved on.)
PaneFollowsSelection ==
    LET own(v) == v \in {0, Current} \/ views[v].late IN
    /\ \A v \in 1..(Current - 1) : views[v].stream # "held"
    /\ {status, declared} \subseteq {0, Current}
    /\ own(error)
    /\ \A i \in DOMAIN pending : own(pending[i].view)
    /\ \A line \in Range(buffer.lines) : own(line.view)

\* A pane that is scrolled away from the end shows the same lines after new
\* output as before, unless they were trimmed, or an older line has only now got
\* the text that is searched for.
HoldsStill ==
    [][LET olds == {line \in Range(buffer'.lines) : line.seq <= buffer.total} IN
       /\ views' = views /\ buffer' # buffer /\ scrollBack > 0
       /\ \A i \in DOMAIN visible : \E line \in olds : line.seq = visible[i]
       /\ \A line \in olds : Matches(line, filter) => line.seq \in
             {m.seq : m \in Range(Matching(buffer.lines, filter))}
       => visible' = visible]_<<paneVars, sidebarVars>>

=============================================================================
