------------------------------ MODULE LogFollow ------------------------------
(***************************************************************************)
(* The logs of one target and one reader of them: src/logs/store.ts and     *)
(* src/logs/query.ts.                                                       *)
(*                                                                          *)
(* An entry is <<run, seq>>: the seq-th append to that run.  A step is one  *)
(* turn of the event loop, or the stream or the reader doing I/O beside it. *)
(***************************************************************************)
EXTENDS Naturals, Sequences, SequencesExt

CONSTANTS
    MaxRuns,        (* bound: runs of the target                             *)
    MaxEntries,     (* bound: appends per run                                *)
    Kept,           (* RUNS_KEPT_PER_TARGET                                  *)
    Tails           (* the tails a reader may ask for, All among them        *)

All == MaxRuns * MaxEntries

ASSUME LogFollowAssumption ==
    /\ MaxRuns \in Nat /\ {MaxEntries, Kept} \subseteq Nat \ {0}
    /\ All \in Tails /\ Tails \subseteq Nat

VARIABLES
    runs,       \* what createRun closes over, see NewRun, oldest run first
    open,       \* openRuns: the run of the target's handle, 0 for none
    openIds,    \* openRunIds
    reader,     \* "idle", then a "follow" or a "query" (see phase)
    phase,      \* "flush", "read", "drain", "live" (or answered), "stopped"
    source,     \* the run whose file is read
    cut,        \* the sequence number at which live entries take over
    need,       \* lines of that file that flush() waits for
    tail,       \* q.tail
    backlog,    \* what was read
    buffered,   \* live events that arrived during the replay
    out         \* what onEntry was called with, or the answer

storeVars == <<runs, open, openIds>>
askedVars == <<reader, source, cut, need, tail>>
vars == <<storeVars, askedVars, phase, backlog, buffered, out>>

Infinity == All + 1

\* pending, queued: lines not given to the stream yet, and not written by it
\* yet.  lines: the file.  held: stragglers.  last: appends when it was closed.
NewRun(failed) ==
    [count |-> 0, pending |-> <<>>, queued |-> <<>>, lines |-> <<>>, held |-> <<>>,
     closed |-> FALSE, ended |-> FALSE, failed |-> failed, there |-> TRUE, last |-> 0]

Latest == Len(runs)

-----------------------------------------------------------------------------
(* store.ts *)

\* writePending
Flushed(run) == [run EXCEPT !.queued = @ \o run.pending, !.pending = <<>>]

\* finishRun up to its await.
Closed(run) == [Flushed(run) EXCEPT !.closed = TRUE, !.last = run.count]

Appended(run, n) ==
    CASE ~run.closed              -> [run EXCEPT !.count = @ + 1, !.pending = Append(@, n)]
      [] run.closed /\ ~run.ended -> [run EXCEPT !.count = @ + 1, !.held = Append(@, n)]
      [] run.ended                -> [run EXCEPT !.count = @ + 1, !.lines = Append(@, n)]

\* pruneRuns, after a run was added: the newest Kept stay, and so do open ones.
Pruned(rs, ids) ==
    [r \in 1..Len(rs) |->
        [rs[r] EXCEPT !.there = @ /\ (r > Len(rs) - Kept \/ r \in ids)]]

\* A run begins when the one before was finished; one whose supervisor could not
\* be started is finished at once, with a note in it, and nobody waits for it.
MayCreate == \A r \in 1..Latest : runs[r].closed /\ (runs[r].ended \/ runs[r].failed)

Reading == phase \in {"flush", "read", "drain"}

\* emit: the listeners of the target are told of the entry e, in the same turn.
Emit(e) ==
    /\ buffered' = IF reader = "follow" /\ Reading THEN Append(buffered, e) ELSE buffered
    /\ out' = IF reader = "follow" /\ phase = "live" THEN Append(out, e) ELSE out
    /\ UNCHANGED <<askedVars, phase, backlog>>

NobodyHears == UNCHANGED <<askedVars, phase, backlog, buffered, out>>

CreateRun ==
    /\ Latest < MaxRuns /\ MayCreate
    /\ open' = Latest + 1
    /\ openIds' = openIds \cup {Latest + 1}
    /\ \/ runs' = Pruned(Append(runs, NewRun(FALSE)), openIds') /\ NobodyHears
       \/ /\ runs' = Pruned(Append(runs, Closed(Appended(NewRun(TRUE), 0))), openIds')
          /\ Emit(<<Latest + 1, 0>>)

\* append: output of a command, before the run is closed or after.
AppendEntry(r) ==
    /\ runs[r].count < MaxEntries /\ ~runs[r].failed
    /\ runs' = [runs EXCEPT ![r] = Appended(@, @.count)]
    /\ Emit(<<r, runs[r].count>>)
    /\ UNCHANGED <<open, openIds>>

\* The scheduled writePending.
FlushPending(r) ==
    /\ runs[r].pending # <<>>
    /\ runs' = [runs EXCEPT ![r] = Flushed(@)]
    /\ UNCHANGED <<open, openIds>> /\ NobodyHears

\* The stream writes its next line.
StreamWrites(r) ==
    /\ runs[r].queued # <<>>
    /\ runs' = [runs EXCEPT ![r].lines = Append(@, Head(runs[r].queued)),
                            ![r].queued = Tail(@)]
    /\ UNCHANGED <<open, openIds>> /\ NobodyHears

FinishRun(r) ==
    /\ ~runs[r].closed
    /\ runs' = [runs EXCEPT ![r] = Closed(@)]
    /\ UNCHANGED <<open, openIds>> /\ NobodyHears

\* Mistake: the stragglers are written without waiting for the stream.
MayEndEarly(run) == run.closed /\ ~run.ended

\* stream.end calls back when everything before it has been written.
MayEnd(run) == run.closed /\ ~run.ended /\ run.queued = <<>>

StreamEnded(r) ==
    /\ MayEnd(runs[r])
    /\ runs' = [runs EXCEPT ![r].ended = TRUE, ![r].lines = @ \o runs[r].held,
                            ![r].held = <<>>]
    /\ open' = IF open = r THEN 0 ELSE open
    /\ openIds' = openIds \ {r}
    /\ NobodyHears

-----------------------------------------------------------------------------
(* query.ts *)

\* The handle's flush(), and what its promise waits for.
StartReading(kind, r, handle) ==
    /\ reader = "idle" /\ reader' = kind
    /\ source' = r
    /\ IF handle
       THEN /\ runs' = [runs EXCEPT ![r] = Flushed(@)]
            /\ need' = Len(runs[r].lines) + Len(runs[r].queued) + Len(runs[r].pending)
            /\ phase' = "flush"
       ELSE need' = 0 /\ phase' = "read" /\ UNCHANGED runs
    /\ tail' \in Tails
    /\ UNCHANGED <<open, openIds, backlog, buffered, out>>

\* Mistake: the open run is read as if nothing more could come.
CutInfinite == Infinity

\* Taken in the same turn as the subscription.
Cut == IF open # 0 THEN runs[open].count ELSE Infinity

\* follow up to its await.
Follow ==
    /\ Latest > 0
    /\ cut' = Cut
    /\ StartReading("follow", IF open # 0 THEN open ELSE Latest, open # 0)

\* query, of any run that there is, up to its await.
Query ==
    /\ cut' = Infinity
    /\ \E r \in 1..Latest : runs[r].there /\ StartReading("query", r, open = r)

FlushDone ==
    /\ phase = "flush" /\ Len(runs[source].lines) >= need
    /\ phase' = "read"
    /\ UNCHANGED <<storeVars, askedVars, backlog, buffered, out>>

\* readIndexedEntries of a file that is there: the i-th line has index i - 1, and
\* reading ends at the cut.  The last ones are kept when a tail is asked for.
Backlog(run) ==
    LET size == IF run.there THEN Len(run.lines) ELSE 0
        end == IF cut < size THEN cut ELSE size
        first == IF end > tail THEN end - tail + 1 ELSE 1
    IN [i \in 1..(end - first + 1) |-> <<source, run.lines[first + i - 1]>>]

\* The reader reaches the end of the file: the event loop hears of it later.
EndOfFile ==
    /\ phase = "read"
    /\ phase' = "drain"
    /\ backlog' = Backlog(runs[source])
    /\ UNCHANGED <<storeVars, askedVars, buffered, out>>

\* A live event that the replay has covered.
IsReplayed(e) == e[1] = source /\ e[2] < cut

Delivered(given, e) == IF IsReplayed(e) THEN given ELSE Append(given, e)

\* The backlog, then the events buffered meanwhile, in one turn.
Drain ==
    /\ phase = "drain"
    /\ phase' = "live"
    /\ out' = FoldLeft(Delivered, backlog, buffered)
    /\ buffered' = <<>> /\ backlog' = <<>>
    /\ UNCHANGED <<storeVars, askedVars>>

\* The unsubscribe that follow returned.
Unsubscribe ==
    /\ reader = "follow" /\ phase # "stopped"
    /\ phase' = "stopped"
    /\ buffered' = <<>> /\ backlog' = <<>>
    /\ UNCHANGED <<storeVars, askedVars, out>>

-----------------------------------------------------------------------------

Init ==
    /\ runs = <<>> /\ open = 0 /\ openIds = {}
    /\ reader = "idle" /\ phase = "idle" /\ source = 0 /\ cut = 0 /\ need = 0 /\ tail = All
    /\ backlog = <<>> /\ buffered = <<>> /\ out = <<>>

Next ==
    \/ CreateRun
    \/ \E r \in 1..Latest :
          AppendEntry(r) \/ FlushPending(r) \/ StreamWrites(r) \/ FinishRun(r) \/ StreamEnded(r)
    \/ Follow \/ Query \/ FlushDone \/ EndOfFile \/ Drain \/ Unsubscribe

Spec == Init /\ [][Next]_vars

-----------------------------------------------------------------------------

\* "The index is the entry's sequence number within the run": every line of a
\* file is where its number says, stragglers of a closed run included, and no
\* file of a run that is still written has been pruned away.
FileIsInOrder ==
    \A r \in 1..Latest :
        /\ \A i \in DOMAIN runs[r].lines : runs[r].lines[i] = i - 1
        /\ ~runs[r].ended => runs[r].there

\* Appended before its run was closed.
Regular(e) == ~runs[e[1]].closed \/ e[2] < runs[e[1]].last

\* What a follower should have been given by now if it asked for everything, and
\* in which order: the run it found, and the runs since.
Wanted ==
    {e \in UNION {{r} \X (0..runs[r].count - 1) : r \in source..Latest} : Regular(e)}

Before(e, f) == e[1] < f[1] \/ (e[1] = f[1] /\ e[2] < f[2])

\* "No gap and no duplicate": once it is live, a follower has had every entry
\* exactly once and in order, the replay cut down to the tail it asked for,
\* whatever was flushed, finished or begun meanwhile; and the answer to a query
\* has every line that was to be flushed for it, from the first on.  (Not so the
\* stragglers of a closed run, which may be missed, and a run pruned before it was
\* read.)
ReadersMissNothing ==
    phase = "live" /\ runs[source].there =>
        LET had == {e \in Range(out) : Regular(e)} IN
        /\ had \subseteq Wanted
        /\ reader = "follow" =>
              /\ \A e \in Wanted \ had, f \in had : Before(e, f)
              /\ tail = All => had = Wanted
        /\ reader = "query" /\ tail = All =>
              /\ \A e \in Wanted \ had, f \in had : Before(f, e)
              /\ Len(out) >= need
        /\ \A i, j \in DOMAIN out :
              i < j /\ (out[i][1] = out[j][1] \/ (Regular(out[i]) /\ Regular(out[j])))
                  => Before(out[i], out[j])

=============================================================================
