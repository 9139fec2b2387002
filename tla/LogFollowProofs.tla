-------------------------- MODULE LogFollowProofs --------------------------
(***************************************************************************)
(* The index of an entry is its sequence number, and readers miss nothing,  *)
(* for any number of runs, entries and readers' tails.                      *)
(*                                                                          *)
(* A run's entries are in four places, the file, the stream's queue, the    *)
(* lines not given to the stream and the stragglers of a closed run.  IInv  *)
(* says that these hold 0, 1, 2, ... one after the other; what the          *)
(* operators of store.ts do to it are lemmas about one run.                 *)
(*                                                                          *)
(* To a reader a step of the store is no news, or the news of one entry     *)
(* (Hears).  RInv says phase by phase what the reader holds of the entries  *)
(* there are: the buffer has all that the replay will not read, flush() has *)
(* waited for the rest, the backlog is one stretch of the file.             *)
(***************************************************************************)
EXTENDS LogFollow, WellFoundedInduction, TLAPS

RunRecord ==
    [count : Nat, pending : Seq(Nat), queued : Seq(Nat), lines : Seq(Nat), held : Seq(Nat),
     closed : BOOLEAN, ended : BOOLEAN, failed : BOOLEAN, there : BOOLEAN, last : Nat]

\* s is n, n + 1, n + 2, ...
CountsFrom(s, n) == \A i \in 1..Len(s) : s[i] = n + i - 1

\* The lines of the file, the queue, those to be flushed and the stragglers are
\* the n entries appended so far, in order.
InOrder(n, l, q, p, h) ==
    /\ CountsFrom(l, 0)
    /\ CountsFrom(q, Len(l))
    /\ CountsFrom(p, Len(l) + Len(q))
    /\ CountsFrom(h, Len(l) + Len(q) + Len(p))
    /\ n = Len(l) + Len(q) + Len(p) + Len(h)

RunInOrder(run) == InOrder(run.count, run.lines, run.queued, run.pending, run.held)

\* Nothing is left to flush when a run is closed, nothing at all when it has
\* ended, and only a closed run that has not ended has stragglers.
RunSettles(run) ==
    /\ run.closed => run.pending = <<>>
    /\ ~run.closed => run.held = <<>>
    /\ run.ended => run.closed /\ run.queued = <<>> /\ run.held = <<>>

GoodRun(run) == run \in RunRecord /\ RunInOrder(run) /\ RunSettles(run)

\* A run that has not ended is one pruneRuns leaves alone.
StillThere(r) == ~runs[r].ended => runs[r].there /\ r \in openIds

IInv ==
    /\ runs \in Seq(RunRecord)
    /\ open \in 0..Latest
    /\ \A r \in 1..Latest : GoodRun(runs[r]) /\ StillThere(r)

-----------------------------------------------------------------------------
(* Sequences of consecutive numbers. *)

LEMMA CountingAppend ==
    ASSUME NEW s \in Seq(Nat), NEW n \in Nat, CountsFrom(s, n)
    PROVE  /\ Append(s, n + Len(s)) \in Seq(Nat)
           /\ Len(Append(s, n + Len(s))) = Len(s) + 1
           /\ CountsFrom(Append(s, n + Len(s)), n)
BY DEF CountsFrom

LEMMA CountingConcat ==
    ASSUME NEW s \in Seq(Nat), NEW t \in Seq(Nat), NEW n \in Nat,
           CountsFrom(s, n), CountsFrom(t, n + Len(s))
    PROVE  /\ s \o t \in Seq(Nat)
           /\ Len(s \o t) = Len(s) + Len(t)
           /\ CountsFrom(s \o t, n)
<1>1. s \o t \in Seq(Nat) /\ Len(s \o t) = Len(s) + Len(t)
  OBVIOUS
<1>2. ASSUME NEW i \in 1..Len(s \o t) PROVE (s \o t)[i] = n + i - 1
  <2>1. CASE i <= Len(s)
    BY <1>1, <2>1 DEF CountsFrom
  <2>2. CASE i > Len(s)
    <3>1. i - Len(s) \in 1..Len(t)
      BY <1>1, <2>2
    <3>2. (s \o t)[i] = t[i - Len(s)]
      BY <1>1, <2>2
    <3> QED
      BY <3>1, <3>2 DEF CountsFrom
  <2> QED
    BY <1>1, <2>1, <2>2
<1> QED
  BY <1>1, <1>2 DEF CountsFrom

LEMMA CountingTail ==
    ASSUME NEW s \in Seq(Nat), NEW n \in Nat, CountsFrom(s, n), s # <<>>
    PROVE  /\ Head(s) = n
           /\ Tail(s) \in Seq(Nat) /\ Len(Tail(s)) = Len(s) - 1 /\ Len(s) >= 1
           /\ CountsFrom(Tail(s), n + 1)
BY DEF CountsFrom

LEMMA CountingEmpty == Len(<<>>) = 0 /\ <<>> \in Seq(Nat) /\ \A n : CountsFrom(<<>>, n)
BY DEF CountsFrom

LEMMA InOrderFlush ==
    ASSUME NEW n \in Nat, NEW l \in Seq(Nat), NEW q \in Seq(Nat), NEW p \in Seq(Nat),
           NEW h \in Seq(Nat), InOrder(n, l, q, p, h)
    PROVE  q \o p \in Seq(Nat) /\ InOrder(n, l, q \o p, <<>>, h)
<1>1. Len(l) \in Nat /\ CountsFrom(q, Len(l)) /\ CountsFrom(p, Len(l) + Len(q))
  BY DEF InOrder
<1>2. /\ q \o p \in Seq(Nat) /\ Len(q \o p) = Len(q) + Len(p) /\ CountsFrom(q \o p, Len(l))
  BY <1>1, CountingConcat
<1> QED
  BY <1>2, CountingEmpty DEF InOrder

LEMMA InOrderAppend ==
    ASSUME NEW n \in Nat, NEW l \in Seq(Nat), NEW q \in Seq(Nat), NEW p \in Seq(Nat),
           NEW h \in Seq(Nat), InOrder(n, l, q, p, h)
    PROVE  /\ Append(h, n) \in Seq(Nat) /\ InOrder(n + 1, l, q, p, Append(h, n))
           /\ h = <<>> =>
                  Append(p, n) \in Seq(Nat) /\ InOrder(n + 1, l, q, Append(p, n), h)
           /\ q = <<>> /\ p = <<>> /\ h = <<>> =>
                  Append(l, n) \in Seq(Nat) /\ InOrder(n + 1, Append(l, n), q, p, h)
<1>1. /\ Len(l) \in Nat /\ Len(q) \in Nat /\ Len(p) \in Nat /\ Len(h) \in Nat
      /\ n = Len(l) + Len(q) + Len(p) + Len(h)
  BY DEF InOrder
<1>2. Append(h, n) \in Seq(Nat) /\ InOrder(n + 1, l, q, p, Append(h, n))
  BY <1>1, CountingAppend DEF InOrder
<1>3. ASSUME h = <<>>
      PROVE  Append(p, n) \in Seq(Nat) /\ InOrder(n + 1, l, q, Append(p, n), h)
  <2>1. n = Len(l) + Len(q) + Len(p)
    BY <1>1, <1>3
  <2> QED
    BY <1>1, <1>3, <2>1, CountingAppend, CountingEmpty DEF InOrder
<1>4. ASSUME q = <<>>, p = <<>>, h = <<>>
      PROVE  Append(l, n) \in Seq(Nat) /\ InOrder(n + 1, Append(l, n), q, p, h)
  <2>1. n = 0 + Len(l)
    BY <1>1, <1>4
  <2> QED
    BY <1>1, <1>4, <2>1, CountingAppend, CountingEmpty DEF InOrder
<1> QED
  BY <1>2, <1>3, <1>4

LEMMA InOrderWrite ==
    ASSUME NEW n \in Nat, NEW l \in Seq(Nat), NEW q \in Seq(Nat), NEW p \in Seq(Nat),
           NEW h \in Seq(Nat), InOrder(n, l, q, p, h), q # <<>>
    PROVE  /\ Append(l, Head(q)) \in Seq(Nat) /\ Tail(q) \in Seq(Nat)
           /\ InOrder(n, Append(l, Head(q)), Tail(q), p, h)
<1>1. Len(l) \in Nat /\ CountsFrom(l, 0) /\ CountsFrom(q, Len(l))
  BY DEF InOrder
<1>2. /\ Head(q) = Len(l) /\ Tail(q) \in Seq(Nat) /\ Len(Tail(q)) = Len(q) - 1
      /\ CountsFrom(Tail(q), Len(l) + 1)
  BY <1>1, CountingTail
<1>3. /\ Append(l, Head(q)) \in Seq(Nat) /\ Len(Append(l, Head(q))) = Len(l) + 1
      /\ CountsFrom(Append(l, Head(q)), 0)
  <2>1. Head(q) = 0 + Len(l)
    BY <1>1, <1>2
  <2> QED
    BY <1>1, <2>1, CountingAppend
<1>4. Len(Append(l, Head(q))) + Len(Tail(q)) = Len(l) + Len(q)
  BY <1>2, <1>3
<1> QED
  BY <1>2, <1>3, <1>4 DEF InOrder

LEMMA InOrderEnd ==
    ASSUME NEW n \in Nat, NEW l \in Seq(Nat), NEW h \in Seq(Nat),
           InOrder(n, l, <<>>, <<>>, h)
    PROVE  l \o h \in Seq(Nat) /\ InOrder(n, l \o h, <<>>, <<>>, <<>>)
<1>1. CountsFrom(l, 0) /\ CountsFrom(h, 0 + Len(l)) /\ n = Len(l) + Len(h)
  BY CountingEmpty DEF InOrder
<1>2. l \o h \in Seq(Nat) /\ Len(l \o h) = Len(l) + Len(h) /\ CountsFrom(l \o h, 0)
  BY <1>1, CountingConcat
<1> QED
  BY <1>1, <1>2, CountingEmpty DEF InOrder

-----------------------------------------------------------------------------
(* What the store does to a run. *)

LEMMA NewRunGood ==
    ASSUME NEW f \in BOOLEAN
    PROVE  GoodRun(NewRun(f)) /\ NewRun(f).there
BY CountingEmpty DEF NewRun, GoodRun, RunRecord, RunInOrder, InOrder, RunSettles

LEMMA Fields ==
    ASSUME NEW run \in RunRecord
    PROVE  /\ run.count \in Nat /\ run.pending \in Seq(Nat) /\ run.queued \in Seq(Nat)
           /\ run.lines \in Seq(Nat) /\ run.held \in Seq(Nat)
BY DEF RunRecord

\* The fields that change, besides the flags.
Filed(run, c, p, q, l, h) ==
    [run EXCEPT !.count = c, !.pending = p, !.queued = q, !.lines = l, !.held = h]

\* They may be given these values.
Fits(run, c, p, q, l, h) ==
    /\ run \in RunRecord /\ c \in Nat
    /\ p \in Seq(Nat) /\ q \in Seq(Nat) /\ l \in Seq(Nat) /\ h \in Seq(Nat)
    /\ InOrder(c, l, q, p, h)
    /\ run.closed => p = <<>>
    /\ ~run.closed => h = <<>>
    /\ run.ended => run.closed /\ q = <<>> /\ h = <<>>

Refiled(f, run, p, q, h) ==
    /\ GoodRun(f)
    /\ f.there = run.there /\ f.ended = run.ended /\ f.closed = run.closed
    /\ f.pending = p /\ f.queued = q /\ f.held = h

LEMMA FiledGood ==
    ASSUME NEW run, NEW c, NEW p, NEW q, NEW l, NEW h, Fits(run, c, p, q, l, h),
           NEW f, f = Filed(run, c, p, q, l, h)
    PROVE  Refiled(f, run, p, q, h)
<1>1. /\ f \in RunRecord
      /\ f.count = c /\ f.pending = p /\ f.queued = q /\ f.lines = l /\ f.held = h
      /\ f.closed = run.closed /\ f.ended = run.ended /\ f.there = run.there
  BY DEF Filed, RunRecord, Fits
<1>2. RunInOrder(f)
  BY <1>1 DEF RunInOrder, Fits
<1>3. RunSettles(f)
  BY <1>1 DEF RunSettles, Fits
<1> QED
  BY <1>1, <1>2, <1>3 DEF GoodRun, Refiled

LEMMA FlushedGood ==
    ASSUME NEW run, GoodRun(run), NEW f, f = Flushed(run)
    PROVE  /\ GoodRun(f) /\ f.pending = <<>>
           /\ f.there = run.there /\ f.ended = run.ended /\ f.closed = run.closed
<1>1. run \in RunRecord /\ RunInOrder(run) /\ RunSettles(run)
  BY DEF GoodRun
<1> DEFINE q == run.queued \o run.pending
<1>2. f = Filed(run, run.count, <<>>, q, run.lines, run.held)
  BY <1>1 DEF Flushed, Filed, RunRecord
<1>3. q \in Seq(Nat) /\ InOrder(run.count, run.lines, q, <<>>, run.held)
  BY <1>1, Fields, InOrderFlush DEF RunInOrder
<1>4. run.ended => q = <<>>
  BY <1>1, Fields DEF RunSettles
<1> HIDE DEF q
<1>5. Fits(run, run.count, <<>>, q, run.lines, run.held)
  BY <1>1, <1>3, <1>4, Fields, CountingEmpty DEF RunSettles, Fits
<1> QED
  BY <1>2, <1>5, FiledGood DEF Refiled

LEMMA ClosedGood ==
    ASSUME NEW run, GoodRun(run), ~run.closed, NEW f, f = Closed(run)
    PROVE  GoodRun(f) /\ f.there = run.there /\ ~f.ended
<1>1. PICK g : g = Flushed(run)
  OBVIOUS
<1>2. GoodRun(g) /\ g.pending = <<>> /\ g.there = run.there /\ ~g.closed /\ ~g.ended
  BY <1>1, FlushedGood DEF GoodRun, RunSettles
<1>3. run.count \in Nat /\ f = [g EXCEPT !.closed = TRUE, !.last = run.count]
  BY <1>1, Fields DEF Closed, GoodRun
<1>4. /\ f \in RunRecord /\ f.closed /\ f.ended = g.ended /\ f.there = g.there
      /\ f.count = g.count /\ f.pending = g.pending /\ f.queued = g.queued
      /\ f.lines = g.lines /\ f.held = g.held
  BY <1>2, <1>3 DEF GoodRun, RunRecord
<1>5. RunInOrder(f)
  BY <1>2, <1>4 DEF GoodRun, RunInOrder
<1> QED
  BY <1>2, <1>4, <1>5 DEF GoodRun, RunSettles

LEMMA AppendedGood ==
    ASSUME NEW run, GoodRun(run), NEW f, f = Appended(run, run.count)
    PROVE  GoodRun(f) /\ f.there = run.there /\ f.ended = run.ended /\ f.closed = run.closed
<1>1. run \in RunRecord /\ RunSettles(run)
      /\ InOrder(run.count, run.lines, run.queued, run.pending, run.held)
  BY DEF GoodRun, RunInOrder
<1>2. run.count + 1 \in Nat
  BY <1>1, Fields
<1>3. CASE ~run.closed
  <2> DEFINE p == Append(run.pending, run.count)
  <2>1. run.held = <<>> /\ ~run.ended
    BY <1>1, <1>3 DEF RunSettles
  <2>2. f = Filed(run, run.count + 1, p, run.queued, run.lines, run.held)
    BY <1>1, <1>3, <2>1 DEF Appended, Filed, RunRecord
  <2>3. p \in Seq(Nat) /\ InOrder(run.count + 1, run.lines, run.queued, p, run.held)
    BY <1>1, <2>1, Fields, InOrderAppend
  <2> HIDE DEF p
  <2>4. Fits(run, run.count + 1, p, run.queued, run.lines, run.held)
    BY <1>1, <1>2, <1>3, <2>1, <2>3, Fields DEF Fits
  <2> QED
    BY <2>2, <2>4, FiledGood DEF Refiled
<1>4. CASE run.closed /\ ~run.ended
  <2> DEFINE h == Append(run.held, run.count)
  <2>1. f = Filed(run, run.count + 1, run.pending, run.queued, run.lines, h)
    BY <1>1, <1>4 DEF Appended, Filed, RunRecord
  <2>2. h \in Seq(Nat) /\ InOrder(run.count + 1, run.lines, run.queued, run.pending, h)
    BY <1>1, Fields, InOrderAppend
  <2> HIDE DEF h
  <2>3. Fits(run, run.count + 1, run.pending, run.queued, run.lines, h)
    BY <1>1, <1>2, <1>4, <2>2, Fields DEF RunSettles, Fits
  <2> QED
    BY <2>1, <2>3, FiledGood DEF Refiled
<1>5. CASE run.closed /\ run.ended
  <2> DEFINE l == Append(run.lines, run.count)
  <2>1. f = Filed(run, run.count + 1, run.pending, run.queued, l, run.held)
    BY <1>1, <1>5 DEF Appended, Filed, RunRecord
  <2>2. run.queued = <<>> /\ run.pending = <<>> /\ run.held = <<>>
    BY <1>1, <1>5 DEF RunSettles
  <2>3. l \in Seq(Nat) /\ InOrder(run.count + 1, l, run.queued, run.pending, run.held)
    BY <1>1, <2>2, Fields, InOrderAppend
  <2> HIDE DEF l
  <2>4. Fits(run, run.count + 1, run.pending, run.queued, l, run.held)
    BY <1>1, <1>2, <1>5, <2>2, <2>3, Fields DEF Fits
  <2> QED
    BY <2>1, <2>4, FiledGood DEF Refiled
<1> QED
  BY <1>1, <1>3, <1>4, <1>5 DEF RunSettles

\* StreamWrites, of one run.
Written(run) == [run EXCEPT !.lines = Append(@, Head(run.queued)), !.queued = Tail(@)]

LEMMA WrittenGood ==
    ASSUME NEW run, GoodRun(run), run.queued # <<>>, NEW f, f = Written(run)
    PROVE  GoodRun(f) /\ f.there = run.there /\ f.ended = run.ended
<1>1. run \in RunRecord /\ RunSettles(run) /\ ~run.ended
      /\ InOrder(run.count, run.lines, run.queued, run.pending, run.held)
  BY DEF GoodRun, RunInOrder, RunSettles
<1> DEFINE q == Tail(run.queued)
           l == Append(run.lines, Head(run.queued))
<1>2. f = Filed(run, run.count, run.pending, q, l, run.held)
  BY <1>1 DEF Written, Filed, RunRecord
<1>3. q \in Seq(Nat) /\ l \in Seq(Nat) /\ InOrder(run.count, l, q, run.pending, run.held)
  BY <1>1, Fields, InOrderWrite
<1> HIDE DEF q, l
<1>4. Fits(run, run.count, run.pending, q, l, run.held)
  BY <1>1, <1>3, Fields DEF RunSettles, Fits
<1> QED
  BY <1>2, <1>4, FiledGood DEF Refiled

\* StreamEnded, of one run.
Ended(run) == [run EXCEPT !.ended = TRUE, !.lines = @ \o run.held, !.held = <<>>]

LEMMA EndedGood ==
    ASSUME NEW run, GoodRun(run), run.closed, run.queued = <<>>, NEW f, f = Ended(run)
    PROVE  GoodRun(f) /\ f.ended
<1>1. run \in RunRecord /\ run.pending = <<>>
      /\ InOrder(run.count, run.lines, <<>>, <<>>, run.held)
  BY DEF GoodRun, RunInOrder, RunSettles
<1> DEFINE l == run.lines \o run.held
<1>2. PICK g : g = Filed(run, run.count, <<>>, <<>>, l, <<>>)
  OBVIOUS
<1>3. l \in Seq(Nat) /\ InOrder(run.count, l, <<>>, <<>>, <<>>)
  BY <1>1, Fields, InOrderEnd
<1>4. f = [g EXCEPT !.ended = TRUE]
  BY <1>1, <1>2 DEF Ended, Filed, RunRecord
<1> HIDE DEF l
<1>5. GoodRun(g) /\ g.closed /\ g.pending = <<>> /\ g.queued = <<>> /\ g.held = <<>>
  <2>1. Fits(run, run.count, <<>>, <<>>, l, <<>>)
    BY <1>1, <1>3, Fields, CountingEmpty DEF Fits
  <2> QED
    BY <1>2, <2>1, FiledGood DEF Refiled
<1>6. /\ f \in RunRecord /\ f.closed = g.closed /\ f.ended
      /\ f.count = g.count /\ f.pending = g.pending /\ f.queued = g.queued
      /\ f.lines = g.lines /\ f.held = g.held
  BY <1>4, <1>5 DEF GoodRun, RunRecord
<1>7. RunInOrder(f)
  BY <1>5, <1>6 DEF GoodRun, RunInOrder
<1> QED
  BY <1>5, <1>6, <1>7 DEF GoodRun, RunSettles
-----------------------------------------------------------------------------
(* The runs of the target. *)

LEMMA FunctionIsSeq ==
    ASSUME NEW S, NEW n \in Nat, NEW f \in [1..n -> S]
    PROVE  f \in Seq(S) /\ Len(f) = n
OBVIOUS

\* One run changes, and stays good and where it is.
LEMMA OneRunChanges ==
    ASSUME IInv, NEW r \in 1..Latest, NEW run, GoodRun(run),
           runs' = [runs EXCEPT ![r] = run],
           \/ run.ended = runs[r].ended /\ run.there = runs[r].there /\ UNCHANGED openIds
           \/ run.ended /\ openIds' = openIds \ {r},
           open' \in {open, 0}
    PROVE  IInv'
<1>1. runs' \in Seq(RunRecord) /\ Latest' = Latest
  BY DEF IInv, GoodRun, Latest
<1>2. open' \in 0..Latest'
  BY <1>1 DEF IInv, Latest
<1>3. ASSUME NEW k \in 1..Latest' PROVE GoodRun(runs'[k]) /\ StillThere(k)'
  <2>1. runs'[k] = IF k = r THEN run ELSE runs[k]
    BY <1>1, <1>3 DEF IInv, Latest
  <2>2. GoodRun(runs[k]) /\ StillThere(k)
    BY <1>1, <1>3 DEF IInv
  <2> QED
    BY <2>1, <2>2 DEF StillThere
<1> QED
  BY <1>1, <1>2, <1>3 DEF IInv

\* A run is added, and pruneRuns leaves those alone that have not ended.
LEMMA OneRunMore ==
    ASSUME IInv, NEW run, GoodRun(run), run.there,
           openIds' = openIds \cup {Latest + 1}, open' = Latest + 1,
           runs' = Pruned(Append(runs, run), openIds')
    PROVE  IInv'
<1> DEFINE rs == Append(runs, run)
<1>1. /\ rs \in Seq(RunRecord) /\ Len(rs) = Latest + 1 /\ Latest \in Nat
      /\ \A k \in 1..Len(rs) : rs[k] = IF k = Latest + 1 THEN run ELSE runs[k]
  BY DEF IInv, GoodRun, Latest
<1>2. \A k \in 1..Len(rs) :
          GoodRun(rs[k]) /\ (~rs[k].ended => rs[k].there /\ k \in openIds')
  BY <1>1 DEF IInv, StillThere
<1> HIDE DEF rs
<1>3. ASSUME NEW k \in 1..Len(rs), NEW b \in BOOLEAN,
             NEW p, p = [rs[k] EXCEPT !.there = b]
      PROVE  p \in RunRecord /\ GoodRun(p) /\ p.ended = rs[k].ended /\ p.there = b
  <2>1. PICK q : q = rs[k]
    OBVIOUS
  <2>2. GoodRun(q)
    BY <1>2, <2>1
  <2>3. /\ p \in RunRecord /\ p.ended = q.ended /\ p.there = b
        /\ p.count = q.count /\ p.pending = q.pending /\ p.queued = q.queued
        /\ p.lines = q.lines /\ p.held = q.held /\ p.closed = q.closed
    BY <1>3, <2>1, <2>2 DEF GoodRun, RunRecord
  <2>4. RunInOrder(p) /\ RunSettles(p)
    BY <2>2, <2>3 DEF GoodRun, RunInOrder, RunSettles
  <2> QED
    BY <2>1, <2>3, <2>4 DEF GoodRun
<1> DEFINE kept(k) == rs[k].there /\ (k > Len(rs) - Kept \/ k \in openIds')
<1>4. runs' = [k \in 1..Len(rs) |-> [rs[k] EXCEPT !.there = kept(k)]]
  BY DEF Pruned, rs
<1>5. \A k \in 1..Len(rs) : kept(k) \in BOOLEAN
  OBVIOUS
<1>6. ASSUME NEW k \in 1..Len(rs)
      PROVE  /\ runs'[k] \in RunRecord /\ GoodRun(runs'[k])
             /\ runs'[k].ended = rs[k].ended /\ runs'[k].there = kept(k)
  BY <1>3, <1>4, <1>5
<1>7. runs' \in Seq(RunRecord) /\ Latest' = Latest + 1
  <2>1. Len(rs) \in Nat
    BY <1>1
  <2>2. runs' \in [1..Len(rs) -> RunRecord]
    BY <1>4, <1>6, Zenon
  <2> QED
    BY <1>1, <2>1, <2>2, FunctionIsSeq DEF Latest
<1>8. ASSUME NEW k \in 1..Len(rs) PROVE StillThere(k)'
  BY <1>2, <1>6 DEF StillThere
<1>9. open' \in 0..Latest' /\ 1..Latest' = 1..Len(rs)
  BY <1>1, <1>7
<1> QED
  BY <1>6, <1>7, <1>8, <1>9 DEF IInv

LEMMA InvInit == Init => IInv
BY DEF Init, IInv, Latest

LEMMA InvCreate ==
    ASSUME IInv, CreateRun
    PROVE  IInv'
<1>1. openIds' = openIds \cup {Latest + 1} /\ open' = Latest + 1
  BY DEF CreateRun
<1>2. CASE runs' = Pruned(Append(runs, NewRun(FALSE)), openIds')
  BY <1>1, <1>2, NewRunGood, OneRunMore
<1>3. CASE runs' = Pruned(Append(runs, Closed(Appended(NewRun(TRUE), 0))), openIds')
  <2>1. PICK n : n = NewRun(TRUE)
    OBVIOUS
  <2>2. GoodRun(n) /\ n.there /\ ~n.closed /\ n.count = 0
    BY <2>1, NewRunGood DEF NewRun
  <2>3. PICK a : a = Appended(n, n.count)
    OBVIOUS
  <2>4. GoodRun(a) /\ a.there /\ ~a.closed
    BY <2>2, <2>3, AppendedGood
  <2>5. PICK c : c = Closed(a)
    OBVIOUS
  <2>6. GoodRun(c) /\ c.there
    BY <2>4, <2>5, ClosedGood
  <2>7. runs' = Pruned(Append(runs, c), openIds')
    BY <1>3, <2>1, <2>2, <2>3, <2>5
  <2> QED
    BY <1>1, <2>6, <2>7, OneRunMore
<1> QED
  BY <1>2, <1>3 DEF CreateRun

LEMMA InvRun ==
    ASSUME IInv, NEW r \in 1..Latest,
           AppendEntry(r) \/ FlushPending(r) \/ StreamWrites(r) \/ FinishRun(r) \/ StreamEnded(r)
    PROVE  IInv'
<1>1. GoodRun(runs[r])
  BY DEF IInv
<1>2. ASSUME AppendEntry(r) PROVE IInv'
  <2>1. PICK run : run = Appended(runs[r], runs[r].count)
    OBVIOUS
  <2>2. runs' = [runs EXCEPT ![r] = run] /\ UNCHANGED <<open, openIds>>
    BY <1>2, <2>1 DEF AppendEntry
  <2> QED
    BY <1>1, <2>1, <2>2, AppendedGood, OneRunChanges
<1>3. ASSUME FlushPending(r) PROVE IInv'
  <2>1. PICK run : run = Flushed(runs[r])
    OBVIOUS
  <2>2. runs' = [runs EXCEPT ![r] = run] /\ UNCHANGED <<open, openIds>>
    BY <1>3, <2>1 DEF FlushPending
  <2> QED
    BY <1>1, <2>1, <2>2, FlushedGood, OneRunChanges
<1>4. ASSUME StreamWrites(r) PROVE IInv'
  <2>1. PICK run : run = Written(runs[r])
    OBVIOUS
  <2>2. runs' = [runs EXCEPT ![r] = run] /\ UNCHANGED <<open, openIds>>
    BY <1>4, <2>1 DEF StreamWrites, Written, IInv, RunRecord, Latest
  <2>3. runs[r].queued # <<>>
    BY <1>4 DEF StreamWrites
  <2> QED
    BY <1>1, <2>1, <2>2, <2>3, WrittenGood, OneRunChanges
<1>5. ASSUME FinishRun(r) PROVE IInv'
  <2>1. PICK run : run = Closed(runs[r])
    OBVIOUS
  <2>2. runs' = [runs EXCEPT ![r] = run] /\ UNCHANGED <<open, openIds>> /\ ~runs[r].closed
    BY <1>5, <2>1 DEF FinishRun
  <2>3. ~runs[r].ended
    BY <1>1, <2>2 DEF GoodRun, RunSettles
  <2> QED
    BY <1>1, <2>1, <2>2, <2>3, ClosedGood, OneRunChanges DEF GoodRun, RunRecord
<1>6. ASSUME StreamEnded(r) PROVE IInv'
  <2>1. PICK run : run = Ended(runs[r])
    OBVIOUS
  <2>2. runs' = [runs EXCEPT ![r] = run]
    BY <1>6, <2>1 DEF StreamEnded, Ended, IInv, RunRecord, Latest
  <2>3. /\ runs[r].closed /\ runs[r].queued = <<>>
        /\ open' \in {open, 0} /\ openIds' = openIds \ {r}
    BY <1>6 DEF StreamEnded, MayEnd
  <2> QED
    BY <1>1, <2>1, <2>2, <2>3, EndedGood, OneRunChanges
<1> QED
  BY <1>2, <1>3, <1>4, <1>5, <1>6

LEMMA InvStartReading ==
    ASSUME IInv, NEW kind, NEW r \in 1..Latest, NEW handle \in BOOLEAN,
           StartReading(kind, r, handle)
    PROVE  IInv'
<1>1. UNCHANGED <<open, openIds>>
  BY DEF StartReading
<1>2. CASE handle
  <2>1. PICK run : run = Flushed(runs[r])
    OBVIOUS
  <2>2. runs' = [runs EXCEPT ![r] = run] /\ GoodRun(runs[r])
    BY <1>2, <2>1 DEF StartReading, IInv
  <2> QED
    BY <1>1, <2>1, <2>2, FlushedGood, OneRunChanges
<1>3. CASE ~handle
  BY <1>1, <1>3 DEF StartReading, IInv, Latest, StillThere
<1> QED
  BY <1>2, <1>3

LEMMA InvStep == IInv /\ [Next]_vars => IInv'
<1> SUFFICES ASSUME IInv, [Next]_vars PROVE IInv'
  OBVIOUS
<1>1. ASSUME UNCHANGED storeVars PROVE IInv'
  BY <1>1 DEF storeVars, IInv, Latest, StillThere
<1>2. ASSUME Follow PROVE IInv'
  <2>1. (IF open # 0 THEN open ELSE Latest) \in 1..Latest
    BY <1>2 DEF Follow, IInv, Latest
  <2> QED
    BY <1>2, <2>1, InvStartReading DEF Follow
<1>3. ASSUME Query PROVE IInv'
  BY <1>3, InvStartReading DEF Query
<1>4. FlushDone \/ EndOfFile \/ Drain \/ Unsubscribe \/ UNCHANGED vars => UNCHANGED storeVars
  BY DEF FlushDone, EndOfFile, Drain, Unsubscribe, vars
<1> QED
  BY <1>1, <1>2, <1>3, <1>4, InvCreate, InvRun DEF Next

-----------------------------------------------------------------------------

\* Whatever is appended, flushed, written, closed, begun and read when, the line
\* of a file has the index of its entry, the stragglers of a closed run included,
\* and no file that is still written is pruned (append, finishRun, pruneRuns).
THEOREM IndexIsSequenceNumber == Spec => []FileIsInOrder
<1>1. IInv => FileIsInOrder
  <2> SUFFICES ASSUME IInv, NEW r \in 1..Latest
               PROVE  /\ \A i \in DOMAIN runs[r].lines : runs[r].lines[i] = i - 1
                      /\ ~runs[r].ended => runs[r].there
    BY DEF FileIsInOrder
  <2>1. PICK l \in Seq(Nat) : l = runs[r].lines /\ CountsFrom(l, 0)
    BY Fields DEF IInv, GoodRun, RunInOrder, InOrder
  <2>2. \A i \in 1..Len(l) : l[i] = i - 1
    BY <2>1 DEF CountsFrom
  <2>3. DOMAIN l = 1..Len(l)
    OBVIOUS
  <2> QED
    BY <2>1, <2>2, <2>3 DEF IInv, StillThere
<1> QED
  BY <1>1, InvInit, InvStep, PTL DEF Spec

-----------------------------------------------------------------------------
(* What the store has been told, and when. *)

\* e has been appended.
Entries == {e \in Nat \X Nat : e[1] \in 1..Latest /\ e[2] < runs[e[1]].count}

\* A closed run had `last' entries by then, all of them in the file or queued.
LastFits(run) ==
    run.closed =>
        /\ run.last <= run.count
        /\ ~run.ended => run.last = Len(run.lines) + Len(run.queued)

StoreInv ==
    /\ Latest <= MaxRuns
    /\ \A r \in 1..Latest :
          /\ LastFits(runs[r])
          /\ runs[r].count <= MaxEntries
          /\ r < Latest => runs[r].closed
    /\ open = IF Latest > 0 /\ ~runs[Latest].ended THEN Latest ELSE 0

LEMMA Sizes ==
    ASSUME NEW run \in RunRecord
    PROVE  /\ Len(run.lines) \in Nat /\ Len(run.queued) \in Nat /\ Len(run.held) \in Nat
           /\ run.last \in Nat /\ run.count \in Nat
           /\ Len(run.lines \o run.held) = Len(run.lines) + Len(run.held)
           /\ run.queued \o <<>> = run.queued
           /\ run.closed \in BOOLEAN /\ run.ended \in BOOLEAN /\ run.there \in BOOLEAN
<1>1. PICK l \in Seq(Nat), q \in Seq(Nat), h \in Seq(Nat) :
          l = run.lines /\ q = run.queued /\ h = run.held
  BY Fields
<1>2. Len(l \o h) = Len(l) + Len(h) /\ q \o <<>> = q
  OBVIOUS
<1>3. Len(l) \in Nat /\ Len(q) \in Nat /\ Len(h) \in Nat
  OBVIOUS
<1>4. /\ run.last \in Nat /\ run.count \in Nat
      /\ run.closed \in BOOLEAN /\ run.ended \in BOOLEAN /\ run.there \in BOOLEAN
  BY DEF RunRecord
<1> QED
  BY <1>1, <1>2, <1>3, <1>4

\* run has become f in one step.
Grown(run, f) ==
    /\ f.count \in {run.count, run.count + 1}
    /\ run.closed => f.closed /\ f.last = run.last
    /\ f.closed /\ ~run.closed => f.last = run.count /\ f.count = run.count
    /\ run.ended => f.ended
    /\ f.there => run.there
    /\ Len(run.lines) <= Len(f.lines)
    /\ LastFits(f)

LEMMA FlushedGrows ==
    ASSUME NEW run, GoodRun(run), LastFits(run), NEW f, f = Flushed(run)
    PROVE  Grown(run, f) /\ f.count = run.count
<1>1. run \in RunRecord /\ RunSettles(run)
  BY DEF GoodRun
<1>2. /\ f.count = run.count /\ f.last = run.last /\ f.lines = run.lines
      /\ f.closed = run.closed /\ f.ended = run.ended /\ f.there = run.there
      /\ f.queued = run.queued \o run.pending
  BY <1>1 DEF Flushed, RunRecord
<1>3. run.closed => Len(f.queued) = Len(run.queued)
  BY <1>1, <1>2, Sizes DEF RunSettles
<1>4. /\ Len(run.lines) \in Nat /\ Len(run.queued) \in Nat
      /\ run.last \in Nat /\ run.count \in Nat
  BY <1>1, Sizes
<1>5. LastFits(f)
  BY <1>2, <1>3, <1>4 DEF LastFits
<1> QED
  BY <1>2, <1>3, <1>4, <1>5 DEF Grown

LEMMA ClosedGrows ==
    ASSUME NEW run, GoodRun(run), LastFits(run), ~run.closed, NEW f, f = Closed(run)
    PROVE  Grown(run, f) /\ f.count = run.count
<1>1. PICK g : g = Flushed(run)
  OBVIOUS
<1>2. /\ GoodRun(g) /\ Grown(run, g) /\ g.count = run.count /\ g.pending = <<>>
      /\ ~g.closed /\ g.ended = run.ended /\ g.there = run.there
  BY <1>1, FlushedGood, FlushedGrows
<1>3. /\ f.closed /\ f.last = run.count /\ f.count = g.count /\ f.ended = g.ended
      /\ f.there = g.there /\ f.lines = g.lines /\ f.queued = g.queued
  BY <1>1, <1>2 DEF Closed, GoodRun, RunRecord
<1>4. g.held = <<>> /\ InOrder(g.count, g.lines, g.queued, g.pending, g.held)
  BY <1>2 DEF GoodRun, RunInOrder, RunSettles
<1>5. g.count = Len(g.lines) + Len(g.queued)
  BY <1>2, <1>4, Fields DEF InOrder, GoodRun
<1>6. LastFits(f)
  BY <1>2, <1>3, <1>5, Fields DEF LastFits, GoodRun
<1> QED
  BY <1>2, <1>3, <1>6 DEF Grown, GoodRun, RunSettles

LEMMA AppendedGrows ==
    ASSUME NEW run, GoodRun(run), LastFits(run), NEW f, f = Appended(run, run.count)
    PROVE  Grown(run, f) /\ f.count = run.count + 1
<1>1. run \in RunRecord /\ RunSettles(run)
  BY DEF GoodRun
<1>2. /\ f.count = run.count + 1 /\ f.last = run.last /\ f.queued = run.queued
      /\ f.closed = run.closed /\ f.ended = run.ended /\ f.there = run.there
  BY <1>1 DEF Appended, RunRecord, RunSettles
<1>3. PICK l \in Seq(Nat), n \in Nat : l = run.lines /\ n = run.count
  BY <1>1, Fields
<1>4. f.lines \in {l, Append(l, n)} /\ (~run.ended => f.lines = l)
  BY <1>1, <1>3 DEF Appended, RunRecord, RunSettles
<1>5. Len(l) <= Len(f.lines) /\ (~run.ended => Len(f.lines) = Len(l))
  BY <1>4
<1>6. Len(run.queued) \in Nat /\ run.last \in Nat /\ run.count \in Nat
  BY <1>1, Sizes
<1>7. ASSUME run.closed
      PROVE  f.last <= f.count /\ (~f.ended => f.last = Len(f.lines) + Len(f.queued))
  <2>1. run.last <= run.count /\ (~run.ended => run.last = Len(l) + Len(run.queued))
    BY <1>3, <1>7 DEF LastFits
  <2>2. f.last <= f.count
    BY <1>2, <1>6, <2>1
  <2>3. ~f.ended => f.last = Len(f.lines) + Len(f.queued)
    BY <1>2, <1>5, <2>1
  <2> QED
    BY <2>2, <2>3
<1>8. LastFits(f)
  BY <1>2, <1>7 DEF LastFits
<1> QED
  BY <1>2, <1>3, <1>5, <1>6, <1>8 DEF Grown

LEMMA WrittenGrows ==
    ASSUME NEW run, GoodRun(run), LastFits(run), run.queued # <<>>, NEW f, f = Written(run)
    PROVE  Grown(run, f) /\ f.count = run.count
<1>1. run \in RunRecord /\ RunSettles(run)
  BY DEF GoodRun
<1>2. /\ f.count = run.count /\ f.last = run.last
      /\ f.closed = run.closed /\ f.ended = run.ended /\ f.there = run.there
  BY <1>1 DEF Written, RunRecord
<1>3. PICK l \in Seq(Nat), q \in Seq(Nat) : l = run.lines /\ q = run.queued
  BY <1>1, Fields
<1>4. f.queued = Tail(q) /\ f.lines = Append(l, Head(q)) /\ q # <<>>
  BY <1>1, <1>3 DEF Written, RunRecord
<1>5. /\ Len(f.lines) = Len(l) + 1 /\ Len(f.queued) = Len(q) - 1
      /\ Len(l) \in Nat /\ Len(q) \in Nat
  BY <1>4
<1>6. run.last \in Nat /\ run.count \in Nat
  BY <1>1, Sizes
<1>7. ASSUME run.closed
      PROVE  f.last <= f.count /\ f.last = Len(f.lines) + Len(f.queued)
  <2>1. run.last <= run.count /\ run.last = Len(l) + Len(q)
    BY <1>1, <1>3, <1>7 DEF LastFits, RunSettles
  <2> QED
    BY <1>2, <1>5, <1>6, <2>1
<1>8. LastFits(f)
  BY <1>2, <1>7 DEF LastFits
<1> QED
  BY <1>2, <1>3, <1>5, <1>6, <1>8 DEF Grown

LEMMA EndedGrows ==
    ASSUME NEW run, GoodRun(run), LastFits(run), run.closed, NEW f, f = Ended(run)
    PROVE  Grown(run, f) /\ f.count = run.count
<1>1. run \in RunRecord
  BY DEF GoodRun
<1>2. /\ f.count = run.count /\ f.last = run.last /\ f.ended
      /\ f.closed = run.closed /\ f.there = run.there
  BY <1>1 DEF Ended, RunRecord
<1>3. PICK l \in Seq(Nat), h \in Seq(Nat) : l = run.lines /\ h = run.held
  BY <1>1, Fields
<1>4. f.lines = l \o h
  BY <1>1, <1>3 DEF Ended, RunRecord
<1>5. Len(l) <= Len(f.lines)
  BY <1>4
<1>6. run.last \in Nat /\ run.count \in Nat
  BY <1>1, Sizes
<1>7. LastFits(f)
  BY <1>2, <1>6 DEF LastFits
<1> QED
  BY <1>2, <1>3, <1>5, <1>6, <1>7 DEF Grown

\* No step takes back what was appended, written, ended or pruned, nor whether an
\* entry was appended before its run was closed.
Progress ==
    /\ Latest <= Latest'
    /\ \A r \in 1..Latest :
          /\ runs[r].count <= runs'[r].count /\ Len(runs[r].lines) <= Len(runs'[r].lines)
          /\ runs[r].ended => runs'[r].ended
          /\ runs'[r].there => runs[r].there
    /\ \A x \in Entries : x \in Entries' /\ (Regular(x)' <=> Regular(x))

NoNews == Progress /\ Entries' = Entries

\* Only e was appended, after all of its run, and after every entry there was
\* unless it is a straggler.
News(e) ==
    /\ Progress /\ e \in Entries' /\ Entries' = Entries \cup {e}
    /\ \A x \in Entries : x[1] = e[1] => Before(x, e)
    /\ Regular(e)' =>
          /\ e[1] = Latest' /\ \A x \in Entries : Before(x, e)
          /\ e[1] \in 1..Latest => ~runs[e[1]].ended

Told(r, n) == IF runs'[r].count = n THEN NoNews ELSE News(<<r, n>>)

LEMMA EntryFacts ==
    ASSUME IInv, NEW x \in Entries
    PROVE  /\ x \in Nat \X Nat /\ x[1] \in 1..Latest /\ x[2] \in Nat /\ Latest \in Nat
           /\ x = <<x[1], x[2]>> /\ x[2] < runs[x[1]].count
           /\ runs[x[1]] \in RunRecord
BY DEF Entries, IInv, Latest

LEMMA RunTypes ==
    ASSUME IInv, NEW r \in 1..Latest
    PROVE  /\ runs[r] \in RunRecord /\ GoodRun(runs[r]) /\ Latest \in Nat
           /\ runs[r].count \in Nat /\ runs[r].last \in Nat /\ runs[r].lines \in Seq(Nat)
           /\ Len(runs[r].lines) \in Nat /\ Len(runs[r].queued) \in Nat
           /\ runs[r].closed \in BOOLEAN /\ runs[r].ended \in BOOLEAN /\ runs[r].there \in BOOLEAN
<1>1. runs[r] \in RunRecord /\ GoodRun(runs[r]) /\ Latest \in Nat
  BY DEF IInv, Latest
<1> QED
  BY <1>1, Fields, Sizes

RunCounts ==
    \A r \in 1..Latest :
        /\ runs[r].count \in Nat /\ Len(runs[r].lines) \in Nat
        /\ runs[r].ended \in BOOLEAN /\ runs[r].there \in BOOLEAN

LEMMA RunsCount == IInv => RunCounts
BY RunTypes DEF RunCounts

LEMMA OneRunGrows ==
    ASSUME IInv, StoreInv, IInv', NEW r \in 1..Latest, NEW run, GoodRun(run),
           Grown(runs[r], run), run.count <= MaxEntries,
           runs' = [runs EXCEPT ![r] = run],
           open' = IF open = r /\ run.ended THEN 0 ELSE open,
           NEW n, n = runs[r].count
    PROVE  StoreInv' /\ Told(r, n)
<1>1. /\ Latest' = Latest /\ Latest \in Nat
      /\ \A k \in 1..Latest : runs'[k] = IF k = r THEN run ELSE runs[k]
  BY DEF IInv, Latest
<1>2. \A k \in 1..Latest : LastFits(runs'[k]) /\ runs'[k].count <= MaxEntries
  BY <1>1 DEF StoreInv, Grown
<1>3. ASSUME NEW k \in 1..Latest, k < Latest PROVE runs'[k].closed
  BY <1>1, <1>3 DEF StoreInv, Grown
<1>4. open' = IF Latest > 0 /\ ~runs'[Latest].ended THEN Latest ELSE 0
  <2>1. Latest \in 1..Latest /\ Latest > 0
    BY <1>1
  <2> QED
    BY <1>1, <2>1 DEF StoreInv, Grown
<1>5. StoreInv'
  BY <1>1, <1>2, <1>3, <1>4 DEF StoreInv
<1>6. /\ run.count \in Nat /\ runs[r].count \in Nat
      /\ run.count \in {runs[r].count, runs[r].count + 1} /\ runs'[r] = run
  BY <1>1, RunTypes, Fields DEF GoodRun, Grown
<1>7. ASSUME NEW x \in Entries PROVE x \in Entries' /\ (Regular(x)' <=> Regular(x))
  <2>1. /\ x \in Nat \X Nat /\ x[1] \in 1..Latest /\ x[2] \in Nat
        /\ x[2] < runs[x[1]].count /\ runs[x[1]].count \in Nat
    BY EntryFacts, RunTypes
  <2>2. x[2] < runs'[x[1]].count
    BY <1>1, <1>6, <2>1
  <2>3. x \in Entries'
    BY <1>1, <2>1, <2>2 DEF Entries
  <2>4. CASE x[1] # r
    BY <1>1, <2>1, <2>3, <2>4 DEF Regular
  <2>5. CASE x[1] = r
    BY <1>6, <2>1, <2>3, <2>5 DEF Regular, Grown
  <2> QED
    BY <2>3, <2>4, <2>5
<1>8. Progress
  <2>1. ASSUME NEW k \in 1..Latest
        PROVE  /\ runs[k].count <= runs'[k].count /\ Len(runs[k].lines) <= Len(runs'[k].lines)
               /\ runs[k].ended => runs'[k].ended
               /\ runs'[k].there => runs[k].there
    BY <1>1, <1>6, RunTypes DEF Grown
  <2> QED
    BY <1>1, <1>7, <2>1 DEF Progress
<1>9. CASE run.count = runs[r].count
  <2>1. Entries' = Entries
    BY <1>1, <1>6, <1>9 DEF Entries
  <2> QED
    BY <1>5, <1>6, <1>8, <1>9, <2>1 DEF Told, NoNews
<1>10. CASE run.count = runs[r].count + 1
  <2> DEFINE e == <<r, n>>
  <2>1. e \in Nat \X Nat /\ e[1] = r /\ e[2] = n /\ n = runs[r].count
    BY <1>6
  <2>2. e \in Entries'
    BY <1>1, <1>6, <1>10, <2>1 DEF Entries
  <2>3. ASSUME NEW x \in Entries', x \notin Entries PROVE x = e
    <3>1. x \in Nat \X Nat /\ x[1] \in 1..Latest /\ x[2] < runs'[x[1]].count
          /\ ~(x[2] < runs[x[1]].count)
      BY <1>1, <2>3 DEF Entries
    <3>2. x[1] = r /\ x[2] = n
      BY <1>1, <1>6, <1>10, <3>1
    <3> QED
      BY <3>1, <3>2
  <2>4. Entries' = Entries \cup {e}
    BY <1>7, <2>2, <2>3
  <2>5. ASSUME NEW x \in Entries, x[1] = r PROVE Before(x, e)
    BY <2>1, <2>5, EntryFacts DEF Before
  <2>6. ASSUME Regular(e)'
        PROVE  r = Latest /\ ~runs[r].ended /\ \A x \in Entries : Before(x, e)
    <3>1. ~run.closed \/ runs[r].count < run.last
      BY <1>6, <2>1, <2>6 DEF Regular
    <3>2. runs[r].closed => run.closed /\ run.last = runs[r].last /\ runs[r].last <= runs[r].count
      BY DEF Grown, StoreInv, LastFits
    <3>3. ~runs[r].closed
      BY <3>1, <3>2, RunTypes
    <3>4. r = Latest
      BY <1>1, <3>3 DEF StoreInv
    <3>5. ASSUME NEW x \in Entries PROVE Before(x, e)
      <4>1. x[1] \in 1..Latest
        BY EntryFacts
      <4>2. x[1] = r \/ x[1] < r
        BY <1>1, <3>4, <4>1
      <4> QED
        BY <2>1, <2>5, <4>2 DEF Before
    <3>6. ~runs[r].ended
      BY <3>3, RunTypes DEF GoodRun, RunSettles
    <3> QED
      BY <3>4, <3>5, <3>6
  <2> HIDE DEF e
  <2>7. News(e)
    BY <1>1, <1>8, <2>1, <2>2, <2>4, <2>5, <2>6 DEF News
  <2> QED
    BY <1>5, <1>6, <1>10, <2>7 DEF Told, e
<1> QED
  BY <1>6, <1>9, <1>10

\* p is q, which may have been pruned.
MayBePruned(q, p) ==
    /\ p.count = q.count /\ p.last = q.last /\ p.lines = q.lines /\ p.queued = q.queued
    /\ p.closed = q.closed /\ p.ended = q.ended /\ (p.there => q.there)

LEMMA OneRunAdded ==
    ASSUME IInv, NEW run \in RunRecord, runs' = Pruned(Append(runs, run), openIds')
    PROVE  /\ Latest' = Latest + 1 /\ Latest \in Nat
           /\ \A k \in 1..Latest : MayBePruned(runs[k], runs'[k])
           /\ MayBePruned(run, runs'[Latest + 1])
<1> DEFINE rs == Append(runs, run)
<1>1. /\ rs \in Seq(RunRecord) /\ Len(rs) = Latest + 1 /\ Latest \in Nat
      /\ \A k \in 1..Len(rs) : rs[k] = IF k = Latest + 1 THEN run ELSE runs[k]
  BY DEF IInv, Latest
<1> HIDE DEF rs
<1> DEFINE kept(k) == rs[k].there /\ (k > Len(rs) - Kept \/ k \in openIds')
<1>2. runs' = [k \in 1..Len(rs) |-> [rs[k] EXCEPT !.there = kept(k)]]
  BY DEF Pruned, rs
<1>3. Latest' = Latest + 1
  BY <1>1, <1>2 DEF Latest
<1>4. ASSUME NEW q \in RunRecord, NEW b \in BOOLEAN, b => q.there,
             NEW p, p = [q EXCEPT !.there = b]
      PROVE  MayBePruned(q, p)
  BY <1>4 DEF MayBePruned, RunRecord
<1>5. ASSUME NEW k \in 1..Len(rs) PROVE MayBePruned(rs[k], runs'[k])
  <2>1. kept(k) \in BOOLEAN /\ (kept(k) => rs[k].there) /\ rs[k] \in RunRecord
    BY <1>1
  <2>2. runs'[k] = [rs[k] EXCEPT !.there = kept(k)]
    BY <1>2
  <2> HIDE DEF kept
  <2> QED
    BY <1>4, <2>1, <2>2
<1>6. ASSUME NEW k \in 1..Latest PROVE MayBePruned(runs[k], runs'[k])
  <2>1. k \in 1..Len(rs) /\ rs[k] = runs[k]
    BY <1>1
  <2> QED
    BY <1>5, <2>1
<1>7. MayBePruned(run, runs'[Latest + 1])
  <2>1. Latest + 1 \in 1..Len(rs) /\ rs[Latest + 1] = run
    BY <1>1
  <2> QED
    BY <1>5, <2>1
<1> QED
  BY <1>1, <1>3, <1>6, <1>7

LEMMA AddedGrows ==
    ASSUME IInv, StoreInv, IInv', NEW run, GoodRun(run), LastFits(run), ~run.ended,
           run.count \in {0, 1}, run.closed => run.count = 1 /\ run.last = 1,
           run.count = 1 => run.closed,
           Latest < MaxRuns, MayCreate, open' = Latest + 1,
           runs' = Pruned(Append(runs, run), openIds'), NEW top, top = Latest + 1
    PROVE  StoreInv' /\ IF run.count = 0 THEN NoNews ELSE News(<<top, 0>>)
<1>1. top = Latest + 1
  OBVIOUS
<1>2. /\ Latest' = top /\ Latest \in Nat /\ top \in Nat /\ top \in 1..top /\ top > 0
      /\ \A k \in 1..Latest : MayBePruned(runs[k], runs'[k])
      /\ MayBePruned(run, runs'[top])
  BY <1>1, OneRunAdded DEF GoodRun
<1>3. MaxEntries >= 1 /\ MaxEntries \in Nat /\ MaxRuns \in Nat
  BY LogFollowAssumption
<1>4. ASSUME NEW k \in 1..top
      PROVE  /\ LastFits(runs'[k]) /\ runs'[k].count <= MaxEntries
             /\ k < top => runs'[k].closed
  <2>1. CASE k = top
    <3>1. MayBePruned(run, runs'[k])
      BY <1>2, <2>1
    <3>2. LastFits(runs'[k])
      BY <3>1 DEF MayBePruned, LastFits
    <3> QED
      BY <1>3, <2>1, <3>1, <3>2 DEF MayBePruned
  <2>2. CASE k # top
    <3>1. k \in 1..Latest
      BY <1>1, <1>2, <2>2
    <3>2. LastFits(runs[k]) /\ runs[k].count <= MaxEntries /\ runs[k].closed
      BY <3>1 DEF StoreInv, MayCreate
    <3>3. MayBePruned(runs[k], runs'[k])
      BY <1>2, <3>1
    <3> QED
      BY <3>2, <3>3 DEF MayBePruned, LastFits
  <2> QED
    BY <2>1, <2>2
<1>5. StoreInv'
  <2>1. ~runs'[top].ended
    BY <1>2 DEF MayBePruned
  <2>2. top <= MaxRuns
    BY <1>1, <1>2, <1>3
  <2> QED
    BY <1>1, <1>2, <1>4, <2>1, <2>2 DEF StoreInv
<1>6. ASSUME NEW x \in Entries PROVE x \in Entries' /\ (Regular(x)' <=> Regular(x))
  <2>1. /\ x \in Nat \X Nat /\ x[1] \in 1..Latest /\ x[2] < runs[x[1]].count
    BY EntryFacts
  <2>2. MayBePruned(runs[x[1]], runs'[x[1]]) /\ x[1] \in 1..top
    BY <1>1, <1>2, <2>1
  <2> QED
    BY <1>2, <2>1, <2>2 DEF Entries, Regular, MayBePruned
<1>7. Progress
  <2>1. ASSUME NEW k \in 1..Latest
        PROVE  /\ runs[k].count <= runs'[k].count /\ Len(runs[k].lines) <= Len(runs'[k].lines)
               /\ runs[k].ended => runs'[k].ended
               /\ runs'[k].there => runs[k].there
    BY <1>2, RunTypes DEF MayBePruned
  <2> QED
    BY <1>1, <1>2, <1>6, <2>1 DEF Progress
<1>8. ASSUME NEW x \in Entries', x \notin Entries PROVE x[1] = top /\ x[2] < run.count
  <2>1. x \in Nat \X Nat /\ x[1] \in 1..top /\ x[2] < runs'[x[1]].count
    BY <1>2 DEF Entries
  <2>2. CASE x[1] = top
    BY <1>2, <2>1, <2>2 DEF MayBePruned
  <2>3. CASE x[1] # top
    <3>1. x[1] \in 1..Latest
      BY <1>1, <1>2, <2>1, <2>3
    <3>2. MayBePruned(runs[x[1]], runs'[x[1]])
      BY <1>2, <3>1
    <3> QED
      BY <1>8, <2>1, <3>1, <3>2 DEF MayBePruned, Entries
  <2> QED
    BY <2>2, <2>3
<1>9. CASE run.count = 0
  <2>1. Entries' = Entries
    <3>1. ASSUME NEW x \in Entries' PROVE x \in Entries
      <4>1. x[2] \in Nat
        BY <3>1 DEF Entries
      <4> QED
        BY <1>8, <1>9, <4>1
    <3> QED
      BY <1>6, <3>1
  <2> QED
    BY <1>5, <1>7, <1>9, <2>1 DEF NoNews
<1>10. CASE run.count = 1
  <2>1. PICK e : e = <<top, 0>>
    OBVIOUS
  <2>2. e \in Nat \X Nat /\ e[1] = top /\ e[2] = 0
    BY <1>2, <2>1
  <2>3. e \in Entries'
    BY <1>2, <1>10, <2>2 DEF Entries, MayBePruned
  <2>4. ASSUME NEW x \in Entries', x \notin Entries PROVE x = e
    <3>1. x \in Nat \X Nat
      BY <2>4 DEF Entries
    <3>2. x[1] = top /\ x[2] = 0
      BY <1>8, <1>10, <2>4, <3>1
    <3> QED
      BY <2>1, <3>1, <3>2
  <2>5. ASSUME NEW x \in Entries PROVE x[1] < top
    BY <1>1, <1>2, EntryFacts
  <2>6. ASSUME NEW x \in Entries PROVE Before(x, e)
    BY <2>2, <2>5 DEF Before
  <2>7. Entries' = Entries \cup {e}
    BY <1>6, <2>3, <2>4
  <2>8. News(e)
    BY <1>1, <1>2, <1>7, <2>2, <2>3, <2>6, <2>7 DEF News
  <2> QED
    BY <1>1, <1>5, <1>10, <2>1, <2>8
<1> QED
  BY <1>9, <1>10

\* Either nothing was appended, or one entry, and a live reader hears of it.
Hears == (NoNews /\ NobodyHears) \/ \E e \in Nat \X Nat : News(e) /\ Emit(e)

LEMMA StoreInit == Init => StoreInv
BY LogFollowAssumption DEF Init, StoreInv, Latest

LEMMA StoreCreate ==
    ASSUME IInv, IInv', StoreInv, CreateRun
    PROVE  StoreInv' /\ Hears
<1>1. PICK top \in Nat : top = Latest + 1
  BY DEF IInv, Latest
<1>2. Latest < MaxRuns /\ MayCreate /\ open' = Latest + 1
  BY DEF CreateRun
<1>3. ASSUME runs' = Pruned(Append(runs, NewRun(FALSE)), openIds'), NobodyHears
      PROVE  StoreInv' /\ Hears
  <2>1. PICK n : n = NewRun(FALSE)
    OBVIOUS
  <2>2. GoodRun(n) /\ LastFits(n) /\ ~n.closed /\ ~n.ended /\ n.count = 0
    BY <2>1, NewRunGood DEF NewRun, LastFits
  <2>3. runs' = Pruned(Append(runs, n), openIds')
    BY <1>3, <2>1
  <2>4. /\ n.count \in {0, 1} /\ (n.closed => n.count = 1 /\ n.last = 1)
        /\ (n.count = 1 => n.closed)
    BY <2>2
  <2>5. StoreInv' /\ IF n.count = 0 THEN NoNews ELSE News(<<top, 0>>)
    BY <1>1, <1>2, <2>2, <2>3, <2>4, AddedGrows
  <2> QED
    BY <1>3, <2>2, <2>5 DEF Hears
<1>4. ASSUME runs' = Pruned(Append(runs, Closed(Appended(NewRun(TRUE), 0))), openIds'),
             Emit(<<Latest + 1, 0>>)
      PROVE  StoreInv' /\ Hears
  <2>1. PICK n : n = NewRun(TRUE)
    OBVIOUS
  <2>2. GoodRun(n) /\ LastFits(n) /\ ~n.closed /\ ~n.ended /\ n.count = 0
    BY <2>1, NewRunGood DEF NewRun, LastFits
  <2>3. PICK a : a = Appended(n, n.count)
    OBVIOUS
  <2>4. GoodRun(a) /\ Grown(n, a) /\ ~a.closed /\ ~a.ended /\ a.count = 1
    BY <2>2, <2>3, AppendedGood, AppendedGrows
  <2>5. PICK c : c = Closed(a)
    OBVIOUS
  <2>6. GoodRun(c) /\ Grown(a, c) /\ ~c.ended /\ c.count = 1
    BY <2>4, <2>5, ClosedGood, ClosedGrows DEF Grown
  <2>7. c.closed
    <3>1. a \in RunRecord
      BY <2>4 DEF GoodRun
    <3>2. Flushed(a) \in RunRecord
      BY <2>4, FlushedGood DEF GoodRun
    <3> QED
      BY <2>5, <3>2 DEF Closed, RunRecord
  <2>8. c.last = 1 /\ LastFits(c)
    BY <2>4, <2>6, <2>7 DEF Grown
  <2>9. runs' = Pruned(Append(runs, c), openIds')
    BY <1>4, <2>1, <2>2, <2>3, <2>5
  <2>10. StoreInv' /\ News(<<top, 0>>)
    BY <1>1, <1>2, <2>6, <2>7, <2>8, <2>9, AddedGrows
  <2>11. Emit(<<top, 0>>) /\ <<top, 0>> \in Nat \X Nat
    BY <1>1, <1>4
  <2> QED
    BY <2>10, <2>11 DEF Hears
<1> QED
  BY <1>3, <1>4 DEF CreateRun

LEMMA StoreRun ==
    ASSUME IInv, IInv', StoreInv, NEW r \in 1..Latest,
           AppendEntry(r) \/ FlushPending(r) \/ StreamWrites(r) \/ FinishRun(r) \/ StreamEnded(r)
    PROVE  StoreInv' /\ Hears
<1>1. /\ GoodRun(runs[r]) /\ LastFits(runs[r]) /\ runs[r].count <= MaxEntries
      /\ runs[r].count \in Nat /\ r \in Nat
  BY RunTypes DEF StoreInv
<1>2. PICK n \in Nat : n = runs[r].count
  BY <1>1
<1>3. open = r => ~runs[r].ended
  BY <1>1, RunTypes DEF StoreInv
<1>4. ASSUME NEW run, GoodRun(run), Grown(runs[r], run), run.count = n,
             runs' = [runs EXCEPT ![r] = run],
             open' = IF open = r /\ run.ended THEN 0 ELSE open, NobodyHears
      PROVE  StoreInv' /\ Hears
  <2>1. StoreInv' /\ Told(r, n)
    BY <1>1, <1>2, <1>4, OneRunGrows
  <2>2. runs'[r].count = n
    BY <1>4 DEF IInv, Latest
  <2> QED
    BY <1>4, <2>1, <2>2 DEF Told, Hears
<1>5. ASSUME AppendEntry(r) PROVE StoreInv' /\ Hears
  <2>1. PICK run : run = Appended(runs[r], runs[r].count)
    OBVIOUS
  <2>2. /\ runs' = [runs EXCEPT ![r] = run] /\ open' = open /\ n < MaxEntries
        /\ Emit(<<r, n>>)
    BY <1>2, <1>5, <2>1 DEF AppendEntry
  <2>3. GoodRun(run) /\ Grown(runs[r], run) /\ run.count = n + 1 /\ run.ended = runs[r].ended
    BY <1>1, <1>2, <2>1, AppendedGood, AppendedGrows
  <2>4. n + 1 <= MaxEntries
    BY <2>2, LogFollowAssumption
  <2>5. open' = IF open = r /\ run.ended THEN 0 ELSE open
    BY <1>3, <2>2, <2>3
  <2>6. StoreInv' /\ Told(r, n)
    BY <1>1, <1>2, <2>2, <2>3, <2>4, <2>5, OneRunGrows
  <2>7. runs'[r].count # n /\ <<r, n>> \in Nat \X Nat
    BY <1>1, <2>2, <2>3 DEF IInv, Latest
  <2> QED
    BY <2>2, <2>6, <2>7 DEF Told, Hears
<1>6. ASSUME FlushPending(r) PROVE StoreInv' /\ Hears
  <2>1. PICK run : run = Flushed(runs[r])
    OBVIOUS
  <2>2. runs' = [runs EXCEPT ![r] = run] /\ open' = open /\ NobodyHears
    BY <1>6, <2>1 DEF FlushPending
  <2>3. GoodRun(run) /\ Grown(runs[r], run) /\ run.count = n /\ run.ended = runs[r].ended
    BY <1>1, <1>2, <2>1, FlushedGood, FlushedGrows
  <2> QED
    BY <1>3, <1>4, <2>2, <2>3
<1>7. ASSUME StreamWrites(r) PROVE StoreInv' /\ Hears
  <2>1. PICK run : run = Written(runs[r])
    OBVIOUS
  <2>2. /\ runs' = [runs EXCEPT ![r] = run] /\ open' = open /\ NobodyHears
        /\ runs[r].queued # <<>>
    BY <1>7, <2>1 DEF StreamWrites, Written, IInv, RunRecord, Latest
  <2>3. GoodRun(run) /\ Grown(runs[r], run) /\ run.count = n /\ run.ended = runs[r].ended
    BY <1>1, <1>2, <2>1, <2>2, WrittenGood, WrittenGrows
  <2> QED
    BY <1>3, <1>4, <2>2, <2>3
<1>8. ASSUME FinishRun(r) PROVE StoreInv' /\ Hears
  <2>1. PICK run : run = Closed(runs[r])
    OBVIOUS
  <2>2. runs' = [runs EXCEPT ![r] = run] /\ open' = open /\ ~runs[r].closed /\ NobodyHears
    BY <1>8, <2>1 DEF FinishRun
  <2>3. GoodRun(run) /\ Grown(runs[r], run) /\ run.count = n /\ ~run.ended
    BY <1>1, <1>2, <2>1, <2>2, ClosedGood, ClosedGrows
  <2> QED
    BY <1>4, <2>2, <2>3
<1>9. ASSUME StreamEnded(r) PROVE StoreInv' /\ Hears
  <2>1. PICK run : run = Ended(runs[r])
    OBVIOUS
  <2>2. /\ runs' = [runs EXCEPT ![r] = run] /\ runs[r].closed /\ runs[r].queued = <<>>
        /\ open' = (IF open = r THEN 0 ELSE open) /\ NobodyHears
    BY <1>9, <2>1 DEF StreamEnded, MayEnd, Ended, IInv, RunRecord, Latest
  <2>3. GoodRun(run) /\ Grown(runs[r], run) /\ run.count = n /\ run.ended
    BY <1>1, <1>2, <2>1, <2>2, EndedGood, EndedGrows
  <2> QED
    BY <1>4, <2>2, <2>3
<1> QED
  BY <1>5, <1>6, <1>7, <1>8, <1>9

LEMMA StoreSame ==
    ASSUME IInv, StoreInv, UNCHANGED <<runs, open>>
    PROVE  StoreInv' /\ NoNews
<1>1. Latest' = Latest /\ Latest \in Nat
  BY DEF Latest, IInv
<1>2. Entries' = Entries /\ \A x \in Entries : Regular(x)' <=> Regular(x)
  BY <1>1 DEF Entries, Regular
<1>3. StoreInv'
  BY <1>1 DEF StoreInv
<1>4. Progress
  BY <1>1, <1>2, RunTypes DEF Progress
<1> QED
  BY <1>2, <1>3, <1>4 DEF NoNews

LEMMA StoreReading ==
    ASSUME IInv, IInv', StoreInv, NEW kind, NEW r \in 1..Latest, NEW handle \in BOOLEAN,
           StartReading(kind, r, handle)
    PROVE  StoreInv' /\ NoNews
<1>1. open' = open
  BY DEF StartReading
<1>2. CASE handle
  <2>1. PICK run : run = Flushed(runs[r])
    OBVIOUS
  <2>2. PICK n : n = runs[r].count
    OBVIOUS
  <2>3. /\ runs' = [runs EXCEPT ![r] = run] /\ GoodRun(runs[r]) /\ LastFits(runs[r])
        /\ n <= MaxEntries
    BY <1>2, <2>1, <2>2, RunTypes DEF StartReading, StoreInv
  <2>4. GoodRun(run) /\ Grown(runs[r], run) /\ run.count = n /\ run.ended = runs[r].ended
    BY <2>1, <2>2, <2>3, FlushedGood, FlushedGrows
  <2>5. open = r => ~runs[r].ended
    BY RunTypes DEF StoreInv
  <2>6. StoreInv' /\ Told(r, n)
    BY <1>1, <2>2, <2>3, <2>4, <2>5, OneRunGrows
  <2>7. runs'[r].count = n
    BY <2>3, <2>4 DEF IInv, Latest
  <2> QED
    BY <2>6, <2>7 DEF Told
<1>3. CASE ~handle
  BY <1>1, <1>3, StoreSame DEF StartReading
<1> QED
  BY <1>2, <1>3

-----------------------------------------------------------------------------
(* What a reader holds. *)

\* Entries of one run, and those appended before their runs were closed, are in
\* the order they were appended in.
Sorted(s) ==
    \A i, j \in DOMAIN s :
        i < j /\ (s[i][1] = s[j][1] \/ (Regular(s[i]) /\ Regular(s[j]))) => Before(s[i], s[j])

ReaderTypes ==
    /\ reader \in {"idle", "follow", "query"}
    /\ phase \in {"idle", "flush", "read", "drain", "live", "stopped"}
    /\ reader = "idle" <=> phase = "idle"
    /\ reader # "idle" => source \in 1..Latest
    /\ cut \in Nat /\ need \in Nat /\ tail \in Nat
    /\ backlog \in Seq(Nat \X Nat) /\ buffered \in Seq(Nat \X Nat) /\ out \in Seq(Nat \X Nat)
    /\ reader # "follow" => buffered = <<>>
    /\ reader = "query" => cut = Infinity

\* What a follower must read before the cut is among the first n lines.
Covered(n) == \A e \in Entries : e[1] = source /\ Regular(e) /\ e[2] < cut => e[2] < n

\* flush() waits for enough, and the file has it when reading begins.
FlushInv ==
    /\ reader = "follow" /\ phase \in {"flush", "read"} => runs[source].ended \/ Covered(need)
    /\ phase = "read" => need <= Len(runs[source].lines)

\* Nothing before the cut is appended any more but stragglers of a run that ended.
CutInv == reader = "follow" /\ Reading => cut <= runs[source].count \/ runs[source].ended

\* The buffer has what the replay will not.
BufferFits ==
    /\ Range(buffered) \subseteq Entries
    /\ \A e \in Entries :
          Regular(e) /\ e[1] >= source /\ (e[1] = source => e[2] >= cut) => e \in Range(buffered)
    /\ \A e \in Range(buffered) : Regular(e) => e[1] >= source
    /\ Sorted(buffered)

BufferInv == reader = "follow" /\ Reading => BufferFits

\* The entries m, ..., k - 1 of the source were read.
BacklogFits(m, k) ==
    /\ m <= k /\ k <= cut /\ k <= runs[source].count
    /\ Len(backlog) = k - m
    /\ \A i \in 1..Len(backlog) : backlog[i] = <<source, m + i - 1>>
    /\ tail = All => m = 0
    /\ reader = "query" => need <= k
    /\ reader = "follow" => Covered(k)

BacklogInv == phase = "drain" /\ runs[source].there => \E m, k \in Nat : BacklogFits(m, k)

Had == {e \in Range(out) : Regular(e)}

\* What ReadersMissNothing says, of entries there are.
OutFits ==
    /\ Range(out) \subseteq Entries
    /\ Had \subseteq Wanted
    /\ reader = "follow" =>
          /\ \A e \in Wanted \ Had, f \in Had : Before(e, f)
          /\ tail = All => Had = Wanted
    /\ reader = "query" /\ tail = All =>
          /\ \A e \in Wanted \ Had, f \in Had : Before(f, e)
          /\ Len(out) >= need
    /\ Sorted(out)

OutInv == phase = "live" /\ runs[source].there => OutFits

RInv ==
    /\ StoreInv /\ ReaderTypes
    /\ FlushInv /\ CutInv /\ BufferInv /\ BacklogInv /\ OutInv

LEMMA RangeOf ==
    ASSUME NEW S, NEW s \in Seq(S)
    PROVE  /\ \A i \in DOMAIN s : s[i] \in Range(s)
           /\ \A e \in Range(s) : \E i \in DOMAIN s : s[i] = e
           /\ DOMAIN s = 1..Len(s) /\ Len(s) \in Nat
BY DEF Range

LEMMA RangeAppend ==
    ASSUME NEW s \in Seq(Nat \X Nat), NEW e \in Nat \X Nat
    PROVE  /\ Append(s, e) \in Seq(Nat \X Nat) /\ Range(Append(s, e)) = Range(s) \cup {e}
<1>1. /\ Append(s, e) \in Seq(Nat \X Nat) /\ Len(Append(s, e)) = Len(s) + 1
      /\ DOMAIN Append(s, e) = 1..(Len(s) + 1) /\ DOMAIN s = 1..Len(s) /\ Len(s) \in Nat
      /\ \A i \in 1..Len(s) : Append(s, e)[i] = s[i]
      /\ Append(s, e)[Len(s) + 1] = e
  OBVIOUS
<1>2. ASSUME NEW x \in Range(Append(s, e)) PROVE x \in Range(s) \cup {e}
  <2>1. PICK i \in 1..(Len(s) + 1) : x = Append(s, e)[i]
    BY <1>1, <1>2 DEF Range
  <2>2. i \in 1..Len(s) \/ i = Len(s) + 1
    BY <1>1
  <2> QED
    BY <1>1, <2>1, <2>2 DEF Range
<1>3. ASSUME NEW x \in Range(s) PROVE x \in Range(Append(s, e))
  <2>1. PICK i \in 1..Len(s) : x = s[i]
    BY <1>1, <1>3 DEF Range
  <2>2. i \in 1..(Len(s) + 1) /\ Append(s, e)[i] = x
    BY <1>1, <2>1
  <2> QED
    BY <1>1, <2>2 DEF Range
<1>4. e \in Range(Append(s, e))
  <2>1. Len(s) + 1 \in 1..(Len(s) + 1)
    BY <1>1
  <2> QED
    BY <1>1, <2>1 DEF Range
<1> QED
  BY <1>1, <1>2, <1>3, <1>4

\* x and y may stand one after the other.
Follows(x, y) == x[1] = y[1] \/ (Regular(x) /\ Regular(y)) => Before(x, y)

LEMMA SortedIs ==
    ASSUME NEW s
    PROVE  Sorted(s) <=> \A i, j \in DOMAIN s : i < j => Follows(s[i], s[j])
BY DEF Sorted, Follows

\* An entry goes to the end of what is sorted.
LEMMA SortedMore ==
    ASSUME NEW s \in Seq(Nat \X Nat), NEW e \in Nat \X Nat, Sorted(s),
           \A x \in Range(s) : Follows(x, e)
    PROVE  Sorted(Append(s, e))
<1> DEFINE t == Append(s, e)
<1>1. /\ DOMAIN t = 1..(Len(s) + 1) /\ DOMAIN s = 1..Len(s) /\ Len(s) \in Nat
      /\ \A i \in 1..Len(s) : t[i] = s[i]
      /\ t[Len(s) + 1] = e
  OBVIOUS
<1> HIDE DEF t
<1>2. ASSUME NEW i \in DOMAIN t, NEW j \in DOMAIN t, i < j PROVE Follows(t[i], t[j])
  <2>1. i \in 1..Len(s) /\ t[i] = s[i] /\ s[i] \in Range(s)
    BY <1>1, <1>2 DEF Range
  <2>2. CASE j = Len(s) + 1
    BY <1>1, <2>1, <2>2
  <2>3. CASE j # Len(s) + 1
    <3>1. j \in 1..Len(s) /\ t[j] = s[j]
      BY <1>1, <2>3
    <3> QED
      BY <1>1, <1>2, <2>1, <3>1, SortedIs
  <2> QED
    BY <2>2, <2>3
<1> QED
  BY <1>2, SortedIs DEF t

LEMMA SortedLater ==
    ASSUME NEW s \in Seq(Nat \X Nat), Range(s) \subseteq Entries, Sorted(s), Progress
    PROVE  Sorted(s)'
<1>1. ASSUME NEW i \in DOMAIN s PROVE Regular(s[i])' <=> Regular(s[i])
  <2>1. PICK x : x = s[i]
    OBVIOUS
  <2>2. x \in Entries
    BY <2>1 DEF Range
  <2> QED
    BY <2>1, <2>2 DEF Progress, Regular
<1> QED
  BY <1>1 DEF Sorted, Before

LEMMA SortedNews ==
    ASSUME NEW s \in Seq(Nat \X Nat), Range(s) \subseteq Entries, Sorted(s),
           NEW e \in Nat \X Nat, News(e)
    PROVE  Sorted(Append(s, e))'
<1>1. Sorted(s)'
  BY SortedLater DEF News
<1>2. ASSUME NEW x \in Range(s) PROVE Follows(x, e)'
  <2>1. x \in Entries
    BY <1>2
  <2>2. (x[1] = e[1] => Before(x, e)) /\ (Regular(e)' => Before(x, e))
    BY <2>1 DEF News
  <2> QED
    BY <2>2 DEF Follows, Before
<1> DEFINE t == Append(s, e)
<1>3. /\ DOMAIN t = 1..(Len(s) + 1) /\ DOMAIN s = 1..Len(s) /\ Len(s) \in Nat
      /\ \A i \in 1..Len(s) : t[i] = s[i]
      /\ t[Len(s) + 1] = e
  OBVIOUS
<1> HIDE DEF t
<1>4. ASSUME NEW i \in DOMAIN t, NEW j \in DOMAIN t, i < j
      PROVE  (t[i][1] = t[j][1] \/ (Regular(t[i])' /\ Regular(t[j])')) => Before(t[i], t[j])
  <2>1. i \in 1..Len(s) /\ t[i] = s[i] /\ s[i] \in Range(s)
    BY <1>3, <1>4 DEF Range
  <2>2. CASE j = Len(s) + 1
    BY <1>2, <1>3, <2>1, <2>2 DEF Follows, Regular, Before
  <2>3. CASE j # Len(s) + 1
    <3>1. j \in 1..Len(s) /\ t[j] = s[j]
      BY <1>3, <2>3
    <3>2. i \in DOMAIN s /\ j \in DOMAIN s
      BY <1>3, <2>1, <3>1
    <3>3. (s[i][1] = s[j][1] \/ (Regular(s[i])' /\ Regular(s[j])')) => Before(s[i], s[j])
      BY <1>1, <1>4, <3>2 DEF Sorted, Regular, Before
    <3> QED
      BY <2>1, <3>1, <3>3
  <2> QED
    BY <2>2, <2>3
<1> QED
  BY <1>4 DEF t, Sorted, Before, Regular

LEMMA SortedThen ==
    ASSUME NEW s, Sorted(s)'
    PROVE  /\ buffered' = s => Sorted(buffered)'
           /\ out' = s => Sorted(out)'
<1>1. ASSUME buffered' = s PROVE Sorted(buffered)'
  BY <1>1, Zenon DEF Sorted, Regular, Before
<1>2. ASSUME out' = s PROVE Sorted(out)'
  BY <1>2, Zenon DEF Sorted, Regular, Before
<1> QED
  BY <1>1, <1>2

-----------------------------------------------------------------------------
(* The store goes on while somebody reads. *)

WantedEntries == {e \in Entries : e[1] >= source /\ Regular(e)}

LEMMA WantedIs == IInv /\ source \in 1..Latest => Wanted = WantedEntries
<1> SUFFICES ASSUME IInv, source \in 1..Latest PROVE Wanted = WantedEntries
  OBVIOUS
<1>1. Latest \in Nat /\ \A r \in 1..Latest : runs[r].count \in Nat
  BY RunTypes DEF IInv, Latest
<1>2. ASSUME NEW e \in Wanted PROVE e \in Entries /\ e[1] >= source /\ Regular(e)
  <2>1. PICK r \in source..Latest : e \in {r} \X (0..runs[r].count - 1)
    BY <1>2 DEF Wanted
  <2>2. r \in 1..Latest /\ r \in Nat /\ r >= source
    BY <1>1
  <2>3. e \in Nat \X Nat /\ e[1] = r /\ e[2] < runs[r].count
    BY <1>1, <2>1, <2>2
  <2> QED
    BY <1>2, <2>2, <2>3 DEF Wanted, Entries
<1>3. ASSUME NEW e \in Entries, e[1] >= source, Regular(e) PROVE e \in Wanted
  <2>1. /\ e \in Nat \X Nat /\ e[1] \in source..Latest /\ e[1] \in 1..Latest
        /\ e[2] \in 0..runs[e[1]].count - 1
    BY <1>1, <1>3 DEF Entries
  <2>2. e \in {e[1]} \X (0..runs[e[1]].count - 1)
    BY <2>1
  <2> QED
    BY <1>3, <2>1, <2>2 DEF Wanted
<1> QED
  BY <1>2, <1>3 DEF WantedEntries

\* The reader is where it was, and the run it reads has gone on.
SourceGoesOn ==
    /\ source \in 1..Latest /\ source \in 1..Latest'
    /\ runs[source].ended => runs'[source].ended
    /\ runs'[source].there => runs[source].there
    /\ runs[source].count <= runs'[source].count
    /\ Len(runs[source].lines) <= Len(runs'[source].lines)
    /\ runs[source].count \in Nat /\ runs'[source].count \in Nat
    /\ Len(runs[source].lines) \in Nat /\ Len(runs'[source].lines) \in Nat
    /\ need \in Nat /\ cut \in Nat

LEMMA SourceProgress ==
    ASSUME IInv, IInv', ReaderTypes, Progress, phase # "idle"
    PROVE  SourceGoesOn
<1>1. Latest \in Nat /\ Latest' \in Nat /\ Latest <= Latest'
  BY DEF Progress, IInv, Latest
<1>2. source \in 1..Latest /\ source \in 1..Latest' /\ need \in Nat /\ cut \in Nat
  BY <1>1 DEF ReaderTypes
<1>3. \A r \in 1..Latest' : runs'[r].count \in Nat /\ Len(runs'[r].lines) \in Nat
  <2>1. (IInv => RunCounts)'
    BY RunsCount, PTL
  <2> QED
    BY <2>1 DEF RunCounts
<1>4. runs[source].count \in Nat /\ Len(runs[source].lines) \in Nat
  BY <1>2, RunTypes
<1> QED
  BY <1>2, <1>3, <1>4 DEF Progress, SourceGoesOn

LEMMA NoNewsHeard ==
    ASSUME IInv, RInv, NoNews, NobodyHears, StoreInv', IInv'
    PROVE  RInv'
<1>1. /\ UNCHANGED <<reader, phase, source, cut, need, tail, backlog, buffered, out>>
      /\ Progress /\ Entries' = Entries /\ Latest \in Nat /\ Latest' \in Nat
      /\ Latest <= Latest'
      /\ \A x \in Entries : Regular(x)' <=> Regular(x)
  BY DEF NobodyHears, askedVars, NoNews, Progress, IInv, Latest
<1>2. ReaderTypes'
  BY <1>1 DEF RInv, ReaderTypes
<1>3. ASSUME NEW n PROVE Covered(n)' <=> Covered(n)
  BY <1>1 DEF Covered
<1>4. phase # "idle" => SourceGoesOn
  BY <1>1, SourceProgress DEF RInv
<1>5. FlushInv'
  <2>1. Covered(need)' <=> Covered(need)
    BY <1>1 DEF Covered
  <2> QED
    BY <1>1, <1>4, <2>1 DEF RInv, FlushInv, SourceGoesOn
<1>6. CutInv'
  <2>1. Reading' = Reading /\ (Reading => phase # "idle")
    BY <1>1 DEF Reading
  <2> QED
    BY <1>1, <1>4, <2>1 DEF RInv, CutInv, SourceGoesOn
<1>7. BufferInv'
  <2> SUFFICES ASSUME reader = "follow", Reading PROVE BufferFits'
    BY <1>1 DEF BufferInv, Reading
  <2>1. BufferFits /\ buffered \in Seq(Nat \X Nat)
    BY DEF RInv, BufferInv, ReaderTypes
  <2>2. PICK b \in Seq(Nat \X Nat) : b = buffered
    BY <2>1
  <2>3. Sorted(b)'
    BY <1>1, <2>1, <2>2, SortedLater DEF BufferFits
  <2>4. Sorted(buffered)'
    <3>1. buffered' = b
      BY <1>1, <2>2
    <3> QED
      BY <2>3, <3>1, SortedThen
  <2> QED
    BY <1>1, <2>1, <2>4 DEF BufferFits
<1>8. BacklogInv'
  <2> SUFFICES ASSUME phase = "drain", runs[source].there
               PROVE  \E m, k \in Nat : BacklogFits(m, k)'
    BY <1>1, <1>4 DEF BacklogInv, SourceGoesOn
  <2>1. PICK m \in Nat, k \in Nat : BacklogFits(m, k)
    BY DEF RInv, BacklogInv
  <2>2. k <= runs'[source].count
    BY <1>4, <2>1 DEF BacklogFits, SourceGoesOn
  <2>3. BacklogFits(m, k)'
    BY <1>1, <1>3, <2>1, <2>2 DEF BacklogFits
  <2> QED
    BY <2>3
<1>9. OutInv'
  <2> SUFFICES ASSUME phase = "live", runs[source].there PROVE OutFits'
    BY <1>1, <1>4 DEF OutInv, SourceGoesOn
  <2>1. OutFits /\ out \in Seq(Nat \X Nat) /\ source \in 1..Latest
    BY <1>4 DEF RInv, OutInv, ReaderTypes, SourceGoesOn
  <2>2. PICK o \in Seq(Nat \X Nat) : o = out
    BY <2>1
  <2>3. Sorted(o)'
    BY <1>1, <2>1, <2>2, SortedLater DEF OutFits
  <2>4. Sorted(out)'
    <3>1. out' = o
      BY <1>1, <2>2
    <3> QED
      BY <2>3, <3>1, SortedThen
  <2>5. Had' = Had
    BY <1>1, <2>1 DEF Had, OutFits
  <2>6. Wanted' = Wanted
    <3>1. Wanted = WantedEntries
      BY <2>1, WantedIs
    <3>2. (IInv /\ source \in 1..Latest => Wanted = WantedEntries)'
      BY WantedIs, PTL
    <3>3. (IInv /\ source \in 1..Latest)'
      BY <1>1, <2>1
    <3> QED
      BY <1>1, <3>1, <3>2, <3>3 DEF WantedEntries
  <2> QED
    BY <1>1, <2>1, <2>4, <2>5, <2>6 DEF OutFits
<1> QED
  BY <1>2, <1>5, <1>6, <1>7, <1>8, <1>9 DEF RInv

LEMMA NewsHeard ==
    ASSUME IInv, RInv, IInv', StoreInv', NEW e \in Nat \X Nat, News(e), Emit(e)
    PROVE  RInv'
<1>1. /\ UNCHANGED <<reader, phase, source, cut, need, tail, backlog>>
      /\ Progress /\ Latest \in Nat /\ Latest' \in Nat /\ Latest <= Latest'
      /\ e \in Entries' /\ Entries' = Entries \cup {e}
      /\ \A x \in Entries : Regular(x)' <=> Regular(x)
  BY DEF Emit, askedVars, News, Progress, IInv, Latest
<1>2. /\ reader = "follow" /\ Reading => buffered' = Append(buffered, e) /\ out' = out
      /\ reader = "follow" /\ phase = "live" => out' = Append(out, e) /\ buffered' = buffered
      /\ ~(reader = "follow" /\ Reading) => buffered' = buffered
      /\ ~(reader = "follow" /\ phase = "live") => out' = out
      /\ Reading => phase # "idle" /\ phase # "live"
  BY DEF Emit, Reading
<1>3. Reading' = Reading
  BY <1>1 DEF Reading
<1>4. ReaderTypes /\ e \notin Entries
  <2>1. ASSUME e \in Entries PROVE FALSE
    <3>1. Before(e, e)
      BY <2>1 DEF News
    <3> QED
      BY <3>1 DEF Before
  <2> QED
    BY <2>1 DEF RInv
<1>5. phase # "idle" => SourceGoesOn
  BY <1>1, <1>4, SourceProgress
<1>6. ReaderTypes'
  <2>1. Append(buffered, e) \in Seq(Nat \X Nat) /\ Append(out, e) \in Seq(Nat \X Nat)
    BY <1>4, RangeAppend DEF ReaderTypes
  <2>2. /\ buffered' \in {buffered, Append(buffered, e)} /\ out' \in {out, Append(out, e)}
        /\ reader # "follow" => buffered' = buffered
    BY <1>2
  <2>3. buffered' \in Seq(Nat \X Nat) /\ out' \in Seq(Nat \X Nat)
    BY <1>4, <2>1, <2>2 DEF ReaderTypes
  <2> QED
    BY <1>1, <1>4, <2>2, <2>3 DEF ReaderTypes
<1>7. ASSUME reader = "follow", Reading, e[1] = source, Regular(e)'
      PROVE  e[2] >= cut /\ ~runs[source].ended
  <2>1. SourceGoesOn /\ ~runs[source].ended
    BY <1>2, <1>5, <1>7 DEF News, SourceGoesOn
  <2>2. cut <= runs[source].count
    BY <1>7, <2>1 DEF RInv, CutInv
  <2>3. e[2] >= runs[source].count
    BY <1>4, <1>7, <2>1 DEF SourceGoesOn, Entries
  <2> QED
    BY <2>1, <2>2, <2>3 DEF SourceGoesOn
<1>8. ASSUME NEW n, reader = "follow", Reading, Covered(n) PROVE Covered(n)'
  <2> SUFFICES ASSUME NEW x \in Entries', x[1] = source, Regular(x)', x[2] < cut
               PROVE  x[2] < n
    BY <1>1 DEF Covered
  <2>1. CASE x \in Entries
    BY <1>1, <1>8, <2>1 DEF Covered
  <2>2. CASE x = e
    <3>1. e[2] >= cut /\ e[2] \in Nat /\ cut \in Nat
      BY <1>4, <1>7, <1>8, <2>2 DEF Regular, ReaderTypes
    <3> QED
      BY <2>2, <3>1
  <2> QED
    BY <1>1, <2>1, <2>2
<1>9. FlushInv'
  <2>1. ASSUME reader = "follow", phase \in {"flush", "read"}
        PROVE  runs'[source].ended \/ Covered(need)'
    <3>1. Reading /\ SourceGoesOn
      BY <1>2, <1>5, <2>1 DEF Reading
    <3>2. CASE runs[source].ended
      BY <3>1, <3>2 DEF SourceGoesOn
    <3>3. CASE Covered(need)
      <4>1. PICK n : n = need
        OBVIOUS
      <4>2. Covered(n)'
        BY <1>8, <2>1, <3>1, <3>3, <4>1
      <4> QED
        BY <1>1, <4>1, <4>2 DEF Covered
    <3> QED
      BY <2>1, <3>2, <3>3 DEF RInv, FlushInv
  <2>2. ASSUME phase = "read" PROVE need <= Len(runs'[source].lines)
    BY <1>5, <2>2 DEF RInv, FlushInv, SourceGoesOn
  <2> QED
    BY <1>1, <2>1, <2>2 DEF FlushInv
<1>10. CutInv'
  BY <1>1, <1>2, <1>3, <1>5 DEF RInv, CutInv, SourceGoesOn
<1>11. BufferInv'
  <2> SUFFICES ASSUME reader = "follow", Reading PROVE BufferFits'
    BY <1>1, <1>3 DEF BufferInv
  <2>1. BufferFits /\ buffered \in Seq(Nat \X Nat) /\ SourceGoesOn
    BY <1>2, <1>5 DEF RInv, BufferInv, ReaderTypes
  <2>2. PICK b \in Seq(Nat \X Nat) : b = buffered
    BY <2>1
  <2>3. /\ buffered' = Append(b, e) /\ Range(b) \subseteq Entries /\ Sorted(b)
        /\ Range(Append(b, e)) = Range(b) \cup {e}
    BY <1>2, <2>1, <2>2, RangeAppend DEF BufferFits
  <2>4. Sorted(buffered)'
    BY <2>3, SortedNews, SortedThen
  <2>5. Range(buffered)' = Range(buffered) \cup {e}
    BY <2>2, <2>3
  <2>6. Range(buffered)' \subseteq Entries'
    BY <1>1, <2>1, <2>5 DEF BufferFits
  <2>7. ASSUME NEW x \in Entries', Regular(x)', x[1] >= source, x[1] = source => x[2] >= cut
        PROVE  x \in Range(buffered)'
    BY <1>1, <2>1, <2>5, <2>7 DEF BufferFits
  <2>8. ASSUME NEW x \in Range(buffered)', Regular(x)' PROVE x[1] >= source
    <3>1. CASE x \in Range(buffered)
      BY <1>1, <2>1, <2>8, <3>1 DEF BufferFits
    <3>2. CASE x = e
      <4>1. Regular(e)'
        BY <2>8, <3>2 DEF Regular
      <4>2. e[1] = Latest'
        BY <4>1 DEF News
      <4> QED
        BY <1>1, <2>1, <3>2, <4>2 DEF SourceGoesOn
    <3> QED
      BY <2>5, <2>8, <3>1, <3>2
  <2> QED
    BY <1>1, <2>4, <2>6, <2>7, <2>8 DEF BufferFits
<1>12. BacklogInv'
  <2> SUFFICES ASSUME phase = "drain", runs'[source].there
               PROVE  \E m, k \in Nat : BacklogFits(m, k)'
    BY <1>1 DEF BacklogInv
  <2>1. SourceGoesOn /\ Reading /\ runs[source].there
    BY <1>5 DEF Reading, SourceGoesOn
  <2>2. PICK m \in Nat, k \in Nat : BacklogFits(m, k)
    BY <2>1 DEF RInv, BacklogInv
  <2>3. k <= runs'[source].count
    BY <2>1, <2>2 DEF BacklogFits, SourceGoesOn
  <2>4. reader = "follow" => Covered(k)'
    BY <1>8, <2>1, <2>2 DEF BacklogFits
  <2>5. BacklogFits(m, k)'
    BY <1>1, <2>2, <2>3, <2>4 DEF BacklogFits
  <2> QED
    BY <2>5
<1>13. OutInv'
  <2> SUFFICES ASSUME phase = "live", runs'[source].there PROVE OutFits'
    BY <1>1 DEF OutInv
  <2>1. SourceGoesOn /\ runs[source].there
    BY <1>5 DEF SourceGoesOn
  <2>2. OutFits /\ out \in Seq(Nat \X Nat) /\ source \in 1..Latest
    BY <2>1 DEF RInv, OutInv, ReaderTypes, SourceGoesOn
  <2>3. PICK o \in Seq(Nat \X Nat) : o = out
    BY <2>2
  <2>4. /\ Sorted(o) /\ Range(o) \subseteq Entries
        /\ Range(Append(o, e)) = Range(o) \cup {e}
        /\ reader = "follow" => out' = Append(o, e)
        /\ reader # "follow" => out' = o
    BY <1>2, <2>2, <2>3, RangeAppend DEF OutFits
  <2>5. Sorted(out)'
    <3>1. Sorted(o)' /\ Sorted(Append(o, e))'
      BY <1>1, <2>4, SortedLater, SortedNews
    <3> QED
      BY <2>4, <3>1, SortedThen
  <2>6. Range(out)' = IF reader = "follow" THEN Range(out) \cup {e} ELSE Range(out)
    BY <2>3, <2>4
  <2>7. Range(out)' \subseteq Entries'
    BY <1>1, <2>2, <2>6 DEF OutFits
  <2>8. Wanted' = IF Regular(e)' THEN Wanted \cup {e} ELSE Wanted
    <3>1. Wanted = {x \in Entries : x[1] >= source /\ Regular(x)}
      BY <2>2, WantedIs DEF WantedEntries
    <3>2. (IInv /\ source \in 1..Latest => Wanted = WantedEntries)'
      BY WantedIs, PTL
    <3>3. (IInv /\ source \in 1..Latest)'
      BY <1>1, <2>1 DEF SourceGoesOn
    <3>4. Wanted' = {x \in Entries' : x[1] >= source /\ Regular(x)'}
      BY <1>1, <3>2, <3>3 DEF WantedEntries
    <3>5. Regular(e)' => e[1] >= source
      BY <1>1, <2>1 DEF News, SourceGoesOn
    <3> QED
      BY <1>1, <1>4, <3>1, <3>4, <3>5
  <2>9. Had' = IF Regular(e)' /\ reader = "follow" THEN Had \cup {e} ELSE Had
    <3>1. Had' = {x \in Range(out)' : Regular(x)'}
      BY DEF Had
    <3>2. \A x \in Range(out) : Regular(x)' <=> Regular(x)
      BY <1>1, <2>2 DEF OutFits
    <3>3. e \notin Range(out)
      BY <1>4, <2>2 DEF OutFits
    <3> QED
      BY <2>6, <3>1, <3>2, <3>3 DEF Had
  <2>10. Regular(e)' => \A x \in Had : Before(x, e)
    BY <2>2 DEF News, Had, OutFits
  <2>11. Had' \subseteq Wanted'
    BY <2>2, <2>8, <2>9 DEF OutFits
  <2>12. ASSUME reader = "follow"
         PROVE  /\ \A x \in Wanted' \ Had', y \in Had' : Before(x, y)
                /\ tail = All => Had' = Wanted'
    <3>1. Wanted \subseteq Entries
      BY <2>2, WantedIs DEF WantedEntries
    <3>2. Wanted' \ Had' = Wanted \ Had
      BY <1>4, <2>8, <2>9, <2>12, <3>1
    <3>3. \A x \in Wanted : Regular(e)' => Before(x, e)
      BY <3>1 DEF News
    <3> QED
      BY <2>2, <2>8, <2>9, <2>12, <3>2, <3>3 DEF OutFits
  <2>13. ASSUME reader = "query", tail = All
         PROVE  /\ \A x \in Wanted' \ Had', y \in Had' : Before(y, x)
                /\ Len(out') >= need
    BY <2>2, <2>3, <2>4, <2>8, <2>9, <2>10, <2>13 DEF OutFits
  <2> QED
    BY <1>1, <2>5, <2>7, <2>11, <2>12, <2>13 DEF OutFits, Before
<1> QED
  BY <1>6, <1>9, <1>10, <1>11, <1>12, <1>13 DEF RInv

-----------------------------------------------------------------------------
(* The reader reads. *)

LEMMA CountFits ==
    ASSUME IInv, StoreInv, NEW r \in 1..Latest
    PROVE  All \in Nat /\ runs[r].count <= All
<1>1. MaxRuns \in Nat /\ MaxEntries \in Nat /\ Latest \in Nat
  BY LogFollowAssumption DEF IInv, Latest
<1>2. MaxRuns >= 1 /\ runs[r].count <= MaxEntries /\ runs[r].count \in Nat
  BY <1>1, RunTypes DEF StoreInv
<1>3. ASSUME NEW a \in Nat, NEW b \in Nat, a >= 1 PROVE a * b \in Nat /\ b <= a * b
  BY <1>3
<1> QED
  BY <1>1, <1>2, <1>3 DEF All

LEMMA LineFacts ==
    ASSUME IInv, StoreInv, NEW r \in 1..Latest
    PROVE  /\ Len(runs[r].lines) <= runs[r].count /\ runs[r].lines \in Seq(Nat)
           /\ \A i \in 1..Len(runs[r].lines) : runs[r].lines[i] = i - 1
           /\ runs[r].ended => Len(runs[r].lines) = runs[r].count
           /\ ~runs[r].closed => runs[r].count =
                  Len(runs[r].lines) + Len(runs[r].queued) + Len(runs[r].pending)
           /\ runs[r].closed /\ ~runs[r].ended =>
                  runs[r].last = Len(runs[r].lines) + Len(runs[r].queued)
           /\ Len(runs[r].lines) \in Nat /\ Len(runs[r].queued) \in Nat
           /\ Len(runs[r].pending) \in Nat /\ runs[r].count \in Nat
<1>1. GoodRun(runs[r]) /\ LastFits(runs[r])
  BY RunTypes DEF StoreInv
<1>2. PICK l \in Seq(Nat), q \in Seq(Nat), p \in Seq(Nat), h \in Seq(Nat), n \in Nat :
          /\ l = runs[r].lines /\ q = runs[r].queued /\ p = runs[r].pending
          /\ h = runs[r].held /\ n = runs[r].count
  BY <1>1, Fields DEF GoodRun
<1>3. CountsFrom(l, 0) /\ n = Len(l) + Len(q) + Len(p) + Len(h)
  BY <1>1, <1>2 DEF GoodRun, RunInOrder, InOrder
<1>4. \A i \in 1..Len(l) : l[i] = i - 1
  BY <1>3 DEF CountsFrom
<1>5. Len(l) <= n
  BY <1>3
<1>6. ASSUME runs[r].ended PROVE Len(l) = n
  <2>1. p = <<>> /\ q = <<>> /\ h = <<>>
    BY <1>1, <1>2, <1>6 DEF GoodRun, RunSettles
  <2> QED
    BY <1>3, <2>1
<1>7. ASSUME ~runs[r].closed PROVE n = Len(l) + Len(q) + Len(p)
  <2>1. h = <<>>
    BY <1>1, <1>2, <1>7 DEF GoodRun, RunSettles
  <2> QED
    BY <1>3, <2>1
<1>8. runs[r].closed /\ ~runs[r].ended => runs[r].last = Len(l) + Len(q)
  BY <1>1, <1>2 DEF LastFits
<1>9. Len(l) \in Nat /\ Len(q) \in Nat /\ Len(p) \in Nat
  OBVIOUS
<1> QED
  BY <1>2, <1>4, <1>5, <1>6, <1>7, <1>8, <1>9

\* What flush() waits for.
LEMMA NeedIsNat ==
    ASSUME IInv, StoreInv, NEW r \in 1..Latest
    PROVE  /\ Len(runs[r].lines) + Len(runs[r].queued) + Len(runs[r].pending) \in Nat
           /\ Len(runs[r].lines) + Len(runs[r].queued)
                  <= Len(runs[r].lines) + Len(runs[r].queued) + Len(runs[r].pending)
<1>1. PICK l \in Nat, q \in Nat, p \in Nat :
          l = Len(runs[r].lines) /\ q = Len(runs[r].queued) /\ p = Len(runs[r].pending)
  BY LineFacts
<1>2. l + q + p \in Nat /\ l + q <= l + q + p
  OBVIOUS
<1> QED
  BY <1>1, <1>2

LEMMA ReaderInit == Init => RInv
<1> SUFFICES ASSUME Init PROVE RInv
  OBVIOUS
<1>1. All \in Nat
  BY LogFollowAssumption
<1>2. ReaderTypes
  BY <1>1 DEF Init, ReaderTypes
<1> QED
  BY <1>2, StoreInit
  DEF Init, RInv, FlushInv, CutInv, BufferInv, BacklogInv, OutInv, Reading

LEMMA ReaderFollow ==
    ASSUME IInv, RInv, IInv', Follow
    PROVE  RInv'
<1>1. PICK r : r = IF open # 0 THEN open ELSE Latest
  OBVIOUS
<1>2. PICK handle \in BOOLEAN : handle <=> open # 0
  OBVIOUS
<1>3. /\ Latest \in Nat /\ r = Latest /\ r \in 1..Latest
      /\ handle => ~runs[r].ended
      /\ ~handle => runs[r].ended
  BY <1>1, <1>2 DEF Follow, IInv, Latest, RInv, StoreInv
<1>4. StartReading("follow", r, handle) /\ cut' = IF handle THEN runs[r].count ELSE Infinity
  BY <1>1, <1>2 DEF Follow, Cut
<1>5. StoreInv' /\ NoNews
  BY <1>3, <1>4, StoreReading DEF RInv
<1>6. /\ Progress /\ Entries' = Entries /\ Latest' \in Nat /\ Latest <= Latest'
      /\ \A x \in Entries : Regular(x)' <=> Regular(x)
  BY <1>5 DEF NoNews, Progress, IInv, Latest
<1>7. /\ reader = "idle" /\ reader' = "follow" /\ source' = r /\ tail' \in Tails
      /\ UNCHANGED <<backlog, buffered, out>>
      /\ handle => phase' = "flush" /\
             need' = Len(runs[r].lines) + Len(runs[r].queued) + Len(runs[r].pending)
      /\ ~handle => phase' = "read" /\ need' = 0
  BY <1>4 DEF StartReading
<1>8. All \in Nat /\ runs[r].count <= All /\ runs[r].count \in Nat /\ Tails \subseteq Nat
  BY <1>3, CountFits, RunTypes, LogFollowAssumption DEF RInv
<1>9. buffered' = <<>>
  BY <1>7 DEF RInv, ReaderTypes
<1>10. ReaderTypes'
  <2>1. cut' \in Nat
    BY <1>4, <1>8 DEF Infinity
  <2>2. need' \in Nat
    <3>1. Len(runs[r].lines) + Len(runs[r].queued) + Len(runs[r].pending) \in Nat
      BY <1>3, NeedIsNat DEF RInv
    <3>2. ASSUME handle PROVE need' \in Nat
      BY <1>7, <3>1, <3>2, Zenon
    <3>3. ASSUME ~handle PROVE need' \in Nat
      BY <1>7, <3>3
    <3> QED
      BY <3>2, <3>3
  <2>3. phase' \in {"flush", "read"}
    BY <1>7
  <2>4. source' \in 1..Latest'
    BY <1>3, <1>6, <1>7
  <2>5. /\ backlog' \in Seq(Nat \X Nat) /\ buffered' \in Seq(Nat \X Nat)
        /\ out' \in Seq(Nat \X Nat)
    BY <1>7 DEF RInv, ReaderTypes
  <2> QED
    BY <1>7, <1>8, <2>1, <2>2, <2>3, <2>4, <2>5 DEF ReaderTypes
<1>11. FlushInv'
  <2>1. CASE handle
    <3>1. ASSUME NEW x \in Entries', x[1] = r, Regular(x)', x[2] < cut' PROVE x[2] < need'
      <4>1. x \in Entries /\ Regular(x) /\ x[2] \in Nat /\ x[2] < runs[r].count
        BY <1>4, <1>6, <2>1, <3>1 DEF Entries
      <4>2. CASE ~runs[r].closed
        BY <1>3, <1>7, <2>1, <4>1, <4>2, LineFacts DEF RInv
      <4>3. CASE runs[r].closed
        <5>1. x[2] < runs[r].last
          BY <3>1, <4>1, <4>3 DEF Regular
        <5>2. runs[r].last = Len(runs[r].lines) + Len(runs[r].queued)
          BY <1>3, <2>1, <4>3, LineFacts DEF RInv
        <5>3. need' \in Nat /\ runs[r].last <= need'
          BY <1>3, <1>7, <2>1, <5>2, NeedIsNat DEF RInv
        <5>4. runs[r].last \in Nat
          BY <1>3, RunTypes
        <5> QED
          BY <4>1, <5>1, <5>3, <5>4
      <4> QED
        BY <4>2, <4>3
    <3>2. Covered(need)'
      BY <1>7, <3>1 DEF Covered
    <3> QED
      BY <1>7, <2>1, <3>2 DEF FlushInv
  <2>2. CASE ~handle
    <3>1. runs'[r].ended /\ Len(runs'[r].lines) \in Nat
      BY <1>3, <1>4, <1>6, <2>2, RunTypes DEF Progress, StartReading
    <3> QED
      BY <1>7, <2>2, <3>1 DEF FlushInv
  <2> QED
    BY <2>1, <2>2
<1>12. CutInv'
  <2>1. CASE handle
    BY <1>3, <1>4, <1>6, <1>7, <2>1 DEF CutInv, Progress
  <2>2. CASE ~handle
    BY <1>3, <1>6, <1>7, <2>2 DEF CutInv, Progress
  <2> QED
    BY <2>1, <2>2
<1>13. BufferInv'
  <2>1. Range(buffered)' = {} /\ Sorted(buffered)'
    BY <1>9 DEF Range, Sorted
  <2>2. ASSUME NEW x \in Entries', x[1] >= r, x[1] = r => x[2] >= cut' PROVE FALSE
    <3>1. x[1] = r /\ x[2] < runs[r].count /\ x[2] \in Nat
      BY <1>3, <1>6, <2>2 DEF Entries
    <3> QED
      BY <1>4, <1>8, <2>2, <3>1 DEF Infinity
  <2> QED
    BY <1>7, <2>1, <2>2 DEF BufferInv, BufferFits
<1>14. phase' # "drain" /\ phase' # "live"
  BY <1>7
<1> QED
  BY <1>5, <1>10, <1>11, <1>12, <1>13, <1>14 DEF RInv, BacklogInv, OutInv

LEMMA ReaderQuery ==
    ASSUME IInv, RInv, IInv', Query
    PROVE  RInv'
<1>1. PICK r \in 1..Latest : StartReading("query", r, open = r)
  BY DEF Query
<1>2. PICK handle \in BOOLEAN : handle <=> open = r
  OBVIOUS
<1>3. StartReading("query", r, handle) /\ cut' = Infinity
  BY <1>1, <1>2 DEF Query, StartReading
<1>4. StoreInv' /\ NoNews
  BY <1>3, StoreReading DEF RInv
<1>5. Latest' \in Nat /\ Latest <= Latest' /\ Latest \in Nat
  BY <1>4 DEF NoNews, Progress, IInv, Latest
<1>6. /\ reader = "idle" /\ reader' = "query" /\ source' = r /\ tail' \in Tails
      /\ UNCHANGED <<backlog, buffered, out>>
      /\ handle => phase' = "flush" /\
             need' = Len(runs[r].lines) + Len(runs[r].queued) + Len(runs[r].pending)
      /\ ~handle => phase' = "read" /\ need' = 0 /\ runs' = runs
  BY <1>3 DEF StartReading
<1>7. All \in Nat /\ Tails \subseteq Nat
  BY CountFits, LogFollowAssumption DEF RInv
<1>8. ReaderTypes'
  <2>1. cut' \in Nat
    BY <1>3, <1>7 DEF Infinity
  <2>2. need' \in Nat
    <3>1. Len(runs[r].lines) + Len(runs[r].queued) + Len(runs[r].pending) \in Nat
      BY NeedIsNat DEF RInv
    <3>2. ASSUME handle PROVE need' \in Nat
      BY <1>6, <3>1, <3>2, Zenon
    <3>3. ASSUME ~handle PROVE need' \in Nat
      BY <1>6, <3>3
    <3> QED
      BY <3>2, <3>3
  <2>3. phase' \in {"flush", "read"}
    BY <1>6
  <2>4. source' \in 1..Latest'
    BY <1>5, <1>6
  <2>5. /\ backlog' \in Seq(Nat \X Nat) /\ buffered' = <<>> /\ buffered' \in Seq(Nat \X Nat)
        /\ out' \in Seq(Nat \X Nat)
    BY <1>6 DEF RInv, ReaderTypes
  <2>6. Infinity' = Infinity
    BY DEF Infinity, All
  <2> QED
    BY <1>3, <1>6, <1>7, <2>1, <2>2, <2>3, <2>4, <2>5, <2>6 DEF ReaderTypes
<1>9. FlushInv'
  <2>1. phase' = "read" => need' = 0 /\ runs' = runs
    BY <1>6
  <2>2. Len(runs[r].lines) \in Nat
    BY RunTypes
  <2> QED
    BY <1>6, <2>1, <2>2 DEF FlushInv
<1> QED
  BY <1>4, <1>6, <1>8, <1>9
  DEF RInv, CutInv, BufferInv, BacklogInv, OutInv

(* Induction, stated for a set instead of an operator. *)

\* The least number outside the set would have its predecessor inside.
LEMMA NatSetInduction ==
    ASSUME NEW T, 0 \in T, \A n \in Nat : n \in T => n + 1 \in T
    PROVE  Nat \subseteq T
<1> DEFINE R == {ss \in Nat \X Nat : ss[1] < ss[2]}
<1>1. SUFFICES ASSUME Nat \ T # {} PROVE FALSE
  OBVIOUS
<1>2. IsWellFoundedOn(R, Nat)
  BY NatLessThanWellFounded, Zenon DEF OpToRel
<1>3. \A x \in Nat, y \in Nat : y < x => <<y, x>> \in R
  OBVIOUS
<1> HIDE DEF R
<1>4. PICK x \in Nat \ T : \A y \in Nat \ T : <<y, x>> \notin R
  BY <1>1, <1>2, WFMin
<1>5. x - 1 \in Nat /\ x - 1 \notin T
  <2>1. x # 0 /\ x \in Nat
    BY <1>4
  <2>2. x - 1 \in T => (x - 1) + 1 \in T
    BY <2>1
  <2> QED
    BY <1>4, <2>1, <2>2
<1>6. <<x - 1, x>> \in R
  BY <1>3, <1>4, <1>5
<1> QED
  BY <1>4, <1>5, <1>6

\* A finite set of numbers has a greatest.
LEMMA MaxIsMax ==
    ASSUME NEW n \in Nat, NEW S \in SUBSET (1..n), S # {}
    PROVE  Max(S) \in S /\ \A y \in S : Max(S) >= y
<1> DEFINE T == {k \in Nat : \A U \in SUBSET (1..k) : U # {} => \E x \in U : \A y \in U : x >= y}
<1>1. 0 \in T
  <2>1. 1..0 = {}
    OBVIOUS
  <2> QED
    BY <2>1
<1>2. ASSUME NEW k \in Nat, k \in T PROVE k + 1 \in T
  <2>1. ASSUME NEW U \in SUBSET (1..(k + 1)), U # {} PROVE \E x \in U : \A y \in U : x >= y
    <3>1. CASE k + 1 \in U
      BY <3>1
    <3>2. CASE k + 1 \notin U
      <4>1. U \in SUBSET (1..k)
        BY <3>2
      <4> QED
        BY <2>1, <4>1, <1>2
    <3> QED
      BY <3>1, <3>2
  <2> QED
    BY <2>1
<1>3. n \in T
  BY <1>1, <1>2, NatSetInduction
<1> QED
  BY <1>3 DEF Max

LEMMA Interval ==
    ASSUME NEW k \in Nat \ {0}
    PROVE  1..k # {} /\ Max(1..k) = k /\ (1..k) \ {k} = 1..(k - 1)
<1>1. k \in Nat /\ k \in 1..k
  OBVIOUS
<1>2. Max(1..k) \in 1..k /\ Max(1..k) >= k
  BY <1>1, MaxIsMax
<1> QED
  BY <1>1, <1>2

DeliveredFrom(base, p) == FoldLeft(Delivered, base, p)

\* A fold from the left, step by step.
LEMMA DeliveredIs ==
    ASSUME NEW base, NEW p, NEW n \in Nat, DOMAIN p = 1..n
    PROVE  \E g : /\ g[0] = base /\ g[n] = DeliveredFrom(base, p)
                  /\ \A k \in 1..n : g[k] = Delivered(g[k - 1], p[k])
<1> DEFINE Rec(f, k) == f = [s \in SUBSET (1..k) |-> IF s = {} THEN base ELSE Delivered(f[s \ {Max(s)}], p[Max(s)])]
           T == {k \in Nat : \E f : Rec(f, k)}
           iter == CHOOSE f : Rec(f, n)
<1>1. 0 \in T
  <2> DEFINE f == [s \in SUBSET (1..0) |-> base]
  <2>1. Rec(f, 0)
    OBVIOUS
  <2> QED
    BY <2>1
<1>2. ASSUME NEW k \in Nat, k \in T PROVE k + 1 \in T
  <2>1. PICK f : Rec(f, k)
    BY <1>2
  <2> DEFINE g == [s \in SUBSET (1..(k + 1)) |->
                     IF s = {} THEN base ELSE Delivered(f[s \ {Max(s)}], p[Max(s)])]
  <2>2. ASSUME NEW s \in SUBSET (1..(k + 1)), s # {}
        PROVE  s \ {Max(s)} \in SUBSET (1..k)
    <3>1. Max(s) \in s /\ \A y \in s : Max(s) >= y
      <4>1. k + 1 \in Nat
        OBVIOUS
      <4> HIDE DEF T, iter, g
      <4> QED
        BY <2>2, <4>1, MaxIsMax
    <3>2. ASSUME NEW x \in s \ {Max(s)} PROVE x \in 1..k
      <4>1. x <= Max(s) /\ x # Max(s) /\ Max(s) \in 1..(k + 1) /\ x \in 1..(k + 1)
        BY <3>1, <3>2
      <4> QED
        BY <4>1
    <3> QED
      BY <3>2
  <2>3. ASSUME NEW s \in SUBSET (1..k) PROVE g[s] = f[s]
    <3>1. s \in SUBSET (1..(k + 1))
      OBVIOUS
    <3>2. f[s] = IF s = {} THEN base ELSE Delivered(f[s \ {Max(s)}], p[Max(s)])
      <4>1. f = [t \in SUBSET (1..k) |-> IF t = {} THEN base ELSE Delivered(f[t \ {Max(t)}], p[Max(t)])]
        BY <2>1
      <4> QED
        BY <4>1, Zenon
    <3> QED
      BY <3>1, <3>2, Zenon
  <2>4. \A s \in SUBSET (1..(k + 1)) : s # {} => f[s \ {Max(s)}] = g[s \ {Max(s)}]
    BY <2>2, <2>3, Zenon
  <2>5. Rec(g, k + 1)
    <3> DEFINE h == g
    <3>1. g = [s \in SUBSET (1..(k + 1)) |->
                 IF s = {} THEN base ELSE Delivered(h[s \ {Max(s)}], p[Max(s)])]
      BY <2>4, Zenon
    <3> QED
      BY <3>1, Zenon
  <2> HIDE DEF g, Rec
  <2> QED
    BY <2>5
<1>3. \E f : Rec(f, n)
  BY <1>1, <1>2, NatSetInduction
<1>4. Rec(iter, n)
  BY <1>3
<1>5. DeliveredFrom(base, p) = iter[1..n]
  BY DEF DeliveredFrom, FoldLeft, MapThenFoldSet
<1> HIDE DEF iter, T
<1> DEFINE g == [k \in 0..n |-> iter[1..k]]
<1>6. iter[1..0] = base
  <2>1. 1..0 = {} /\ {} \in SUBSET (1..n)
    OBVIOUS
  <2>2. iter[{}] = base
    BY <1>4, <2>1, Zenon
  <2> QED
    BY <2>1, <2>2, Zenon
<1>7. ASSUME NEW k \in 1..n PROVE iter[1..k] = Delivered(iter[1..(k - 1)], p[k])
  <2>1. 1..k \in SUBSET (1..n) /\ 1..k # {} /\ Max(1..k) = k /\ (1..k) \ {k} = 1..(k - 1)
    <3>1. k \in Nat \ {0} /\ 1..k \in SUBSET (1..n)
      OBVIOUS
    <3> QED
      BY <3>1, Interval
  <2>2. iter[1..k] = Delivered(iter[(1..k) \ {Max(1..k)}], p[Max(1..k)])
    BY <1>4, <2>1, Zenon
  <2> QED
    BY <2>1, <2>2, Zenon
<1>8. g[0] = base /\ g[n] = DeliveredFrom(base, p)
  BY <1>5, <1>6
<1>9. \A k \in 1..n : g[k] = Delivered(g[k - 1], p[k])
  BY <1>7
<1> HIDE DEF g
<1> QED
  BY <1>8, <1>9

\* The first k of p that are not replayed have been delivered after a.
DeliveredSoFar(a, p, k, d) ==
    /\ d \in Seq(Nat \X Nat) /\ Sorted(d)
    /\ \A y : y \in Range(d) <=>
          y \in Range(a) \/ \E j \in 1..k : p[j] = y /\ ~IsReplayed(y)

OneByOne(a, p) ==
    \E g : /\ g[0] = a /\ g[Len(p)] = DeliveredFrom(a, p)
           /\ \A k \in 1..Len(p) : g[k] = Delivered(g[k - 1], p[k])

LEMMA DeliveredOfSeq ==
    ASSUME NEW S, NEW p \in Seq(S), NEW a
    PROVE  OneByOne(a, p)
<1>1. Len(p) \in Nat /\ DOMAIN p = 1..Len(p)
  OBVIOUS
<1> QED
  BY <1>1, DeliveredIs DEF OneByOne

LEMMA Deliveries ==
    ASSUME NEW a \in Seq(Nat \X Nat), NEW p \in Seq(Nat \X Nat), Sorted(a), Sorted(p),
           \A x \in Range(a), y \in Range(p) : ~IsReplayed(y) => Follows(x, y)
    PROVE  DeliveredSoFar(a, p, Len(p), DeliveredFrom(a, p))
<1>1. PICK n \in Nat : n = Len(p) /\ DOMAIN p = 1..n
  OBVIOUS
<1>2. PICK g : /\ g[0] = a /\ g[n] = DeliveredFrom(a, p)
               /\ \A k \in 1..n : g[k] = Delivered(g[k - 1], p[k])
  <2>1. PICK S : p \in Seq(S)
    OBVIOUS
  <2>2. OneByOne(a, p)
    BY <2>1, DeliveredOfSeq
  <2> QED
    BY <1>1, <2>2 DEF OneByOne
<1> DEFINE T == {k \in Nat : k <= n => DeliveredSoFar(a, p, k, g[k])}
<1>3. 0 \in T
  BY <1>2 DEF DeliveredSoFar
<1>4. ASSUME NEW k \in Nat, k \in T PROVE k + 1 \in T
  <2> SUFFICES ASSUME k + 1 <= n PROVE DeliveredSoFar(a, p, k + 1, g[k + 1])
    OBVIOUS
  <2>1. PICK s \in Seq(Nat \X Nat) : s = g[k]
    BY <1>4 DEF DeliveredSoFar
  <2>2. /\ Sorted(s)
        /\ \A y : y \in Range(s) <=>
              y \in Range(a) \/ \E j \in 1..k : p[j] = y /\ ~IsReplayed(y)
    BY <1>4, <2>1 DEF DeliveredSoFar
  <2>3. PICK e \in Nat \X Nat : e = p[k + 1] /\ k + 1 \in 1..n /\ e \in Range(p)
    <3>1. k + 1 \in 1..n
      BY <1>1
    <3>2. p[k + 1] \in Nat \X Nat
      BY <1>1, <3>1
    <3>3. p[k + 1] \in Range(p)
      BY <1>1, <3>1, RangeOf
    <3> QED
      BY <3>1, <3>2, <3>3
  <2>4. g[k + 1] = IF IsReplayed(e) THEN s ELSE Append(s, e)
    <3>1. g[k + 1] = Delivered(g[(k + 1) - 1], p[k + 1])
      BY <1>2, <2>3
    <3>2. (k + 1) - 1 = k
      OBVIOUS
    <3> QED
      BY <2>1, <2>3, <3>1, <3>2 DEF Delivered
  <2>5. \A y : (\E j \in 1..(k + 1) : p[j] = y /\ ~IsReplayed(y)) <=>
               \/ \E j \in 1..k : p[j] = y /\ ~IsReplayed(y)
               \/ y = e /\ ~IsReplayed(e)
    <3>1. /\ \A j \in 1..(k + 1) : j \in 1..k \/ j = k + 1
          /\ \A j \in 1..k : j \in 1..(k + 1)
          /\ k + 1 \in 1..(k + 1)
      OBVIOUS
    <3> QED
      BY <2>3, <3>1
  <2>6. CASE IsReplayed(e)
    BY <2>1, <2>2, <2>4, <2>5, <2>6 DEF DeliveredSoFar
  <2>7. CASE ~IsReplayed(e)
    <3>1. ASSUME NEW x \in Range(s) PROVE Follows(x, e)
      <4>1. CASE x \in Range(a)
        BY <2>3, <2>7, <4>1
      <4>2. CASE x \notin Range(a)
        <5>1. PICK j \in 1..k : p[j] = x
          BY <2>2, <3>1, <4>2
        <5>2. j \in DOMAIN p /\ k + 1 \in DOMAIN p /\ j < k + 1
          BY <1>1, <2>3, <5>1
        <5>3. Follows(p[j], p[k + 1])
          BY <5>2, SortedIs
        <5> QED
          BY <2>3, <5>1, <5>3
      <4> QED
        BY <4>1, <4>2
    <3>2. Sorted(Append(s, e)) /\ Append(s, e) \in Seq(Nat \X Nat)
          /\ Range(Append(s, e)) = Range(s) \cup {e}
      BY <2>2, <3>1, SortedMore, RangeAppend
    <3>3. \A y : y \in Range(Append(s, e)) <=>
              y \in Range(a) \/ \E j \in 1..(k + 1) : p[j] = y /\ ~IsReplayed(y)
      BY <2>2, <2>5, <2>7, <3>2
    <3>4. g[k + 1] = Append(s, e)
      BY <2>4, <2>7
    <3> QED
      BY <3>2, <3>3, <3>4 DEF DeliveredSoFar
  <2> QED
    BY <2>6, <2>7
<1>5. n \in T
  <2> HIDE DEF T
  <2> QED
    BY <1>3, <1>4, NatSetInduction
<1> QED
  BY <1>1, <1>2, <1>5

LEMMA NothingBuffered ==
    ASSUME NEW a
    PROVE  DeliveredFrom(a, <<>>) = a
<1>1. PICK p, n : p = <<>> /\ n = 0 /\ n \in Nat /\ DOMAIN p = 1..n
  OBVIOUS
<1>2. SUFFICES ASSUME DeliveredFrom(a, p) # a PROVE FALSE
  BY <1>1
<1>3. PICK g : g[0] = a /\ g[n] = DeliveredFrom(a, p)
  BY <1>1, <1>2, DeliveredIs
<1> QED
  BY <1>1, <1>2, <1>3

-----------------------------------------------------------------------------
(* From the file to the listener. *)

LEMMA ReaderFlushDone ==
    ASSUME IInv, RInv, FlushDone
    PROVE  RInv'
<1>1. /\ UNCHANGED <<runs, open, openIds, reader, source, cut, need, tail, backlog, buffered, out>>
      /\ phase = "flush" /\ phase' = "read" /\ need <= Len(runs[source].lines)
  BY RunTypes DEF FlushDone, storeVars, askedVars, RInv, ReaderTypes
<1>2. StoreInv' /\ Entries' = Entries /\ Latest' = Latest
  BY <1>1, StoreSame DEF RInv, NoNews, Latest
<1>3. ReaderTypes'
  BY <1>1, <1>2 DEF RInv, ReaderTypes, Infinity, All
<1>4. FlushInv'
  BY <1>1, <1>2 DEF RInv, FlushInv, Covered, Regular
<1>5. CutInv'
  BY <1>1 DEF RInv, CutInv, Reading
<1>6. BufferInv'
  BY <1>1, <1>2 DEF RInv, BufferInv, BufferFits, Reading, Sorted, Regular, Before
<1> QED
  BY <1>1, <1>2, <1>3, <1>4, <1>5, <1>6 DEF RInv, BacklogInv, OutInv

LEMMA ReaderUnsubscribe ==
    ASSUME IInv, RInv, Unsubscribe
    PROVE  RInv'
<1>1. /\ UNCHANGED <<runs, open, openIds, reader, source, cut, need, tail, out>>
      /\ reader = "follow" /\ phase' = "stopped" /\ buffered' = <<>> /\ backlog' = <<>>
  BY DEF Unsubscribe, storeVars, askedVars
<1>2. StoreInv' /\ Latest' = Latest
  BY <1>1, StoreSame DEF RInv, Latest
<1>3. ReaderTypes'
  BY <1>1, <1>2 DEF RInv, ReaderTypes, Infinity, All
<1> QED
  BY <1>1, <1>2, <1>3
  DEF RInv, FlushInv, CutInv, BufferInv, BacklogInv, OutInv, Reading

\* What was read is entries m, ..., k - 1 of the source.
LEMMA BacklogIs ==
    ASSUME IInv, RInv, phase = "read", NEW b, b = Backlog(runs[source])
    PROVE  /\ b \in Seq(Nat \X Nat)
           /\ runs[source].there =>
                \E m, k \in Nat :
                   /\ m <= k /\ k <= cut /\ k <= Len(runs[source].lines) /\ Len(b) = k - m
                   /\ \A i \in 1..Len(b) : b[i] = <<source, m + i - 1>>
                   /\ k = cut \/ k = Len(runs[source].lines)
                   /\ tail = All => m = 0
<1>1. /\ source \in 1..Latest /\ source \in Nat /\ cut \in Nat /\ tail \in Nat /\ StoreInv
  BY DEF RInv, ReaderTypes
<1>2. PICK l \in Seq(Nat), s \in Nat :
        /\ l = runs[source].lines /\ s = Len(l)
        /\ \A i \in 1..s : l[i] = i - 1
  BY <1>1, LineFacts
<1>3. All \in Nat /\ s <= All
  <2>1. All \in Nat /\ runs[source].count <= All /\ s <= runs[source].count
    BY <1>1, <1>2, CountFits, LineFacts
  <2>2. runs[source].count \in Nat
    BY <1>1, RunTypes
  <2> QED
    BY <2>1, <2>2
<1>4. PICK size \in Nat : size = IF runs[source].there THEN s ELSE 0
  OBVIOUS
<1>5. PICK end \in Nat : end = (IF cut < size THEN cut ELSE size)
  BY <1>1
<1>6. end <= cut /\ end <= s /\ (runs[source].there => end = cut \/ end = s)
  BY <1>1, <1>4, <1>5
<1>7. PICK m \in Nat : m = IF end > tail THEN end - tail ELSE 0
  <2>1. (IF end > tail THEN end - tail ELSE 0) \in Nat
    BY <1>1
  <2> QED
    BY <2>1
<1>8. m <= end /\ end - m \in Nat /\ (tail = All => m = 0)
  BY <1>1, <1>3, <1>6, <1>7
<1>9. (IF end > tail THEN end - tail + 1 ELSE 1) = m + 1 /\ end - (m + 1) + 1 = end - m
  BY <1>1, <1>7
<1>10. b = [i \in 1..(end - m) |-> <<source, l[m + 1 + i - 1]>>]
  BY <1>2, <1>4, <1>5, <1>9 DEF Backlog
<1>11. ASSUME NEW i \in 1..(end - m)
       PROVE  /\ <<source, l[m + 1 + i - 1]>> = <<source, m + i - 1>>
              /\ <<source, l[m + 1 + i - 1]>> \in Nat \X Nat
  <2>1. PICK j \in 1..s : j = m + 1 + i - 1 /\ j - 1 = m + i - 1 /\ j - 1 \in Nat
    BY <1>6, <1>8
  <2>2. l[j] = j - 1
    BY <1>2
  <2> QED
    BY <1>1, <2>1, <2>2
<1>12. b \in Seq(Nat \X Nat) /\ Len(b) = end - m
  <2>1. b \in [1..(end - m) -> Nat \X Nat]
    BY <1>10, <1>11
  <2> QED
    BY <1>8, <2>1, FunctionIsSeq
<1>13. \A i \in 1..Len(b) : b[i] = <<source, m + i - 1>>
  BY <1>10, <1>11, <1>12
<1> QED
  BY <1>2, <1>6, <1>8, <1>12, <1>13

LEMMA ReaderEndOfFile ==
    ASSUME IInv, RInv, EndOfFile
    PROVE  RInv'
<1>1. /\ UNCHANGED <<runs, open, openIds, reader, source, cut, need, tail, buffered, out>>
      /\ phase = "read" /\ phase' = "drain"
      /\ source \in 1..Latest /\ need \in Nat
  BY DEF EndOfFile, storeVars, askedVars, RInv, ReaderTypes
<1>2. PICK b : b = Backlog(runs[source]) /\ b = backlog'
  BY DEF EndOfFile
<1>3. StoreInv' /\ Entries' = Entries /\ Latest' = Latest
  BY <1>1, StoreSame DEF RInv, NoNews, Latest
<1>4. b \in Seq(Nat \X Nat)
  BY <1>1, <1>2, BacklogIs
<1>5. ReaderTypes'
  BY <1>1, <1>2, <1>3, <1>4 DEF RInv, ReaderTypes, Infinity, All
<1>6. CutInv'
  BY <1>1 DEF RInv, CutInv, Reading
<1>7. BufferInv'
  BY <1>1, <1>3 DEF RInv, BufferInv, BufferFits, Reading, Sorted, Regular, Before
<1>8. ASSUME runs[source].there PROVE \E m, k \in Nat : BacklogFits(m, k)'
  <2>1. PICK m \in Nat, k \in Nat :
           /\ m <= k /\ k <= cut /\ k <= Len(runs[source].lines) /\ Len(b) = k - m
           /\ \A i \in 1..Len(b) : b[i] = <<source, m + i - 1>>
           /\ k = cut \/ k = Len(runs[source].lines)
           /\ tail = All => m = 0
    BY <1>1, <1>2, <1>8, BacklogIs
  <2>2. /\ Len(runs[source].lines) <= runs[source].count
        /\ runs[source].ended => Len(runs[source].lines) = runs[source].count
        /\ Len(runs[source].lines) \in Nat /\ runs[source].count \in Nat
        /\ All \in Nat /\ runs[source].count <= All
    BY <1>1, LineFacts, CountFits DEF RInv
  <2>3. k <= runs[source].count
    BY <2>1, <2>2
  <2>4. reader = "query" => need <= k
    <3>1. need <= Len(runs[source].lines)
      BY <1>1 DEF RInv, FlushInv
    <3>2. reader = "query" => cut = All + 1
      BY DEF RInv, ReaderTypes, Infinity
    <3> QED
      BY <2>1, <2>2, <3>1, <3>2
  <2>5. ASSUME reader = "follow", NEW x \in Entries, x[1] = source, Regular(x), x[2] < cut
        PROVE  x[2] < k
    <3>1. x[2] \in Nat /\ x[2] < runs[source].count
      BY <2>5, EntryFacts
    <3>2. x[2] < Len(runs[source].lines)
      <4>1. CASE runs[source].ended
        BY <2>2, <3>1, <4>1
      <4>2. CASE ~runs[source].ended
        <5>1. x[2] < need /\ need <= Len(runs[source].lines)
          BY <1>1, <2>5, <4>2 DEF RInv, FlushInv, Covered
        <5> QED
          BY <1>1, <2>2, <3>1, <5>1
      <4> QED
        BY <4>1, <4>2
    <3> QED
      BY <2>1, <2>5, <3>2
  <2>6. reader = "follow" => Covered(k)'
    BY <1>1, <1>3, <2>5 DEF Covered, Regular
  <2>7. BacklogFits(m, k)'
    BY <1>1, <1>2, <2>1, <2>3, <2>4, <2>6 DEF BacklogFits, All
  <2> QED
    BY <2>7
<1>9. BacklogInv'
  BY <1>1, <1>8 DEF BacklogInv
<1>10. phase' \notin {"flush", "read", "live"}
  BY <1>1
<1> QED
  BY <1>3, <1>5, <1>6, <1>7, <1>9, <1>10 DEF RInv, FlushInv, OutInv

\* What the listener has once the backlog and the buffer are delivered.
LEMMA DrainFits ==
    ASSUME IInv, RInv, phase = "drain", runs[source].there,
           NEW d, d = DeliveredFrom(backlog, buffered),
           NEW had, had = {e \in Range(d) : Regular(e)}
    PROVE  /\ d \in Seq(Nat \X Nat) /\ Range(d) \subseteq Entries /\ Sorted(d)
           /\ had \subseteq WantedEntries
           /\ reader = "follow" =>
                 /\ \A e \in WantedEntries \ had, f \in had : Before(e, f)
                 /\ tail = All => had = WantedEntries
           /\ reader = "query" /\ tail = All =>
                 /\ \A e \in WantedEntries \ had, f \in had : Before(f, e)
                 /\ Len(d) >= need
<1>1. PICK a \in Seq(Nat \X Nat), p \in Seq(Nat \X Nat) : a = backlog /\ p = buffered
  BY DEF RInv, ReaderTypes
<1>2. /\ source \in 1..Latest /\ source \in Nat /\ cut \in Nat /\ Latest \in Nat /\ need \in Nat
      /\ reader \in {"follow", "query"} /\ Reading
      /\ reader = "query" => p = <<>>
      /\ runs[source].count \in Nat
  <2>1. source \in 1..Latest
    BY DEF RInv, ReaderTypes
  <2> QED
    BY <1>1, <2>1, RunTypes DEF RInv, ReaderTypes, Reading
<1>3. PICK m \in Nat, k \in Nat : BacklogFits(m, k)
  BY DEF RInv, BacklogInv
<1>4. /\ m <= k /\ k <= cut /\ k <= runs[source].count /\ Len(a) = k - m
      /\ \A i \in 1..Len(a) : a[i] = <<source, m + i - 1>>
      /\ tail = All => m = 0
      /\ reader = "query" => need <= k
      /\ reader = "follow" => Covered(k)
  BY <1>1, <1>3 DEF BacklogFits
<1>5. DOMAIN a = 1..Len(a) /\ Len(a) \in Nat
  OBVIOUS
<1>6. ASSUME NEW x \in Range(a)
      PROVE  x \in Nat \X Nat /\ x[1] = source /\ m <= x[2] /\ x[2] < k
  <2>1. PICK i \in 1..Len(a) : a[i] = x
    BY <1>5, RangeOf
  <2>2. x = <<source, m + i - 1>> /\ m + i - 1 \in Nat /\ m <= m + i - 1 /\ m + i - 1 < k
    BY <1>4, <1>5, <2>1
  <2> QED
    BY <1>2, <2>2
<1>7. ASSUME NEW x \in Nat \X Nat, x[1] = source, m <= x[2], x[2] < k PROVE x \in Range(a)
  <2>1. PICK i \in 1..Len(a) : i = x[2] - m + 1
    BY <1>4, <1>7
  <2>2. a[i] = x
    <3>1. a[i] = <<source, m + i - 1>> /\ m + i - 1 = x[2]
      <4>1. x[2] \in Nat
        BY <1>7
      <4>2. a[i] = <<source, m + i - 1>>
        BY <1>4, <2>1
      <4> QED
        BY <2>1, <4>1, <4>2
    <3>2. x = <<source, x[2]>>
      BY <1>7
    <3> QED
      BY <3>1, <3>2
  <2> QED
    BY <1>5, <2>1, <2>2, RangeOf
<1>8. Range(a) \subseteq Entries
  <2>1. ASSUME NEW x \in Range(a) PROVE x \in Entries
    <3>1. x \in Nat \X Nat /\ x[1] = source /\ x[2] \in Nat /\ x[2] < k
      BY <1>6
    <3> QED
      BY <1>2, <1>4, <3>1 DEF Entries
  <2> QED
    BY <2>1
<1>9. Sorted(a)
  <2>1. ASSUME NEW i \in DOMAIN a, NEW j \in DOMAIN a, i < j PROVE Follows(a[i], a[j])
    <3>1. a[i] = <<source, m + i - 1>> /\ a[j] = <<source, m + j - 1>>
      BY <1>4, <1>5
    <3> QED
      BY <1>5, <2>1, <3>1 DEF Follows, Before
  <2> QED
    BY <2>1, SortedIs
<1>10. ASSUME reader = "query" PROVE d = a /\ Range(p) = {} /\ Sorted(p)
  BY <1>1, <1>2, <1>10, NothingBuffered DEF Range, Sorted
<1>11. ASSUME reader = "follow"
       PROVE  /\ Range(p) \subseteq Entries /\ Sorted(p)
              /\ \A e \in Entries :
                    Regular(e) /\ e[1] >= source /\ (e[1] = source => e[2] >= cut)
                        => e \in Range(p)
              /\ \A e \in Range(p) : Regular(e) => e[1] >= source
  BY <1>1, <1>2, <1>11 DEF RInv, BufferInv, BufferFits
<1>12. ASSUME NEW x \in Range(a), NEW y \in Range(p), ~IsReplayed(y) PROVE Follows(x, y)
  <2>1. reader = "follow" /\ y \in Entries
    BY <1>2, <1>10, <1>11
  <2>2. y[1] \in Nat /\ y[2] \in Nat /\ x[2] \in Nat
    BY <1>6, <2>1, EntryFacts
  <2>3. y[1] = source => y[2] >= cut
    BY <1>2, <1>12, <2>2 DEF IsReplayed
  <2>4. Regular(y) => y[1] >= source
    BY <1>11, <2>1
  <2> QED
    BY <1>2, <1>4, <1>6, <2>2, <2>3, <2>4 DEF Follows, Before
<1>13. DeliveredSoFar(a, p, Len(p), d)
  BY <1>1, <1>2, <1>9, <1>10, <1>11, <1>12, Deliveries
<1>14. /\ d \in Seq(Nat \X Nat) /\ Sorted(d)
       /\ \A y : y \in Range(d) <=> y \in Range(a) \/ (y \in Range(p) /\ ~IsReplayed(y))
  <2>1. \A y : y \in Range(p) <=> \E j \in 1..Len(p) : p[j] = y
    BY RangeOf DEF Range
  <2>2. \A y : y \in Range(d) <=>
            y \in Range(a) \/ \E j \in 1..Len(p) : p[j] = y /\ ~IsReplayed(y)
    BY <1>13 DEF DeliveredSoFar
  <2>3. d \in Seq(Nat \X Nat) /\ Sorted(d)
    BY <1>13 DEF DeliveredSoFar
  <2>4. \A y : y \in Range(d) <=> y \in Range(a) \/ (y \in Range(p) /\ ~IsReplayed(y))
    BY <2>1, <2>2
  <2> QED
    BY <2>3, <2>4
<1>15. Range(p) \subseteq Entries
  BY <1>2, <1>10, <1>11
<1>16. Range(d) \subseteq Entries
  BY <1>8, <1>14, <1>15
<1>17. ASSUME NEW f \in had
       PROVE  /\ f \in Entries /\ Regular(f) /\ f[1] \in Nat /\ f[2] \in Nat
              /\ \/ f[1] = source /\ m <= f[2] /\ f[2] < k
                 \/ reader = "follow" /\ f[1] > source
                 \/ reader = "follow" /\ f[1] = source /\ f[2] >= cut
  <2>1. f \in Range(d) /\ Regular(f) /\ f \in Entries
    BY <1>16, <1>17
  <2>2. f[1] \in Nat /\ f[2] \in Nat
    BY <2>1, EntryFacts
  <2>3. CASE f \in Range(a)
    BY <1>6, <2>1, <2>2, <2>3
  <2>4. CASE f \in Range(p) /\ ~IsReplayed(f)
    <3>1. reader = "follow" /\ f[1] >= source
      BY <1>2, <1>10, <1>11, <2>1, <2>4
    <3> QED
      BY <1>2, <2>1, <2>2, <2>4, <3>1 DEF IsReplayed
  <2> QED
    BY <1>14, <2>1, <2>3, <2>4
<1>18. had \subseteq WantedEntries
  <2>1. ASSUME NEW f \in had PROVE f \in WantedEntries
    <3>1. f \in Entries /\ Regular(f) /\ f[1] >= source
      <4>1. f[1] = source \/ f[1] > source
        BY <1>17
      <4> QED
        BY <1>2, <1>17, <4>1
    <3> QED
      BY <3>1 DEF WantedEntries
  <2> QED
    BY <2>1
<1>19. ASSUME NEW e \in WantedEntries, e \notin had
       PROVE  /\ e \in Nat \X Nat /\ e[1] \in Nat /\ e[2] \in Nat
              /\ reader = "follow" => e[1] = source /\ e[2] < m
              /\ reader = "query" => e[1] > source \/ e[2] < m \/ e[2] >= k
              /\ e[1] >= source
  <2>1. e \in Entries /\ Regular(e) /\ e[1] >= source /\ e \notin Range(d)
    BY <1>19 DEF WantedEntries
  <2>2. e \in Nat \X Nat /\ e[1] \in Nat /\ e[2] \in Nat
    BY <2>1, EntryFacts
  <2>3. e \notin Range(a)
    BY <1>14, <2>1
  <2>4. e[1] = source => e[2] < m \/ e[2] >= k
    BY <1>7, <2>2, <2>3
  <2>5. ASSUME reader = "follow" PROVE e[1] = source /\ e[2] < m
    <3>1. e[1] = source /\ e[2] < cut
      <4>1. SUFFICES ASSUME ~(e[1] = source /\ e[2] < cut) PROVE FALSE
        OBVIOUS
      <4>2. e \in Range(p)
        <5>1. e[1] = source => e[2] >= cut
          BY <1>2, <2>2, <4>1
        <5> QED
          BY <1>11, <2>1, <2>5, <5>1
      <4>3. ~IsReplayed(e)
        BY <4>1 DEF IsReplayed
      <4> QED
        BY <1>14, <2>1, <4>2, <4>3
    <3>2. e[2] < k
      BY <1>4, <2>1, <2>5, <3>1 DEF Covered
    <3> QED
      BY <2>2, <2>4, <3>1, <3>2
  <2> QED
    BY <1>2, <2>1, <2>2, <2>4, <2>5
<1>20. ASSUME reader = "follow"
       PROVE  /\ \A e \in WantedEntries \ had, f \in had : Before(e, f)
              /\ tail = All => had = WantedEntries
  <2>1. ASSUME NEW e \in WantedEntries \ had, NEW f \in had PROVE Before(e, f)
    <3>1. e[1] = source /\ e[2] < m /\ e[2] \in Nat
      BY <1>19, <1>20
    <3>2. /\ f[1] \in Nat /\ f[2] \in Nat
          /\ f[1] > source \/ (f[1] = source /\ f[2] >= m)
      BY <1>2, <1>4, <1>17
    <3> QED
      BY <1>2, <3>1, <3>2 DEF Before
  <2>2. ASSUME tail = All PROVE had = WantedEntries
    <3>1. m = 0
      BY <1>4, <2>2
    <3>2. ASSUME NEW e \in WantedEntries PROVE e \in had
      BY <1>19, <1>20, <3>1
    <3> QED
      BY <1>18, <3>2
  <2> QED
    BY <2>1, <2>2
<1>21. ASSUME reader = "query", tail = All
       PROVE  /\ \A e \in WantedEntries \ had, f \in had : Before(f, e)
              /\ Len(d) >= need
  <2>1. m = 0
    BY <1>4, <1>21
  <2>2. ASSUME NEW e \in WantedEntries \ had, NEW f \in had PROVE Before(f, e)
    <3>1. e[2] \in Nat /\ e[1] \in Nat /\ e[1] >= source /\ (e[1] > source \/ e[2] >= k)
      BY <1>19, <1>21, <2>1
    <3>2. f[1] = source /\ f[2] < k /\ f[2] \in Nat
      BY <1>17, <1>21
    <3> QED
      BY <1>2, <3>1, <3>2 DEF Before
  <2>3. Len(d) = k
    BY <1>4, <1>10, <1>21, <2>1
  <2> QED
    BY <1>2, <1>4, <1>21, <2>2, <2>3
<1> QED
  BY <1>14, <1>16, <1>18, <1>20, <1>21

LEMMA DeliveredTypes ==
    ASSUME RInv
    PROVE  DeliveredFrom(backlog, buffered) \in Seq(Nat \X Nat)
<1>1. PICK a \in Seq(Nat \X Nat), p \in Seq(Nat \X Nat) : a = backlog /\ p = buffered
  BY DEF RInv, ReaderTypes
<1>2. PICK n \in Nat : n = Len(p) /\ DOMAIN p = 1..n
  OBVIOUS
<1>3. OneByOne(a, p)
  <2>1. PICK S : p \in Seq(S)
    OBVIOUS
  <2> QED
    BY <2>1, DeliveredOfSeq
<1>4. PICK g : /\ g[0] = a /\ g[n] = DeliveredFrom(a, p)
               /\ \A k \in 1..n : g[k] = Delivered(g[k - 1], p[k])
  BY <1>2, <1>3 DEF OneByOne
<1> DEFINE T == {k \in Nat : k <= n => g[k] \in Seq(Nat \X Nat)}
<1>5. 0 \in T
  BY <1>4
<1>6. ASSUME NEW k \in Nat, k \in T PROVE k + 1 \in T
  <2> SUFFICES ASSUME k + 1 <= n PROVE g[k + 1] \in Seq(Nat \X Nat)
    OBVIOUS
  <2>1. k + 1 \in 1..n /\ (k + 1) - 1 = k
    BY <1>2
  <2>2. p[k + 1] \in Nat \X Nat /\ g[k] \in Seq(Nat \X Nat)
    BY <1>2, <1>6, <2>1
  <2>3. g[k + 1] = Delivered(g[k], p[k + 1])
    BY <1>4, <2>1
  <2> QED
    BY <2>2, <2>3 DEF Delivered
<1>7. n \in T
  <2> HIDE DEF T
  <2> QED
    BY <1>5, <1>6, NatSetInduction
<1> QED
  BY <1>1, <1>4, <1>7

LEMMA ReaderDrain ==
    ASSUME IInv, IInv', RInv, Drain
    PROVE  RInv'
<1>1. /\ UNCHANGED <<runs, open, openIds, reader, source, cut, need, tail>>
      /\ phase = "drain" /\ phase' = "live" /\ buffered' = <<>> /\ backlog' = <<>>
      /\ source \in 1..Latest
  BY DEF Drain, storeVars, askedVars, RInv, ReaderTypes
<1>2. PICK d : d = DeliveredFrom(backlog, buffered) /\ out' = d
  BY DEF Drain, DeliveredFrom
<1>3. /\ StoreInv' /\ Entries' = Entries /\ Latest' = Latest
      /\ \A x : Regular(x)' <=> Regular(x)
  BY <1>1, StoreSame DEF RInv, NoNews, Latest, Regular
<1>4. d \in Seq(Nat \X Nat)
  BY <1>2, DeliveredTypes
<1>5. ReaderTypes'
  BY <1>1, <1>2, <1>3, <1>4 DEF RInv, ReaderTypes, Infinity, All
<1>6. ASSUME runs[source].there PROVE OutFits'
  <2>1. PICK had : had = {e \in Range(d) : Regular(e)}
    OBVIOUS
  <2>2. /\ Range(d) \subseteq Entries /\ Sorted(d)
        /\ had \subseteq WantedEntries
        /\ reader = "follow" =>
              /\ \A e \in WantedEntries \ had, f \in had : Before(e, f)
              /\ tail = All => had = WantedEntries
        /\ reader = "query" /\ tail = All =>
              /\ \A e \in WantedEntries \ had, f \in had : Before(f, e)
              /\ Len(d) >= need
    BY <1>1, <1>2, <1>6, <2>1, DrainFits
  <2>3. Sorted(out)'
    <3>1. Sorted(d)'
      BY <1>3, <2>2 DEF Sorted, Before, Regular
    <3> QED
      BY <1>2, <3>1, SortedThen
  <2>4. Had' = had
    BY <1>2, <1>3, <2>1 DEF Had
  <2>5. Wanted' = WantedEntries
    <3>1. (IInv /\ source \in 1..Latest => Wanted = WantedEntries)'
      BY WantedIs, PTL
    <3>2. (IInv /\ source \in 1..Latest)'
      BY <1>1, <1>3
    <3> QED
      BY <1>1, <1>3, <3>1, <3>2 DEF WantedEntries
  <2>6. Range(out)' = Range(d) /\ Len(out)' = Len(d) /\ All' = All
    BY <1>2 DEF All
  <2> QED
    BY <1>1, <1>3, <2>2, <2>3, <2>4, <2>5, <2>6 DEF OutFits, Before
<1>7. OutInv'
  BY <1>1, <1>6 DEF OutInv
<1>8. phase' \notin {"flush", "read", "drain"} /\ ~Reading'
  BY <1>1 DEF Reading
<1> QED
  BY <1>3, <1>5, <1>7, <1>8 DEF RInv, FlushInv, CutInv, BufferInv, BacklogInv

LEMMA ReaderStep == IInv /\ IInv' /\ RInv /\ [Next]_vars => RInv'
<1> SUFFICES ASSUME IInv, IInv', RInv, [Next]_vars PROVE RInv'
  OBVIOUS
<1>1. ASSUME StoreInv', Hears PROVE RInv'
  BY <1>1, NoNewsHeard, NewsHeard DEF Hears
<1>2. ASSUME UNCHANGED vars PROVE RInv'
  <2>1. UNCHANGED <<runs, open>> /\ NobodyHears
    BY <1>2 DEF vars, storeVars, askedVars, NobodyHears
  <2>2. StoreInv' /\ NoNews
    BY <2>1, StoreSame DEF RInv
  <2> QED
    BY <2>1, <2>2, NoNewsHeard
<1>3. CreateRun => RInv'
  BY <1>1, StoreCreate DEF RInv
<1>4. ASSUME NEW r \in 1..Latest,
             AppendEntry(r) \/ FlushPending(r) \/ StreamWrites(r) \/ FinishRun(r) \/ StreamEnded(r)
      PROVE  RInv'
  BY <1>1, <1>4, StoreRun DEF RInv
<1> QED
  BY <1>2, <1>3, <1>4, ReaderFollow, ReaderQuery, ReaderFlushDone, ReaderEndOfFile,
     ReaderDrain, ReaderUnsubscribe DEF Next

\* Whatever is appended, flushed, closed, begun and pruned while it reads, a
\* follower that is live has been given every entry once and in order, the replay
\* cut down to its tail, and a query's answer has what was to be flushed for it
\* (follow and query, emit).
THEOREM NoGapNoDuplicate == Spec => []ReadersMissNothing
<1>1. RInv => ReadersMissNothing
  BY DEF RInv, OutInv, OutFits, Had, Sorted, ReadersMissNothing
<1> QED
  BY <1>1, InvInit, InvStep, ReaderInit, ReaderStep, PTL DEF Spec

=============
