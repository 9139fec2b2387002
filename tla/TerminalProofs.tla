--------------------------- MODULE TerminalProofs ---------------------------
(***************************************************************************)
(* What the pane shows, what a form of the palette holds and what the list    *)
(* shows and stores, for any targets, repositories, chunks, stored views and  *)
(* answers of the daemon, and any number of selections, requests, drags and   *)
(* chunks under way.                                                         *)
(***************************************************************************)
EXTENDS Terminal, FiniteSetTheorems, WellFoundedInduction, TLAPS

(* Induction, stated for a set instead of an operator, and folds. *)

\* The least number outside the set would have its predecessor inside.
LEMMA NatSetInduction ==
    ASSUME NEW T, 0 \in T, \A n \in Nat : n \in T => n + 1 \in T
    PROVE  Nat \subseteq T
<1> DEFINE R == {ss \in Nat \X Nat : ss[1] < ss[2]}
<1>1. SUFFICES ASSUME Nat \ T # {} PROVE FALSE
  OBVIOUS
<1>2. IsWellFoundedOn(R, Nat)
  BY NatLessThanWellFounded, Zenon DEF OpToRel
<1>3. \A x \in Nat, y \in Nat : y < x => <<y, x>> \in R
  OBVIOUS
<1> HIDE DEF R
<1>4. PICK x \in Nat \ T : \A y \in Nat \ T : <<y, x>> \notin R
  BY <1>1, <1>2, WFMin
<1>5. x - 1 \in Nat /\ x - 1 \notin T
  <2>1. x # 0 /\ x \in Nat
    BY <1>4
  <2>2. x - 1 \in T => (x - 1) + 1 \in T
    BY <2>1
  <2> QED
    BY <1>4, <2>1, <2>2
<1>6. <<x - 1, x>> \in R
  BY <1>3, <1>4, <1>5
<1> QED
  BY <1>4, <1>5, <1>6

\* A finite set of numbers has a greatest.
LEMMA MaxIsMax ==
    ASSUME NEW n \in Nat, NEW S \in SUBSET (1..n), S # {}
    PROVE  Max(S) \in S /\ \A y \in S : Max(S) >= y
<1> DEFINE T == {k \in Nat : \A U \in SUBSET (1..k) : U # {} => \E x \in U : \A y \in U : x >= y}
<1>1. 0 \in T
  <2>1. 1..0 = {}
    OBVIOUS
  <2> QED
    BY <2>1
<1>2. ASSUME NEW k \in Nat, k \in T PROVE k + 1 \in T
  <2>1. ASSUME NEW U \in SUBSET (1..(k + 1)), U # {} PROVE \E x \in U : \A y \in U : x >= y
    <3>1. CASE k + 1 \in U
      BY <3>1
    <3>2. CASE k + 1 \notin U
      <4>1. U \in SUBSET (1..k)
        BY <3>2
      <4> QED
        BY <2>1, <4>1, <1>2
    <3> QED
      BY <3>1, <3>2
  <2> QED
    BY <2>1
<1>3. n \in T
  BY <1>1, <1>2, NatSetInduction
<1> QED
  BY <1>3 DEF Max

LEMMA Interval ==
    ASSUME NEW k \in Nat \ {0}
    PROVE  1..k # {} /\ Max(1..k) = k /\ (1..k) \ {k} = 1..(k - 1)
<1>1. k \in Nat /\ k \in 1..k
  OBVIOUS
<1>2. Max(1..k) \in 1..k /\ Max(1..k) >= k
  BY <1>1, MaxIsMax
<1> QED
  BY <1>1, <1>2

Folded(base, p) == FoldLeft(Appended, base, p)

\* A fold from the left, step by step.
LEMMA FoldIs ==
    ASSUME NEW base, NEW p, NEW n \in Nat, DOMAIN p = 1..n
    PROVE  \E g : /\ g[0] = base /\ g[n] = Folded(base, p)
                  /\ \A k \in 1..n : g[k] = Appended(g[k - 1], p[k])
<1> DEFINE Rec(f, k) == f = [s \in SUBSET (1..k) |-> IF s = {} THEN base ELSE Appended(f[s \ {Max(s)}], p[Max(s)])]
           T == {k \in Nat : \E f : Rec(f, k)}
           iter == CHOOSE f : Rec(f, n)
<1>1. 0 \in T
  <2> DEFINE f == [s \in SUBSET (1..0) |-> base]
  <2>1. Rec(f, 0)
    OBVIOUS
  <2> QED
    BY <2>1
<1>2. ASSUME NEW k \in Nat, k \in T PROVE k + 1 \in T
  <2>1. PICK f : Rec(f, k)
    BY <1>2
  <2> DEFINE g == [s \in SUBSET (1..(k + 1)) |->
                     IF s = {} THEN base ELSE Appended(f[s \ {Max(s)}], p[Max(s)])]
  <2>2. ASSUME NEW s \in SUBSET (1..(k + 1)), s # {}
        PROVE  s \ {Max(s)} \in SUBSET (1..k)
    <3>1. Max(s) \in s /\ \A y \in s : Max(s) >= y
      <4>1. k + 1 \in Nat
        OBVIOUS
      <4> HIDE DEF T, iter, g
      <4> QED
        BY <2>2, <4>1, MaxIsMax
    <3>2. ASSUME NEW x \in s \ {Max(s)} PROVE x \in 1..k
      <4>1. x <= Max(s) /\ x # Max(s) /\ Max(s) \in 1..(k + 1) /\ x \in 1..(k + 1)
        BY <3>1, <3>2
      <4> QED
        BY <4>1
    <3> QED
      BY <3>2
  <2>3. ASSUME NEW s \in SUBSET (1..k) PROVE g[s] = f[s]
    <3>1. s \in SUBSET (1..(k + 1))
      OBVIOUS
    <3>2. f[s] = IF s = {} THEN base ELSE Appended(f[s \ {Max(s)}], p[Max(s)])
      <4>1. f = [t \in SUBSET (1..k) |-> IF t = {} THEN base ELSE Appended(f[t \ {Max(t)}], p[Max(t)])]
        BY <2>1
      <4> QED
        BY <4>1, Zenon
    <3> QED
      BY <3>1, <3>2, Zenon
  <2>4. \A s \in SUBSET (1..(k + 1)) : s # {} => f[s \ {Max(s)}] = g[s \ {Max(s)}]
    BY <2>2, <2>3, Zenon
  <2>5. Rec(g, k + 1)
    <3> DEFINE h == g
    <3>1. g = [s \in SUBSET (1..(k + 1)) |->
                 IF s = {} THEN base ELSE Appended(h[s \ {Max(s)}], p[Max(s)])]
      BY <2>4, Zenon
    <3> QED
      BY <3>1, Zenon
  <2> HIDE DEF g, Rec
  <2> QED
    BY <2>5
<1>3. \E f : Rec(f, n)
  BY <1>1, <1>2, NatSetInduction
<1>4. Rec(iter, n)
  BY <1>3
<1>5. Folded(base, p) = iter[1..n]
  BY DEF Folded, FoldLeft, MapThenFoldSet
<1> HIDE DEF iter, T
<1> DEFINE g == [k \in 0..n |-> iter[1..k]]
<1>6. iter[1..0] = base
  <2>1. 1..0 = {} /\ {} \in SUBSET (1..n)
    OBVIOUS
  <2>2. iter[{}] = base
    BY <1>4, <2>1, Zenon
  <2> QED
    BY <2>1, <2>2, Zenon
<1>7. ASSUME NEW k \in 1..n PROVE iter[1..k] = Appended(iter[1..(k - 1)], p[k])
  <2>1. 1..k \in SUBSET (1..n) /\ 1..k # {} /\ Max(1..k) = k /\ (1..k) \ {k} = 1..(k - 1)
    <3>1. k \in Nat \ {0} /\ 1..k \in SUBSET (1..n)
      OBVIOUS
    <3> QED
      BY <3>1, Interval
  <2>2. iter[1..k] = Appended(iter[(1..k) \ {Max(1..k)}], p[Max(1..k)])
    BY <1>4, <2>1, Zenon
  <2> QED
    BY <2>1, <2>2, Zenon
<1>8. g[0] = base /\ g[n] = Folded(base, p)
  BY <1>5, <1>6
<1>9. \A k \in 1..n : g[k] = Appended(g[k - 1], p[k])
  BY <1>7
<1> HIDE DEF g
<1> QED
  BY <1>8, <1>9

\* What every step of a fold keeps, the fold keeps.
LEMMA FoldKeeps ==
    ASSUME NEW Good, NEW E, NEW base \in Good, NEW p \in Seq(E),
           \A b \in Good, e \in E : Appended(b, e) \in Good
    PROVE  Folded(base, p) \in Good
<1>0. SUFFICES ASSUME Folded(base, p) \notin Good PROVE FALSE
  OBVIOUS
<1>1. PICK n \in Nat : DOMAIN p = 1..n /\ \A i \in 1..n : p[i] \in E
  OBVIOUS
<1>2. PICK g : /\ g[0] = base /\ g[n] = Folded(base, p)
               /\ \A k \in 1..n : g[k] = Appended(g[k - 1], p[k])
  BY <1>0, <1>1, FoldIs
<1> DEFINE T == {k \in Nat : k <= n => g[k] \in Good}
<1>3. 0 \in T
  BY <1>2
<1>4. ASSUME NEW k \in Nat, k \in T PROVE k + 1 \in T
  <2>1. SUFFICES ASSUME k + 1 <= n PROVE g[k + 1] \in Good
    OBVIOUS
  <2>2. k + 1 \in 1..n /\ (k + 1) - 1 = k /\ g[k] \in Good
    BY <1>4, <2>1
  <2>3. g[k + 1] = Appended(g[k], p[k + 1])
    BY <1>2, <2>2
  <2> QED
    BY <1>1, <2>2, <2>3
<1>5. n \in T
  BY <1>3, <1>4, NatSetInduction
<1> QED
  BY <1>0, <1>2, <1>5
-----------------------------------------------------------------------------
(* The pane: what its views hold, and what is shown. *)

Streams == {"none", "asking", "granted", "held", "stopped", "failed"}

\* The views whose output may be shown: the current one, and those left too early.
Own == {0} \cup {v \in 1..Current : v = Current \/ views[v].late}

Lines(owners) == [seq : Nat, label : Labels, view : owners, wanted : BOOLEAN]
Buffers(owners) == [lines : Seq(Lines(owners)), partial : [Labels -> Nat], total : Nat]
Entries(owners) == [view : owners, chunk : Chunks]

LEMMA SeqFacts ==
    ASSUME NEW S, NEW s \in Seq(S)
    PROVE  /\ Len(s) \in Nat /\ DOMAIN s = 1..Len(s)
           /\ \A m \in 1..(Len(s) + 1) : \A n \in 0..Len(s) : SubSeq(s, m, n) \in Seq(S)
           /\ s # <<>> => Tail(s) \in Seq(S) /\ Front(s) \in Seq(S)
<1>1. \A m \in 1..(Len(s) + 1) : \A n \in 0..Len(s) : SubSeq(s, m, n) \in Seq(S)
  OBVIOUS
<1>2. Len(s) \in Nat /\ DOMAIN s = 1..Len(s)
  OBVIOUS
<1>3. s # <<>> => Tail(s) \in Seq(S) /\ Len(s) # 0
  OBVIOUS
<1>4. s # <<>> => Front(s) \in Seq(S)
  <2>1. s # <<>> => 1 \in 1..(Len(s) + 1) /\ Len(s) - 1 \in 0..Len(s)
    BY <1>2, <1>3
  <2> QED
    BY <1>1, <2>1 DEF Front
<1> QED
  BY <1>1, <1>2, <1>3, <1>4

LEMMA TrimmedIs ==
    ASSUME NEW S, NEW lines \in Seq(S)
    PROVE  Trimmed(lines) \in Seq(S)
<1>1. CASE Len(lines) <= Retain + Slack
  BY <1>1 DEF Trimmed
<1>2. CASE ~(Len(lines) <= Retain + Slack)
  <2>1. Retain \in Nat \ {0} /\ Slack \in Nat /\ Len(lines) \in Nat
    BY SeqFacts, LogPaneAssumption
  <2>2. Len(lines) - Retain + 1 \in 1..(Len(lines) + 1) /\ Len(lines) \in 0..Len(lines)
    BY <1>2, <2>1
  <2>3. SubSeq(lines, Len(lines) - Retain + 1, Len(lines)) \in Seq(S)
    BY <2>2, SeqFacts
  <2> QED
    BY <1>2, <2>3 DEF Trimmed
<1> QED
  BY <1>1, <1>2

\* A function on 1..n is a sequence.
LEMMA SeqOfFcn ==
    ASSUME NEW S, NEW n \in Nat, NEW f, f = [i \in 1..n |-> f[i]], \A i \in 1..n : f[i] \in S
    PROVE  f \in Seq(S)
OBVIOUS

NewLines(kept, t, l, v) ==
    [i \in DOMAIN kept |-> [seq |-> t + i, label |-> l, view |-> v, wanted |-> kept[i] = "wanted"]]

LEMMA NewLinesAre ==
    ASSUME NEW owners, NEW E, NEW kept \in Seq(E), NEW t \in Nat, NEW l \in Labels,
           NEW v \in owners
    PROVE  NewLines(kept, t, l, v) \in Seq(Lines(owners))
<1> DEFINE new == [i \in DOMAIN kept |-> [seq |-> t + i, label |-> l, view |-> v,
                                          wanted |-> kept[i] = "wanted"]]
<1>1. Len(kept) \in Nat /\ DOMAIN kept = 1..Len(kept)
  BY SeqFacts
<1>2. \A i \in DOMAIN kept : t + i \in Nat
  BY <1>1
<1>3. \A i \in DOMAIN kept : new[i] \in Lines(owners)
  BY <1>2 DEF Lines
<1>4. new = [i \in 1..Len(kept) |-> new[i]]
  BY <1>1, Zenon
<1> HIDE DEF new
<1>5. new \in Seq(Lines(owners))
  BY <1>1, <1>3, <1>4, SeqOfFcn
<1> QED
  BY <1>5 DEF new, NewLines

\* A line that is there still: later text may have made it match a search.
Upheld(line, still) ==
    /\ still.seq = line.seq /\ still.label = line.label
    /\ line.wanted => still.wanted

\* The lines of c are those of b, and new ones, without what is trimmed.
GoesOn(owners, b, c) ==
    \E old, new \in Seq(Lines(owners)) :
        /\ Len(old) = Len(b.lines) /\ \A i \in 1..Len(old) : Upheld(b.lines[i], old[i])
        /\ \A i \in 1..Len(new) : new[i].seq = b.total + i
        /\ c.lines = Trimmed(old \o new) /\ c.total = b.total + Len(new)

LEMMA AppendedIs ==
    ASSUME NEW owners, NEW b \in Buffers(owners), NEW entry \in Entries(owners)
    PROVE  Appended(b, entry) \in Buffers(owners) /\ GoesOn(owners, b, Appended(b, entry))
<1> DEFINE l == entry.chunk.label
           parts == entry.chunk.parts
           goesOn == b.partial[l] # 0
           rest == IF goesOn THEN Tail(parts) ELSE parts
           open == rest # <<>> /\ Last(rest) # ""
           kept == IF rest = <<>> \/ open THEN rest ELSE Front(rest)
           old == [i \in DOMAIN b.lines |->
                     IF goesOn /\ b.lines[i].seq = b.partial[l] /\ parts[1] = "wanted"
                     THEN [b.lines[i] EXCEPT !.wanted = TRUE] ELSE b.lines[i]]
           new == [i \in DOMAIN kept |-> [seq |-> b.total + i, label |-> l, view |-> entry.view,
                                          wanted |-> kept[i] = "wanted"]]
           partial == [b.partial EXCEPT ![l] = IF rest = <<>> THEN @
                                               ELSE IF open THEN b.total + Len(kept) ELSE 0]
           Parts == {"", "plain", "wanted"}
<1>1. /\ b.lines \in Seq(Lines(owners)) /\ b.partial \in [Labels -> Nat] /\ b.total \in Nat
      /\ entry.view \in owners /\ entry.chunk \in Chunks
  BY DEF Buffers, Entries
<1>2. l \in Labels /\ parts \in Seq(Parts) /\ parts # <<>>
  BY <1>1, LogPaneAssumption
<1>3. rest \in Seq(Parts)
  <2> HIDE DEF parts, l, goesOn, Parts
  <2> QED
    BY <1>2, SeqFacts
<1>4. kept \in Seq(Parts)
  <2>1. CASE rest = <<>> \/ open
    BY <1>3, <2>1
  <2>2. CASE ~(rest = <<>> \/ open)
    <3> HIDE DEF rest, open, Parts
    <3>1. Front(rest) \in Seq(Parts)
      BY <1>3, <2>2, SeqFacts
    <3> QED
      BY <2>2, <3>1
  <2> QED
    BY <2>1, <2>2
<1>5. old \in Seq(Lines(owners))
  <2>1. \A i \in DOMAIN b.lines : b.lines[i] \in Lines(owners)
    BY <1>1
  <2>2. ASSUME NEW line \in Lines(owners) PROVE [line EXCEPT !.wanted = TRUE] \in Lines(owners)
    BY DEF Lines
  <2>3. \A i \in DOMAIN b.lines : old[i] \in Lines(owners)
    <3> HIDE DEF goesOn, parts, l
    <3> QED
      BY <2>1, <2>2
  <2>4. DOMAIN old = 1..Len(b.lines) /\ Len(b.lines) \in Nat
    BY <1>1
  <2>5. old = [i \in 1..Len(b.lines) |-> old[i]]
    BY <2>4
  <2> HIDE DEF old
  <2> QED
    BY <2>3, <2>4, <2>5
<1>6. new \in Seq(Lines(owners))
  <2>1. new = NewLines(kept, b.total, l, entry.view)
    BY Zenon DEF NewLines
  <2> HIDE DEF kept, l, Parts, new
  <2> QED
    BY <1>1, <1>2, <1>4, <2>1, NewLinesAre
<1>7. old \o new \in Seq(Lines(owners))
  <2> HIDE DEF old, new
  <2> QED
    BY <1>5, <1>6
<1>8. Trimmed(old \o new) \in Seq(Lines(owners))
  <2> HIDE DEF old, new
  <2> QED
    BY <1>7, TrimmedIs
<1>9. partial \in [Labels -> Nat] /\ b.total + Len(kept) \in Nat
  <2>1. Len(kept) \in Nat
    <3> HIDE DEF kept, Parts
    <3> QED
      BY <1>4, SeqFacts
  <2>2. b.total + Len(kept) \in Nat
    <3> HIDE DEF kept
    <3> QED
      BY <1>1, <2>1
  <2> DEFINE to == IF rest = <<>> THEN b.partial[l]
                   ELSE IF open THEN b.total + Len(kept) ELSE 0
  <2>3. to \in Nat
    <3> HIDE DEF kept, rest, open, l
    <3> QED
      BY <1>1, <1>2, <2>2
  <2>4. partial = [b.partial EXCEPT ![l] = to]
    <3> HIDE DEF kept, rest, open, l
    <3> QED
      OBVIOUS
  <2> HIDE DEF to, partial, l
  <2> QED
    BY <1>1, <1>2, <2>2, <2>3, <2>4
<1>10. Appended(b, entry) = [lines |-> Trimmed(old \o new), partial |-> partial,
                             total |-> b.total + Len(kept)]
  BY Zenon DEF Appended
<1>11. Len(old) = Len(b.lines) /\ \A i \in 1..Len(b.lines) : Upheld(b.lines[i], old[i])
  <2>1. Len(b.lines) \in Nat /\ DOMAIN b.lines = 1..Len(b.lines)
    BY <1>1
  <2>2. DOMAIN old = 1..Len(b.lines)
    BY <2>1
  <2>3. Len(old) = Len(b.lines)
    <3> HIDE DEF old
    <3> QED
      BY <1>5, <2>1, <2>2
  <2>4. ASSUME NEW i \in 1..Len(b.lines) PROVE Upheld(b.lines[i], old[i])
    <3>1. b.lines[i] \in Lines(owners)
      BY <1>1, <2>1
    <3>2. ASSUME NEW line \in Lines(owners) PROVE Upheld(line, [line EXCEPT !.wanted = TRUE])
      BY DEF Lines, Upheld
    <3>3. Upheld(b.lines[i], b.lines[i])
      BY DEF Upheld
    <3>4. old[i] = b.lines[i] \/ old[i] = [b.lines[i] EXCEPT !.wanted = TRUE]
      <4> HIDE DEF goesOn, parts, l
      <4> QED
        BY <2>1
    <3> HIDE DEF old
    <3> QED
      BY <3>1, <3>2, <3>3, <3>4
  <2> QED
    BY <2>3, <2>4
<1>12. Len(kept) \in Nat /\ Len(new) = Len(kept) /\ \A i \in 1..Len(kept) : new[i].seq = b.total + i
  <2>1. Len(kept) \in Nat /\ DOMAIN kept = 1..Len(kept)
    <3> HIDE DEF kept, Parts
    <3> QED
      BY <1>4, SeqFacts
  <2> HIDE DEF kept, l
  <2>2. DOMAIN new = 1..Len(kept) /\ \A i \in 1..Len(kept) : new[i].seq = b.total + i
    BY <2>1
  <2>3. Len(new) = Len(kept)
    <3> HIDE DEF new
    <3> QED
      BY <1>6, <2>1, <2>2
  <2> QED
    BY <2>1, <2>2, <2>3
<1> HIDE DEF old, new, partial, kept
<1>13. GoesOn(owners, b, Appended(b, entry))
  BY <1>5, <1>6, <1>10, <1>11, <1>12 DEF GoesOn
<1> QED
  BY <1>8, <1>9, <1>10, <1>13 DEF Buffers

LEMMA CoalescedIs ==
    ASSUME NEW owners, NEW b \in Buffers(owners), NEW p \in Seq(Entries(owners))
    PROVE  FoldLeft(Appended, b, p) \in Buffers(owners)
<1>1. \A c \in Buffers(owners), e \in Entries(owners) : Appended(c, e) \in Buffers(owners)
  BY AppendedIs
<1>2. Folded(b, p) \in Buffers(owners)
  BY <1>1, FoldKeeps
<1> QED
  BY <1>2 DEF Folded

ViewSet(slugs) == [slug : slugs, stream : Streams, late : BOOLEAN]

ViewsOK ==
    /\ \E T : views \in Seq(ViewSet(T))
    /\ views # <<>>
    /\ \A v \in 1..(Current - 1) :
          views[v].stream # "held" /\ (views[v].stream \in InFlight => views[v].late)

ShownOK ==
    /\ {status, declared} \subseteq {0, Current} /\ error \in Own
    /\ pending \in Seq(Entries(Own)) /\ buffer \in Buffers(Own)

PaneOK == ViewsOK /\ ShownOK

LEMMA SeqUpdate ==
    ASSUME NEW S, NEW s \in Seq(S), NEW i \in 1..Len(s), NEW x \in S
    PROVE  /\ [s EXCEPT ![i] = x] \in Seq(S)
           /\ Len([s EXCEPT ![i] = x]) = Len(s)
           /\ \A u \in 1..Len(s) : [s EXCEPT ![i] = x][u] = IF u = i THEN x ELSE s[u]
<1>1. [s EXCEPT ![i] = x] \in Seq(S)
  OBVIOUS
<1>2. Len([s EXCEPT ![i] = x]) = Len(s)
  OBVIOUS
<1>3. \A u \in 1..Len(s) : [s EXCEPT ![i] = x][u] = IF u = i THEN x ELSE s[u]
  OBVIOUS
<1> QED
  BY <1>1, <1>2, <1>3

LEMMA SeqWider ==
    ASSUME NEW S, NEW T, S \subseteq T, NEW s \in Seq(S)
    PROVE  s \in Seq(T)
OBVIOUS

\* Whatever of the current view is on the wire has an owner.
LEMMA StreamsAreOwned ==
    ASSUME ViewsOK, NEW v \in 1..Current, views[v].stream \in InFlight \cup {"held"}
    PROVE  v \in Own
<1>1. Current \in Nat
  BY DEF ViewsOK, Current
<1>2. CASE v = Current
  BY <1>2 DEF Own
<1>3. CASE v # Current
  <2>1. v \in 1..(Current - 1)
    BY <1>1, <1>3
  <2> QED
    BY <2>1 DEF ViewsOK, Own
<1> QED
  BY <1>2, <1>3

LEMMA BecomesKeepsViews ==
    ASSUME ViewsOK, NEW v \in 1..Current, NEW stream \in Streams, Becomes(v, stream),
           v # Current => stream # "held" /\ (stream \in InFlight => views[v].late)
    PROVE  ViewsOK' /\ Current' = Current /\ Own' = Own
<1>1. PICK T : views \in Seq(ViewSet(T))
  BY DEF ViewsOK
<1> DEFINE new == [views[v] EXCEPT !.stream = stream]
<1>2. /\ Current = Len(views) /\ Current \in Nat /\ DOMAIN views = 1..Current
      /\ \A u \in 1..Current : views[u] \in ViewSet(T)
  BY <1>1, SeqFacts DEF Current
<1>3. views' = [views EXCEPT ![v] = new]
  BY DEF Becomes
<1>4. new \in ViewSet(T) /\ new.stream = stream /\ new.late = views[v].late
  <2>1. views[v] \in ViewSet(T)
    BY <1>2
  <2> QED
    BY <2>1 DEF ViewSet
<1> HIDE DEF new
<1>5. /\ views' \in Seq(ViewSet(T)) /\ Len(views') = Len(views)
      /\ \A u \in 1..Current : views'[u] = IF u = v THEN new ELSE views[u]
  BY <1>1, <1>2, <1>3, <1>4, SeqUpdate
<1>6. Current' = Current
  BY <1>5 DEF Current
<1>7. \A u \in 1..Current : views'[u] = IF u = v THEN new ELSE views[u]
  BY <1>5
<1>8. \A u \in 1..Current : views'[u].late = views[u].late
  BY <1>4, <1>7
<1>9. Own' = Own
  BY <1>6, <1>8 DEF Own
<1>10. ASSUME NEW u \in 1..(Current - 1)
       PROVE  views'[u].stream # "held" /\ (views'[u].stream \in InFlight => views'[u].late)
  <2>1. u \in 1..Current /\ u # Current
    BY <1>2
  <2>2. CASE u = v
    BY <1>4, <1>7, <1>8, <2>1, <2>2
  <2>3. CASE u # v
    BY <1>7, <2>1, <2>3 DEF ViewsOK
  <2> QED
    BY <2>2, <2>3
<1>11. views' # <<>>
  <2>1. Len(views) # 0
    BY <1>1 DEF ViewsOK
  <2> QED
    BY <1>5, <2>1
<1>12. \E U : views' \in Seq(ViewSet(U)')
  BY <1>5 DEF ViewSet, Streams
<1>13. InFlight' = InFlight
  BY DEF InFlight
<1> QED
  BY <1>6, <1>9, <1>10, <1>11, <1>12 DEF ViewsOK, InFlight

\* A new view: what the last one held is given up, and what it waits for is late.
LEMMA ShowStep ==
    ASSUME ViewsOK, ShowSelected
    PROVE  PaneOK' /\ Current' # Current
<1>1. PICK T : views \in Seq(ViewSet(T))
  BY DEF ViewsOK
<1> DEFINE V == ViewSet(T \cup {selected})
           last == Last(views)
           left == [last EXCEPT !.stream = IF @ = "held" THEN "stopped" ELSE @,
                                !.late = last.stream \in InFlight]
           n == Current
<1>2. /\ n \in Nat \ {0} /\ n = Len(views) /\ views \in Seq(V)
      /\ \A u \in 1..n : views[u] \in V
  <2>1. views \in Seq(V)
    <3>1. ViewSet(T) \subseteq V
      BY DEF ViewSet
    <3> QED
      BY <1>1, <3>1, SeqWider
  <2>2. Len(views) # 0
    BY <1>1 DEF ViewsOK
  <2> HIDE DEF V
  <2> QED
    BY <2>1, <2>2, SeqFacts DEF Current
<1>3. last = views[n]
  BY DEF Last, Current
<1>4. left \in V /\ left.stream # "held" /\ (left.stream \in InFlight => left.late)
  <2>1. last \in V
    BY <1>2, <1>3
  <2> DEFINE stream == IF last.stream = "held" THEN "stopped" ELSE last.stream
             late == last.stream \in InFlight
  <2>2. left = [last EXCEPT !.stream = stream, !.late = late]
    OBVIOUS
  <2>3. last.stream \in Streams /\ stream \in Streams /\ late \in BOOLEAN
    BY <2>1 DEF InFlight, Streams, ViewSet
  <2> HIDE DEF last, left
  <2>4. left = [slug |-> last.slug, stream |-> stream, late |-> late]
    <3> HIDE DEF stream, late
    <3> QED
      BY <2>1, <2>2 DEF ViewSet
  <2>5. last.slug \in T \cup {selected}
    BY <2>1 DEF ViewSet
  <2>6. left \in V /\ left.stream = stream
    <3> HIDE DEF stream, late
    <3> QED
      BY <2>3, <2>4, <2>5 DEF ViewSet
  <2>7. left.late <=> late
    <3> HIDE DEF stream, late
    <3> QED
      BY <2>3, <2>4
  <2> HIDE DEF V
  <2> QED
    BY <2>6, <2>7 DEF InFlight
<1>5. View(selected) \in V
  BY DEF View, Streams, ViewSet
<1>6. views' = Append([views EXCEPT ![n] = left], View(selected))
  BY DEF ShowSelected
<1> HIDE DEF left, V, last
<1> DEFINE w == [views EXCEPT ![n] = left]
<1>7. /\ w \in Seq(V) /\ Len(w) = n
      /\ \A u \in 1..n : w[u] = IF u = n THEN left ELSE views[u]
  <2>1. n \in 1..Len(views)
    BY <1>2
  <2> HIDE DEF n
  <2> QED
    BY <1>2, <1>4, <2>1, SeqUpdate
<1> HIDE DEF w
<1>8. w[n] = left /\ \A u \in 1..(n - 1) : w[u] = views[u]
  BY <1>2, <1>7
<1>9. /\ views' \in Seq(V) /\ Len(views') = n + 1
      /\ \A u \in 1..n : views'[u] = w[u]
  <2>1. views' = Append(w, View(selected))
    BY <1>6 DEF w
  <2> HIDE DEF n
  <2> QED
    BY <1>2, <1>5, <1>7, <2>1
<1>10. Current' = n + 1
  BY <1>9 DEF Current
<1>11. ASSUME NEW u \in 1..n
       PROVE  views'[u].stream # "held" /\ (views'[u].stream \in InFlight => views'[u].late)
  <2>1. CASE u = n
    BY <1>4, <1>8, <1>9, <2>1
  <2>2. CASE u # n
    <3>1. u \in 1..(n - 1) /\ views'[u] = views[u]
      BY <1>2, <1>8, <1>9, <2>2
    <3> QED
      BY <3>1 DEF ViewsOK
  <2> QED
    BY <2>1, <2>2
<1>12. ViewsOK'
  <2>1. views' # <<>>
    BY <1>2, <1>9
  <2>2. \E S : views' \in Seq(ViewSet(S)')
    BY <1>9 DEF V, ViewSet, Streams
  <2>3. (n + 1) - 1 = n
    BY <1>2
  <2> QED
    BY <1>10, <1>11, <2>1, <2>2, <2>3 DEF ViewsOK, InFlight
<1>13. ShownOK'
  <2>1. 0 \in Own'
    BY DEF Own
  <2>2. EmptyBuffer \in Buffers(Own')
    BY DEF EmptyBuffer, Buffers
  <2> QED
    BY <2>1, <2>2 DEF ShownOK, ShowSelected
<1>14. Current' # Current
  BY <1>2, <1>10
<1> QED
  BY <1>12, <1>13, <1>14 DEF PaneOK

\* What changes no view keeps them, and who owns what.
LEMMA ViewsKept ==
    ASSUME ViewsOK, views' = views
    PROVE  ViewsOK' /\ Current' = Current /\ Own' = Own
<1>1. Current' = Current /\ Own' = Own
  BY DEF Current, Own
<1>2. \A T : ViewSet(T)' = ViewSet(T)
  BY DEF ViewSet, Streams
<1> QED
  BY <1>1, <1>2 DEF ViewsOK, InFlight

LEMMA ShownKept ==
    ASSUME ShownOK, Own' = Own, Current' = Current, UNCHANGED <<status, declared>>,
           error' \in Own, pending' \in Seq(Entries(Own)), buffer' \in Buffers(Own)
    PROVE  ShownOK'
<1>1. Entries(Own)' = Entries(Own') /\ Buffers(Own)' = Buffers(Own')
  BY DEF Entries, Buffers, Lines
<1> QED
  BY <1>1 DEF ShownOK

LEMMA StreamStep ==
    ASSUME PaneOK, NEW texts \in SUBSET Chunks, StreamNext(texts)
    PROVE  PaneOK'
<1>1. CASE ShowSelected
  BY <1>1, ShowStep DEF PaneOK
<1>2. CASE PollStatus
  BY <1>2, ViewsKept, ShownKept DEF PaneOK, ShownOK, PollStatus, textVars
<1>3. CASE Coalesce
  <2>1. buffer' \in Buffers(Own) /\ pending' \in Seq(Entries(Own))
    BY <1>3, CoalescedIs DEF PaneOK, ShownOK, Coalesce
  <2>2. UNCHANGED <<views, status, declared, error>>
    BY <1>3 DEF Coalesce, viewVars
  <2> QED
    BY <2>1, <2>2, ViewsKept, ShownKept DEF PaneOK, ShownOK
<1>4. ASSUME NEW ask \in asks, Answered(ask) PROVE PaneOK'
  <2>1. UNCHANGED <<views, error, pending, buffer>>
    BY <1>4 DEF Answered, textVars
  <2>2. ViewsOK' /\ Current' = Current /\ Own' = Own
    BY <2>1, ViewsKept DEF PaneOK
  <2>3. {status', declared'} \subseteq {0, Current}
    BY <1>4 DEF Answered, PaneOK, ShownOK
  <2>4. Entries(Own)' = Entries(Own') /\ Buffers(Own)' = Buffers(Own')
    BY DEF Entries, Buffers, Lines
  <2> QED
    BY <2>1, <2>2, <2>3, <2>4 DEF PaneOK, ShownOK
<1>5. ASSUME NEW v \in 1..Current, Granted(v) \/ Subscribed(v) \/ Failed(v) PROVE PaneOK'
  <2>1. UNCHANGED <<status, declared, pending, buffer>>
    BY <1>5 DEF Granted, Subscribed, Failed, textVars
  <2>2. CASE Granted(v)
    <3>1. v # Current => views[v].late
      <4>1. v # Current => v \in 1..(Current - 1)
        BY <1>5 DEF PaneOK, ViewsOK, Current
      <4> QED
        BY <2>2, <4>1 DEF Granted, PaneOK, ViewsOK, InFlight
    <3>2. ViewsOK' /\ Current' = Current /\ Own' = Own
      BY <2>2, <3>1, BecomesKeepsViews DEF Granted, PaneOK, Streams
    <3> QED
      BY <2>1, <2>2, <3>2, ShownKept DEF PaneOK, ShownOK, Granted
  <2>3. CASE Subscribed(v)
    <3> DEFINE stream == IF v = Current THEN "held" ELSE "stopped"
    <3>1. Becomes(v, stream) /\ stream \in Streams
      BY <2>3 DEF Subscribed, Kept, Streams
    <3>2. v # Current => stream # "held" /\ stream \notin InFlight
      BY DEF InFlight
    <3> HIDE DEF stream
    <3>3. ViewsOK' /\ Current' = Current /\ Own' = Own
      BY <3>1, <3>2, BecomesKeepsViews DEF PaneOK
    <3> QED
      BY <2>1, <2>3, <3>3, ShownKept DEF PaneOK, ShownOK, Subscribed
  <2>4. CASE Failed(v)
    <3>1. ViewsOK' /\ Current' = Current /\ Own' = Own
      BY <2>4, BecomesKeepsViews DEF Failed, PaneOK, Streams, InFlight
    <3>2. error' \in Own
      BY <2>4, StreamsAreOwned DEF Failed, PaneOK
    <3> QED
      BY <2>1, <3>1, <3>2, ShownKept DEF PaneOK, ShownOK
  <2> QED
    BY <1>5, <2>2, <2>3, <2>4
<1>6. ASSUME NEW v \in 1..Current, NEW chunk \in texts, Data(v, chunk) PROVE PaneOK'
  <2>1. UNCHANGED <<views, status, declared, error, buffer>>
    BY <1>6 DEF Data, viewVars
  <2>2. v \in Own
    BY <1>6, StreamsAreOwned DEF Data, PaneOK, InFlight
  <2>3. [view |-> v, chunk |-> chunk] \in Entries(Own)
    BY <2>2 DEF Entries
  <2>4. pending' \in Seq(Entries(Own))
    BY <1>6, <2>3 DEF Data, PaneOK, ShownOK
  <2> QED
    BY <2>1, <2>4, ViewsKept, ShownKept DEF PaneOK, ShownOK
<1> QED
  BY <1>1, <1>2, <1>3, <1>4, <1>5, <1>6 DEF StreamNext

LEMMA ScrollStep ==
    ASSUME PaneOK, ScrollNext \/ UNCHANGED paneVars
    PROVE  PaneOK'
<1>1. UNCHANGED <<viewVars, pending, buffer>>
  <2>1. ASSUME NEW back, ScrollTo(back) PROVE UNCHANGED <<viewVars, pending, buffer>>
    BY <2>1 DEF ScrollTo
  <2>2. ASSUME NEW flt, SetFilter(flt) PROVE UNCHANGED <<viewVars, pending, buffer>>
    BY <2>2 DEF SetFilter
  <2>3. CASE UNCHANGED paneVars
    BY <2>3 DEF paneVars, textVars
  <2> QED
    BY <2>1, <2>2, <2>3 DEF ScrollNext, Scroll, Refilter
<1> QED
  BY <1>1, ViewsKept, ShownKept DEF viewVars, PaneOK, ShownOK

LEMMA PaneIsOK == Spec => []PaneOK
<1>1. Init => PaneOK
  <2> SUFFICES ASSUME Init PROVE PaneOK
    OBVIOUS
  <2>1. views = <<View(Nobody)>> /\ Current = 1 /\ View(Nobody) \in ViewSet({Nobody})
    BY DEF Init, PaneInit, Current, View, ViewSet, Streams
  <2>2. ViewsOK
    <3>1. views \in Seq(ViewSet({Nobody})) /\ views # <<>> /\ 1..(Current - 1) = {}
      BY <2>1
    <3> QED
      BY <3>1 DEF ViewsOK
  <2>3. 0 \in Own /\ EmptyBuffer \in Buffers(Own)
    BY DEF Own, EmptyBuffer, Buffers
  <2>4. ShownOK
    BY <2>3 DEF ShownOK, Init, PaneInit
  <2> QED
    BY <2>2, <2>4 DEF PaneOK
<1>2. PaneOK /\ [Next]_vars => PaneOK'
  <2> SUFFICES ASSUME PaneOK, [Next]_vars PROVE PaneOK'
    OBVIOUS
  <2>1. {CHOOSE t \in Chunks : TRUE} \in SUBSET Chunks /\ Chunks \in SUBSET Chunks
    BY LogPaneAssumption
  <2> QED
    BY <2>1, StreamStep, ScrollStep DEF Next, vars
<1> QED
  BY <1>1, <1>2, PTL DEF Spec

\* "A leaked follow makes the daemon stream into nothing forever" (useLogTail's
\* cancelled flag), and nothing on the screen belongs to an earlier selection: however
\* answers, grants, output and selections interleave, for any number of them.
THEOREM PaneShowsSelection == Spec => []PaneFollowsSelection
<1>1. PaneOK => PaneFollowsSelection
  <2> SUFFICES ASSUME PaneOK PROVE PaneFollowsSelection
    OBVIOUS
  <2>1. \A v \in Own : v \in {0, Current} \/ views[v].late
    BY DEF Own
  <2>2. \A i \in DOMAIN pending : pending[i].view \in Own
    <3>1. \A i \in DOMAIN pending : pending[i] \in Entries(Own)
      BY DEF PaneOK, ShownOK
    <3> QED
      BY <3>1 DEF Entries
  <2>3. \A line \in Range(buffer.lines) : line.view \in Own
    <3>1. buffer.lines \in Seq(Lines(Own))
      BY DEF PaneOK, ShownOK, Buffers
    <3>2. Range(buffer.lines) \subseteq Lines(Own)
      BY <3>1 DEF Range
    <3> QED
      BY <3>2 DEF Lines
  <2> QED
    BY <2>1, <2>2, <2>3 DEF PaneOK, ShownOK, ViewsOK, PaneFollowsSelection
<1> QED
  BY <1>1, PaneIsOK, PTL

-----------------------------------------------------------------------------
(* The palette. *)

Verbs == DOMAIN VERBS
Fields(verb) == Range(VERBS[verb])
Names(verb) == {f.name : f \in Fields(verb)}

\* What is in a scoped field belongs to what its scope is.
Agree(verb, values) ==
    \A f \in Fields(verb) :
        f.scope # "" /\ values[f.name] # "" =>
            /\ values[f.scope] # ""
            /\ values[f.name] \in Belonging(f.kind, values[f.scope])

FormIs(verb, values, field) == form = [verb |-> verb, values |-> values, field |-> field]

FormOK ==
    form # NoForm =>
        /\ form.verb \in Verbs /\ form.field \in DOMAIN VERBS[form.verb]
        /\ FormIs(form.verb, form.values, form.field)
        /\ DOMAIN form.values = Names(form.verb)
        /\ Agree(form.verb, form.values)

\* What was answered is one of the answers; commands are those of their scope.
CacheOK ==
    /\ repos.data \in RepoLists \cup {NoData}
    /\ commands.data # {} => commands.scope # "" /\ commands.data \subseteq CommandsOf[commands.scope]
    /\ \A request \in flying : request.ask = "commands" => request.slug # ""
    /\ repos.asked \in {0, generation} /\ commands.asked \in {0, generation}

ListOK == listed \in Seq(Slugs) /\ targets \in Seq(Slugs)

IInv == ListOK /\ CacheOK /\ FormOK

-----------------------------------------------------------------------------
(* The verbs and their fields. *)

LEMMA VerbsAre ==
    /\ Verbs = {"daemonStatus", "logsFollow", "targetAdd"}
    /\ VERBS["daemonStatus"] = <<>>
    /\ VERBS["logsFollow"] = <<target, command>>
    /\ VERBS["targetAdd"] = <<Field("repoPath", "repo", "", TRUE),
                              Field("checkoutPath", "checkout", "repoPath", TRUE),
                              Field("playbookName", "playbook", "repoPath", TRUE)>>
<1>1. ASSUME NEW x, NEW y, NEW z, NEW V, V = [daemonStatus |-> x, logsFollow |-> y, targetAdd |-> z]
      PROVE  /\ DOMAIN V = {"daemonStatus", "logsFollow", "targetAdd"}
             /\ V["daemonStatus"] = x /\ V["logsFollow"] = y /\ V["targetAdd"] = z
  BY <1>1
<1> QED
  BY <1>1 DEF Verbs, VERBS

LEMMA FieldsAre ==
    /\ Fields("daemonStatus") = {}
    /\ Fields("logsFollow") = {target, command}
    /\ Fields("targetAdd") = {Field("repoPath", "repo", "", TRUE),
                              Field("checkoutPath", "checkout", "repoPath", TRUE),
                              Field("playbookName", "playbook", "repoPath", TRUE)}
<1>1. Range(<<>>) = {}
  BY DEF Range
<1>2. ASSUME NEW x, NEW y PROVE Range(<<x, y>>) = {x, y}
  BY DEF Range
<1>3. ASSUME NEW x, NEW y, NEW z PROVE Range(<<x, y, z>>) = {x, y, z}
  BY DEF Range
<1>4. Fields("daemonStatus") = Range(<<>>)
  BY VerbsAre, Zenon DEF Fields
<1>5. Fields("logsFollow") = Range(<<target, command>>)
  BY VerbsAre, Zenon DEF Fields
<1>6. Fields("targetAdd") = Range(<<Field("repoPath", "repo", "", TRUE),
                                   Field("checkoutPath", "checkout", "repoPath", TRUE),
                                   Field("playbookName", "playbook", "repoPath", TRUE)>>)
  BY VerbsAre, Zenon DEF Fields
<1>7. Fields("daemonStatus") = {}
  BY <1>1, <1>4, Zenon
<1>8. Fields("logsFollow") = {target, command}
  BY <1>2, <1>5, Zenon
<1> QED
  BY <1>3, <1>6, <1>7, <1>8, Zenon

\* The five fields.
LEMMA FieldIs ==
    ASSUME NEW verb \in Verbs, NEW f \in Fields(verb)
    PROVE  \/ verb = "logsFollow" /\ f.name = "target" /\ f.kind = "target" /\ f.scope = ""
           \/ verb = "logsFollow" /\ f.name = "command" /\ f.kind = "label" /\ f.scope = "target"
           \/ verb = "targetAdd" /\ f.name = "repoPath" /\ f.kind = "repo" /\ f.scope = ""
           \/ /\ verb = "targetAdd" /\ f.name = "checkoutPath" /\ f.kind = "checkout"
              /\ f.scope = "repoPath"
           \/ /\ verb = "targetAdd" /\ f.name = "playbookName" /\ f.kind = "playbook"
              /\ f.scope = "repoPath"
<1>1. CASE verb = "daemonStatus"
  BY <1>1, FieldsAre
<1>2. CASE verb = "logsFollow"
  <2>1. f = target \/ f = command
    BY <1>2, FieldsAre
  <2>2. /\ target.name = "target" /\ target.kind = "target" /\ target.scope = ""
        /\ command.name = "command" /\ command.kind = "label" /\ command.scope = "target"
    BY DEF Field, target, command
  <2> QED
    BY <1>2, <2>1, <2>2
<1>3. CASE verb = "targetAdd"
  <2> DEFINE repo == Field("repoPath", "repo", "", TRUE)
             checkout == Field("checkoutPath", "checkout", "repoPath", TRUE)
             playbook == Field("playbookName", "playbook", "repoPath", TRUE)
  <2>1. f \in {repo, checkout, playbook}
    BY <1>3, FieldsAre
  <2>2. /\ repo.name = "repoPath" /\ repo.kind = "repo" /\ repo.scope = ""
        /\ checkout.name = "checkoutPath" /\ checkout.kind = "checkout"
        /\ checkout.scope = "repoPath"
        /\ playbook.name = "playbookName" /\ playbook.kind = "playbook"
        /\ playbook.scope = "repoPath"
    BY DEF Field
  <2> HIDE DEF repo, checkout, playbook
  <2> QED
    BY <1>3, <2>1, <2>2
<1> QED
  BY <1>1, <1>2, <1>3, VerbsAre

LEMMA VerbLengths ==
    /\ Len(VERBS["logsFollow"]) = 2 /\ DOMAIN VERBS["logsFollow"] = 1..2
    /\ Len(VERBS["targetAdd"]) = 3 /\ DOMAIN VERBS["targetAdd"] = 1..3
<1>1. ASSUME NEW x, NEW y PROVE Len(<<x, y>>) = 2 /\ DOMAIN <<x, y>> = 1..2
  OBVIOUS
<1>2. ASSUME NEW x, NEW y, NEW z PROVE Len(<<x, y, z>>) = 3 /\ DOMAIN <<x, y, z>> = 1..3
  OBVIOUS
<1>3. Len(VERBS["logsFollow"]) = 2 /\ DOMAIN VERBS["logsFollow"] = 1..2
  BY <1>1, VerbsAre, Zenon
<1>4. Len(VERBS["targetAdd"]) = 3 /\ DOMAIN VERBS["targetAdd"] = 1..3
  BY <1>2, VerbsAre, Zenon
<1> QED
  BY <1>3, <1>4

\* A field is known by its name; a scope is a field without a scope; what has a
\* scope is picked from lists that belong to something.
LEMMA FieldFacts ==
    ASSUME NEW verb \in Verbs, NEW f \in Fields(verb)
    PROVE  /\ f.name \in Names(verb) /\ FieldNamed(verb, f.name) = f
           /\ f.scope # "" =>
                 /\ f.kind \in {"label", "checkout", "playbook"}
                 /\ f.scope \in Names(verb) /\ FieldNamed(verb, f.scope).scope = ""
<1>1. \A g \in Fields(verb), h \in Fields(verb) : g.name = h.name => g = h
  <2>1. CASE verb = "logsFollow"
    <3>1. Fields(verb) = {target, command} /\ target.name # command.name
      BY <2>1, FieldsAre DEF Field, target, command
    <3> QED
      BY <3>1
  <2>2. CASE verb = "targetAdd"
    <3> DEFINE repo == Field("repoPath", "repo", "", TRUE)
               checkout == Field("checkoutPath", "checkout", "repoPath", TRUE)
               playbook == Field("playbookName", "playbook", "repoPath", TRUE)
    <3>1. Fields(verb) = {repo, checkout, playbook}
      BY <2>2, FieldsAre
    <3>2. /\ repo.name # checkout.name /\ repo.name # playbook.name
          /\ checkout.name # playbook.name
      BY DEF Field
    <3> HIDE DEF repo, checkout, playbook
    <3> QED
      BY <3>1, <3>2
  <2> QED
    BY <2>1, <2>2, FieldIs
<1>2. \A g \in Fields(verb) : FieldNamed(verb, g.name) = g
  BY <1>1 DEF FieldNamed, Fields
<1>3. f.scope # "" => f.kind \in {"label", "checkout", "playbook"}
  BY FieldIs
<1>4. f.scope # "" => \E g \in Fields(verb) : g.name = f.scope /\ g.scope = ""
  <2>1. CASE verb = "logsFollow"
    <3>1. target \in Fields(verb) /\ target.name = "target" /\ target.scope = ""
      BY <2>1, FieldsAre DEF Field, target
    <3> QED
      BY <2>1, <3>1, FieldIs
  <2>2. CASE verb = "targetAdd"
    <3> DEFINE repo == Field("repoPath", "repo", "", TRUE)
    <3>1. repo \in Fields(verb)
      BY <2>2, FieldsAre
    <3>2. repo.name = "repoPath" /\ repo.scope = ""
      BY DEF Field
    <3> HIDE DEF repo
    <3> QED
      BY <2>2, <3>1, <3>2, FieldIs
  <2> QED
    BY <2>1, <2>2, FieldIs
<1> QED
  BY <1>2, <1>3, <1>4 DEF Names

\* Every form has few fields, and each has a name.
LEMMA FormsAreSmall ==
    ASSUME NEW verb \in Verbs
    PROVE  /\ VERBS[verb] = <<>> \/ \E n \in {2, 3} : Len(VERBS[verb]) = n /\ DOMAIN VERBS[verb] = 1..n
           /\ DOMAIN VERBS[verb] \subseteq 1..3
           /\ \A i \in DOMAIN VERBS[verb] : VERBS[verb][i] \in Fields(verb)
           /\ "" \notin Names(verb)
<1>1. \A i \in DOMAIN VERBS[verb] : VERBS[verb][i] \in Fields(verb)
  BY DEF Fields, Range
<1>2. \A f \in Fields(verb) : f.name # ""
  BY FieldIs
<1>3. /\ VERBS[verb] = <<>> \/ \E n \in {2, 3} : Len(VERBS[verb]) = n /\ DOMAIN VERBS[verb] = 1..n
      /\ DOMAIN VERBS[verb] \subseteq 1..3
  <2>1. CASE verb = "daemonStatus"
    <3>1. VERBS[verb] = <<>>
      BY <2>1, VerbsAre
    <3> QED
      BY <3>1
  <2>2. CASE verb \in {"logsFollow", "targetAdd"}
    BY <2>2, VerbLengths
  <2> QED
    BY <2>1, <2>2, VerbsAre
<1> QED
  BY <1>1, <1>2, <1>3 DEF Names

\* What is read off a target goes into one scoped field only.
LEMMA SeededFields ==
    ASSUME NEW verb \in Verbs, NEW f \in Fields(verb), f.scope # ""
    PROVE  /\ f.name \notin {"target", "repoPath"}
           /\ f.name = "playbookName" => f.scope = "repoPath" /\ f.kind = "playbook"
BY FieldIs

LEMMA FirstFieldIs ==
    ASSUME NEW verb \in Verbs, NEW S \in SUBSET DOMAIN VERBS[verb], NEW else
    PROVE  FirstField(S, else) \in S \cup {else}
<1>1. CASE S = {}
  BY <1>1 DEF FirstField
<1>2. CASE S # {}
  <2>1. S \subseteq 1..3
    BY FormsAreSmall
  <2>2. \E x \in S : \A y \in S : x <= y
    BY <1>2, <2>1
  <2> QED
    BY <1>2, <2>2 DEF FirstField, Min
<1> QED
  BY <1>1, <1>2

-----------------------------------------------------------------------------
(* What pickers offer, and what forms make of it. *)

\* A picker offers only what belongs to its scope.
LEMMA Offered ==
    ASSUME CacheOK, NEW kind \in {"label", "checkout", "playbook"}, NEW scope,
           NEW x \in buildItems(kind, scope)
    PROVE  scope # "" /\ x \in Belonging(kind, scope)
<1>1. CASE kind = "label"
  BY <1>1 DEF CacheOK, buildItems, Belonging
<1>2. CASE kind # "label"
  <2>1. kind \in {"checkout", "playbook"}
    BY <1>2
  <2>2. scope \in DOMAIN repos.data /\ x \in repos.data[scope][kind]
    BY <2>1 DEF buildItems
  <2>3. repos.data # NoData
    BY <2>2 DEF NoData
  <2>4. repos.data \in RepoLists
    BY <2>3 DEF CacheOK
  <2>5. scope # ""
    BY <2>2, <2>4, PaletteAssumption
  <2>6. x \in Belonging(kind, scope)
    BY <2>1, <2>2, <2>4 DEF Belonging, ListedFor
  <2> QED
    BY <2>5, <2>6
<1> QED
  BY <1>1, <1>2

\* Whatever is written into a field, what no longer belongs to its scope is
\* emptied with it.
LEMMA ApplyKeepsAgreement ==
    ASSUME CacheOK, NEW verb \in Verbs, NEW values, DOMAIN values = Names(verb),
           Agree(verb, values), NEW g \in Fields(verb), NEW value,
           value = "" \/ g.scope = "" \/ value \in buildItems(g.kind, values[g.scope]),
           NEW w, w = applyFieldValue(verb, values, g.name, value)
    PROVE  DOMAIN w = Names(verb) /\ Agree(verb, w)
<1>1. DOMAIN w = Names(verb)
  BY DEF applyFieldValue
<1>2. ASSUME NEW f \in Fields(verb)
      PROVE  w[f.name] = IF f.name = g.name THEN value
                         ELSE IF f.scope = g.name /\ values[f.name] \notin buildItems(f.kind, value)
                              THEN "" ELSE values[f.name]
  <2>1. f.name \in Names(verb) /\ FieldNamed(verb, f.name) = f
    BY FieldFacts
  <2> QED
    BY <2>1 DEF applyFieldValue
<1>3. ASSUME NEW f \in Fields(verb), f.scope # "", w[f.name] # ""
      PROVE  w[f.scope] # "" /\ w[f.name] \in Belonging(f.kind, w[f.scope])
  <2>1. /\ f.kind \in {"label", "checkout", "playbook"}
        /\ f.scope \in Names(verb) /\ FieldNamed(verb, f.scope).scope = ""
    BY <1>3, FieldFacts
  <2>2. PICK h \in Fields(verb) : h.name = f.scope
    BY <2>1 DEF Names
  <2>3. h.scope = "" /\ g.name # ""
    BY <2>1, <2>2, FieldFacts, FormsAreSmall DEF Names
  <2>4. w[f.scope] = IF f.scope = g.name THEN value ELSE values[f.scope]
    BY <1>2, <2>2, <2>3
  <2>5. CASE f.name = g.name
    <3>1. f = g
      BY <2>5, FieldFacts
    <3>2. f.scope # f.name
      BY <1>3, <2>2, <2>3, FieldFacts
    <3>3. w[f.name] = value /\ w[f.scope] = values[f.scope]
      BY <1>2, <2>4, <2>5, <3>2
    <3>4. value \in buildItems(f.kind, values[f.scope])
      BY <1>3, <3>1, <3>3
    <3> QED
      BY <2>1, <3>3, <3>4, Offered
  <2>6. CASE f.name # g.name /\ f.scope = g.name
    <3>1. w[f.name] = values[f.name] /\ values[f.name] \in buildItems(f.kind, value)
      BY <1>2, <1>3, <2>6
    <3> QED
      BY <2>1, <2>4, <2>6, <3>1, Offered
  <2>7. CASE f.name # g.name /\ f.scope # g.name
    <3>1. w[f.name] = values[f.name] /\ w[f.scope] = values[f.scope]
      BY <1>2, <2>4, <2>7
    <3> QED
      BY <1>3, <3>1 DEF Agree
  <2> QED
    BY <2>5, <2>6, <2>7
<1> QED
  BY <1>1, <1>3 DEF Agree

\* A form that opens on a target has the target's repository and playbook, or
\* neither.
LEMMA SeedsAgree ==
    ASSUME ListOK, NEW verb \in Verbs, NEW slug, NEW w, w = seedValues(verb, slug)
    PROVE  DOMAIN w = Names(verb) /\ Agree(verb, w)
<1>1. DOMAIN w = Names(verb)
  BY DEF seedValues, Names, Fields
<1>2. ASSUME NEW f \in Fields(verb), f.scope # "", w[f.name] # ""
      PROVE  w[f.scope] # "" /\ w[f.name] \in Belonging(f.kind, w[f.scope])
  <2>1. f.name \in Names(verb) /\ f.scope \in Names(verb)
    BY <1>2, FieldFacts
  <2>2. /\ f.name \notin {"target", "repoPath"}
        /\ f.name = "playbookName" => f.scope = "repoPath" /\ f.kind = "playbook"
    BY <1>2, SeededFields
  <2>3. f.name = "playbookName" /\ slug \in Range(targets) /\ w[f.name] = PlaybookOf[slug]
    BY <1>2, <2>1, <2>2 DEF seedValues, Names, Fields
  <2>4. slug \in Slugs
    BY <2>3 DEF ListOK, Range
  <2>5. w[f.scope] = RepoPath[slug]
    BY <2>1, <2>2, <2>3 DEF seedValues, Names, Fields
  <2>6. RepoPath[slug] # ""
    BY <2>4, PaletteAssumption
  <2>7. PlaybookOf[slug] \in Belonging("playbook", RepoPath[slug])
    <3>1. PlaybookOf[slug] \in SeededFor(RepoPath[slug])
      BY <2>4 DEF SeededFor
    <3>2. Belonging("playbook", RepoPath[slug])
            = ListedFor("playbook", RepoPath[slug]) \cup SeededFor(RepoPath[slug])
      BY DEF Belonging
    <3> QED
      BY <3>1, <3>2
  <2> QED
    BY <2>2, <2>3, <2>5, <2>6, <2>7
<1> QED
  BY <1>1, <1>2 DEF Agree

-----------------------------------------------------------------------------
(* The steps of the palette. *)

\* A form whose values and field are what they should be.
LEMMA FormWritten ==
    ASSUME NEW verb \in Verbs, NEW values, NEW field \in DOMAIN VERBS[verb],
           form' = [verb |-> verb, values |-> values, field |-> field],
           DOMAIN values = Names(verb), Agree(verb, values)
    PROVE  FormOK'
BY DEF FormOK, FormIs

LEMMA CacheOnly ==
    ASSUME UNCHANGED <<repos, commands, flying, generation>>, CacheOK
    PROVE  CacheOK'
BY DEF CacheOK, buildItems

LEMMA OpenStep ==
    ASSUME IInv, NEW slug, OpenPalette(slug)
    PROVE  IInv'
<1>1. ListOK'
  BY DEF IInv, ListOK, OpenPalette, listVars
<1>2. CacheOK'
  BY DEF IInv, CacheOK, OpenPalette, IdleRepos, IdleCommands, NoData
<1>3. FormOK'
  BY DEF OpenPalette, FormOK
<1> QED
  BY <1>1, <1>2, <1>3 DEF IInv

LEMMA LoadKeepsCache ==
    ASSUME CacheOK, NEW kind, NEW scope, Load(kind, scope), generation' = generation
    PROVE  CacheOK'
<1>1. CASE UNCHANGED cacheVars
  BY <1>1, CacheOnly DEF cacheVars
<1>2. CASE /\ repos' = [data |-> NoData, asked |-> generation]
           /\ flying' = flying \cup {[ask |-> "repos", slug |-> Nobody, gen |-> generation]}
           /\ UNCHANGED commands
  <2>1. repos'.data = NoData /\ repos'.asked = generation
    BY <1>2
  <2>2. \A request \in flying' : request.ask = "commands" => request \in flying
    <3> DEFINE new == [ask |-> "repos", slug |-> Nobody, gen |-> generation]
    <3>1. new.ask = "repos" /\ flying' = flying \cup {new}
      BY <1>2
    <3> HIDE DEF new
    <3> QED
      BY <3>1
  <2> QED
    BY <1>2, <2>1, <2>2 DEF CacheOK
<1>3. CASE /\ scope # "" /\ UNCHANGED repos
           /\ commands' = [scope |-> scope, data |-> CommandsOf[scope], asked |-> generation]
           /\ UNCHANGED flying
  BY <1>3 DEF CacheOK
<1>4. CASE /\ scope # "" /\ UNCHANGED repos
           /\ commands' = [scope |-> scope, data |-> {}, asked |-> generation]
           /\ flying' = flying \cup {[ask |-> "commands", slug |-> scope, gen |-> generation]}
  <2>1. commands'.data = {} /\ commands'.asked = generation
    BY <1>4
  <2>2. \A request \in flying' : request \in flying \/ request.slug # ""
    <3> DEFINE new == [ask |-> "commands", slug |-> scope, gen |-> generation]
    <3>1. new.slug # "" /\ flying' = flying \cup {new}
      BY <1>4
    <3> HIDE DEF new
    <3> QED
      BY <3>1
  <2> QED
    BY <1>4, <2>1, <2>2 DEF CacheOK
<1> QED
  BY <1>1, <1>2, <1>3, <1>4 DEF Load

LEMMA AnswerStep ==
    ASSUME IInv, NEW request \in flying, Answer(request)
    PROVE  IInv'
<1>1. ListOK' /\ FormOK'
  BY DEF IInv, ListOK, FormOK, FormIs, Answer, sidebarVars, listVars
<1>2. CacheOK'
  <2>1. flying' \subseteq flying /\ generation' = generation /\ CacheOK
    BY DEF Answer, IInv
  <2>2. CASE UNCHANGED <<repos, commands>>
    BY <2>1, <2>2 DEF CacheOK
  <2>3. CASE /\ request.gen = generation /\ UNCHANGED commands
             /\ repos' \in [data : RepoLists, asked : {request.gen}] \/ repos' = IdleRepos
    <3>1. repos'.data \in RepoLists \cup {NoData} /\ repos'.asked \in {0, generation}
      <4>1. CASE repos' = IdleRepos
        BY <4>1 DEF IdleRepos
      <4>2. CASE repos' \in [data : RepoLists, asked : {request.gen}]
        BY <2>3, <4>2
      <4> QED
        BY <2>3, <4>1, <4>2
    <3> QED
      BY <2>1, <2>3, <3>1 DEF CacheOK
  <2>4. CASE /\ request.gen = generation /\ request.ask = "commands" /\ UNCHANGED repos
             /\ \/ commands' = [scope |-> request.slug, data |-> CommandsOf[request.slug],
                               asked |-> request.gen]
                \/ commands' = [scope |-> request.slug, data |-> {}, asked |-> request.gen]
    <3>1. /\ commands'.scope = request.slug /\ commands'.asked = generation
          /\ commands'.data \subseteq CommandsOf[request.slug]
      BY <2>4
    <3>2. request.slug # ""
      BY <2>1, <2>4 DEF CacheOK
    <3> QED
      BY <2>1, <2>4, <3>1, <3>2 DEF CacheOK
  <2> QED
    BY <2>2, <2>3, <2>4 DEF Answer, ForThisSession
<1> QED
  BY <1>1, <1>2 DEF IInv

LEMMA KeyStep ==
    ASSUME IInv, Escape \/ (\E verb \in DOMAIN VERBS : StartVerb(verb))
    PROVE  IInv'
<1>1. UNCHANGED <<cacheVars, generation, sidebarVars>>
  BY DEF Escape, StartVerb, ToMode
<1>2. ListOK' /\ CacheOK'
  BY <1>1, CacheOnly DEF IInv, ListOK, cacheVars, sidebarVars, listVars
<1>3. FormOK'
  <2>1. CASE form' = form \/ form' = NoForm
    BY <2>1 DEF IInv, FormOK, FormIs
  <2>2. ASSUME NEW verb \in Verbs, NEW slug, VERBS[verb] # <<>>,
               form' = [verb |-> verb, values |-> seedValues(verb, slug),
                        field |-> FirstField(missing(verb, seedValues(verb, slug)), 1)]
        PROVE  FormOK'
    <3>1. missing(verb, seedValues(verb, slug)) \subseteq DOMAIN VERBS[verb]
      BY DEF missing
    <3>2. 1 \in DOMAIN VERBS[verb]
      <4>1. PICK n \in {2, 3} : DOMAIN VERBS[verb] = 1..n
        BY <2>2, FormsAreSmall
      <4> QED
        BY <4>1
    <3>3. FirstField(missing(verb, seedValues(verb, slug)), 1) \in DOMAIN VERBS[verb]
      BY <3>1, <3>2, FirstFieldIs
    <3>4. /\ DOMAIN seedValues(verb, slug) = Names(verb)
          /\ Agree(verb, seedValues(verb, slug))
      BY SeedsAgree DEF IInv
    <3> QED
      BY <2>2, <3>3, <3>4, FormWritten
  <2> QED
    BY <2>1, <2>2 DEF Escape, StartVerb, Verbs
<1> QED
  BY <1>2, <1>3 DEF IInv

\* A value is written into the form.
LEMMA WriteKeepsForm ==
    ASSUME CacheOK, FormOK, form # NoForm, NEW i \in DOMAIN VERBS[form.verb], NEW value,
           WriteField(i, value),
           value = "" \/ value \in buildItems(FieldAt(i).kind, Scope(FieldAt(i)))
    PROVE  FormOK'
<1> DEFINE values == applyFieldValue(form.verb, form.values, FieldAt(i).name, value)
           empty == {j \in DOMAIN VERBS[form.verb] : j > i /\ values[FieldAt(j).name] = ""}
           field == IF value = "" THEN form.field ELSE FirstField(empty, i)
<1>1. /\ form.verb \in Verbs /\ form.field \in DOMAIN VERBS[form.verb]
      /\ DOMAIN form.values = Names(form.verb) /\ Agree(form.verb, form.values)
      /\ form = [verb |-> form.verb, values |-> form.values, field |-> form.field]
  BY DEF FormOK, FormIs
<1>2. FieldAt(i) \in Fields(form.verb)
  BY <1>1, FormsAreSmall DEF FieldAt
<1>3. DOMAIN values = Names(form.verb) /\ Agree(form.verb, values)
  BY <1>1, <1>2, ApplyKeepsAgreement DEF Scope
<1>4. field \in DOMAIN VERBS[form.verb]
  BY <1>1, FirstFieldIs
<1>5. form' = [verb |-> form.verb, values |-> values, field |-> field]
  BY <1>1 DEF WriteField
<1> HIDE DEF values, field
<1> QED
  BY <1>1, <1>3, <1>4, <1>5, FormWritten

\* The focus moves.
LEMMA FieldKeepsForm ==
    ASSUME FormOK, form # NoForm, NEW i \in DOMAIN VERBS[form.verb],
           form' = [form EXCEPT !.field = i]
    PROVE  FormOK'
<1>1. /\ form.verb \in Verbs
      /\ DOMAIN form.values = Names(form.verb) /\ Agree(form.verb, form.values)
      /\ form = [verb |-> form.verb, values |-> form.values, field |-> form.field]
  BY DEF FormOK, FormIs
<1>2. form' = [verb |-> form.verb, values |-> form.values, field |-> i]
  BY <1>1
<1> QED
  BY <1>1, <1>2, FormWritten

LEMMA PickerStep ==
    ASSUME IInv, form # NoForm, NEW i \in DOMAIN VERBS[form.verb], OpenPicker(i)
    PROVE  IInv'
<1>1. CacheOK'
  BY LoadKeepsCache DEF IInv, OpenPicker
<1>2. FormOK' /\ ListOK'
  BY FieldKeepsForm DEF IInv, ListOK, OpenPicker, sidebarVars, listVars
<1> QED
  BY <1>1, <1>2 DEF IInv

LEMMA FormStep ==
    ASSUME IInv, form # NoForm, ChoosePick \/ Backspace \/ Tab
    PROVE  IInv'
<1>1. form.verb \in Verbs /\ form.field \in DOMAIN VERBS[form.verb]
  BY DEF IInv, FormOK
<1>2. ListOK' /\ CacheOK'
  <2>1. UNCHANGED <<cacheVars, generation, sidebarVars>>
    BY DEF ChoosePick, Backspace, Tab, ToMode
  <2> QED
    BY <2>1, CacheOnly DEF IInv, ListOK, cacheVars, sidebarVars, listVars
<1>3. CASE ChoosePick
  <2>1. FormOK'
    BY <1>1, <1>3, WriteKeepsForm DEF IInv, ChoosePick
  <2> QED
    BY <1>2, <2>1 DEF IInv
<1>4. CASE Backspace
  <2>1. FormOK'
    BY <1>1, <1>4, WriteKeepsForm DEF IInv, Backspace
  <2> QED
    BY <1>2, <2>1 DEF IInv
<1>5. CASE Tab
  <2>1. PICK n \in {2, 3} : Len(VERBS[form.verb]) = n /\ DOMAIN VERBS[form.verb] = 1..n
    <3>1. VERBS[form.verb] # <<>>
      BY <1>1
    <3> QED
      BY <1>1, <3>1, FormsAreSmall
  <2>2. PICK i : i \in {1 + (form.field % n), 1 + ((form.field - 2) % n)}
                   /\ form' = [form EXCEPT !.field = i]
    BY <1>5, <2>1 DEF Tab
  <2>3. i \in 1..n
    <3>1. form.field \in 1..n
      BY <1>1, <2>1
    <3>2. \A k \in 1..n : 1 + (k % n) \in 1..n /\ 1 + ((k - 2) % n) \in 1..n
      <4>1. CASE n = 2
        BY <4>1
      <4>2. CASE n = 3
        BY <4>2
      <4> QED
        BY <2>1, <4>1, <4>2
    <3> QED
      BY <2>2, <3>1, <3>2
  <2>4. FormOK'
    BY <2>1, <2>2, <2>3, FieldKeepsForm DEF IInv
  <2> QED
    BY <1>2, <2>4 DEF IInv
<1> QED
  BY <1>3, <1>4, <1>5

LEMMA SubmitStep ==
    ASSUME IInv, Submit
    PROVE  IInv'
<1>1. ListOK' /\ CacheOK' /\ FormOK'
  BY CacheOnly DEF IInv, Submit, ListOK, FormOK, cacheVars, listVars
<1> QED
  BY <1>1 DEF IInv

-----------------------------------------------------------------------------
(* The steps of the list, which the palette shares, and all steps. *)

LEMMA ElsewhereStep ==
    ASSUME IInv, UNCHANGED paletteVars, ListOK'
    PROVE  IInv'
<1>1. CacheOK' /\ FormOK'
  BY CacheOnly DEF IInv, paletteVars, FormOK, FormIs
<1> QED
  BY <1>1 DEF IInv

LEMMA ListStep ==
    ASSUME ListOK, ListNext
    PROVE  ListOK'
<1>1. CASE ListChanges
  BY <1>1, SidebarAssumption DEF ListOK, ListChanges
<1>2. CASE Refresh
  BY <1>2 DEF ListOK, Refresh
<1>3. CASE FixSelection
  BY <1>3 DEF ListOK, FixSelection, listVars
<1> QED
  BY <1>1, <1>2, <1>3 DEF ListNext

\* Keys, the mouse and the view state leave the list alone.
LEMMA ListIsLeftAlone ==
    ASSUME ListOK, ViewNext \/ MoveKeys \/ UNCHANGED sidebarVars
    PROVE  ListOK'
<1>1. CASE ViewNext
  BY <1>1 DEF ViewNext, FlushUi, UiServed, Hydrate, FoldSelected, Press, Release, Drop, Drag,
              DropNowhere, DropEdge, DragEdge, listVars, ListOK
<1>2. CASE MoveKeys
  BY <1>2 DEF MoveKeys, MoveSelection, listVars, ListOK
<1>3. CASE UNCHANGED sidebarVars
  BY <1>3 DEF sidebarVars, listVars, ListOK
<1> QED
  BY <1>1, <1>2, <1>3

\* The pane does too.
LEMMA PaneLeavesListAlone ==
    ASSUME NEW texts, StreamNext(texts) \/ ScrollNext
    PROVE  UNCHANGED sidebarVars
<1>1. CASE StreamNext(texts)
  BY <1>1 DEF StreamNext, ShowSelected, PollStatus, Coalesce, Answered, Granted, Subscribed,
              Failed, Data
<1>2. CASE ScrollNext
  <2>1. ASSUME NEW back, ScrollTo(back) PROVE UNCHANGED sidebarVars
    BY <2>1 DEF ScrollTo
  <2>2. ASSUME NEW flt, SetFilter(flt) PROVE UNCHANGED sidebarVars
    BY <2>2 DEF SetFilter
  <2> QED
    BY <1>2, <2>1, <2>2 DEF ScrollNext, Scroll, Refilter
<1> QED
  BY <1>1, <1>2

LEMMA PaletteStep ==
    ASSUME IInv, PaletteNext
    PROVE  IInv'
<1>1. CASE \E slug \in Range(VisibleSlugs) \cup {Nobody} : OpenPalette(slug)
  BY <1>1, OpenStep
<1>2. CASE \E request \in flying : Answer(request)
  BY <1>2, AnswerStep
<1>3. CASE Escape \/ (\E verb \in DOMAIN VERBS : StartVerb(verb))
  BY <1>3, KeyStep
<1>4. CASE form # NoForm /\ (\E i \in DOMAIN VERBS[form.verb] : OpenPicker(i))
  BY <1>4, PickerStep
<1>5. CASE form # NoForm /\ (ChoosePick \/ Backspace \/ Tab)
  BY <1>5, FormStep
<1>6. CASE form # NoForm /\ Enter
  <2>1. CASE form.field \in missing(form.verb, form.values) /\ OpenPicker(form.field)
    <3>1. form.field \in DOMAIN VERBS[form.verb]
      BY <1>6 DEF IInv, FormOK
    <3> QED
      BY <1>6, <2>1, <3>1, PickerStep
  <2>2. CASE Submit
    BY <2>2, SubmitStep
  <2> QED
    BY <1>6, <2>1, <2>2 DEF Enter
<1> QED
  BY <1>1, <1>2, <1>3, <1>4, <1>5, <1>6 DEF PaletteNext

LEMMA InitIsOK ==
    ASSUME Init
    PROVE  IInv
<1>1. listed \in Seq(Slugs)
  BY SidebarAssumption DEF Init, SidebarInit
<1>2. targets \in Seq(Slugs)
  BY DEF Init, SidebarInit
<1>3. CacheOK
  BY DEF Init, PaletteInit, CacheOK, IdleRepos, IdleCommands
<1>4. FormOK
  BY DEF Init, PaletteInit, FormOK
<1> QED
  BY <1>1, <1>2, <1>3, <1>4 DEF IInv, ListOK

LEMMA StepIsOK ==
    ASSUME IInv, [Next]_vars
    PROVE  IInv'
<1>1. CASE PaletteNext
  BY <1>1, PaletteStep
<1>2. CASE ListNext /\ UNCHANGED paletteVars
  BY <1>2, ListStep, ElsewhereStep DEF IInv
<1>3. CASE (ViewNext \/ MoveKeys \/ UNCHANGED sidebarVars) /\ UNCHANGED paletteVars
  BY <1>3, ListIsLeftAlone, ElsewhereStep DEF IInv
<1> QED
  <2>1. CASE UNCHANGED vars
    BY <1>3, <2>1 DEF vars
  <2>2. CASE focus = "scroll" /\ (StreamNext(Chunks) \/ ScrollNext) /\ UNCHANGED paletteVars
    BY <1>3, <2>2, PaneLeavesListAlone
  <2> QED
    BY <1>1, <1>2, <1>3, <2>1, <2>2, PaneLeavesListAlone DEF Next, ListNext

\* "A half-changed form cannot submit a checkout from one repo with a playbook from
\* another" (applyFieldValue, seedValues): whatever the daemon answers to repo.list and
\* to questions about commands, in whatever order, however many requests are under way,
\* what is in a field that has a scope belongs to what the scope is now.
THEOREM FormsBelongTogether == Spec => []FormsAgree
<1>1. Init => IInv
  BY InitIsOK
<1>2. IInv /\ [Next]_vars => IInv'
  BY StepIsOK
<1>3. IInv => FormsAgree
  BY DEF IInv, FormOK, CacheOK, FormsAgree, Agree, Fields
<1> QED
  BY <1>1, <1>2, <1>3, PTL DEF Spec

-----------------------------------------------------------------------------
(* Selections from a list. *)

\* The selection of a list's first k members, one after the other.
Selects(g, p, S, n) ==
    /\ g[0] = <<>>
    /\ \A k \in 1..n : g[k] = IF p[k] \in S THEN Append(g[k - 1], p[k]) ELSE g[k - 1]

LEMMA OnlyIs ==
    ASSUME NEW p, NEW S, NEW n \in Nat, Len(p) = n
    PROVE  \E g : Selects(g, p, S, n) /\ g[n] = Only(p, S)
<1> DEFINE Next1(f, m) == IF m = 0 THEN <<>>
                          ELSE IF p[m] \in S THEN Append(f[m - 1], p[m]) ELSE f[m - 1]
           Rec(f, k) == f = [m \in 0..k |-> IF m = 0 THEN <<>>
                                ELSE IF p[m] \in S THEN Append(f[m - 1], p[m]) ELSE f[m - 1]]
           T == {k \in Nat : \E f : Rec(f, k)}
           first == CHOOSE f : Rec(f, n)
<1>1. 0 \in T
  <2> DEFINE f == [m \in 0..0 |-> <<>>]
  <2>1. Rec(f, 0)
    OBVIOUS
  <2> QED
    BY <2>1
<1>2. ASSUME NEW k \in Nat, k \in T PROVE k + 1 \in T
  <2>1. PICK f : Rec(f, k)
    BY <1>2
  <2> DEFINE g == [m \in 0..(k + 1) |-> Next1(f, m)]
  <2>2. \A m \in 0..k : g[m] = f[m]
    <3> SUFFICES ASSUME NEW m \in 0..k PROVE g[m] = f[m]
      OBVIOUS
    <3>1. f[m] = Next1(f, m)
      BY <2>1
    <3>2. g[m] = Next1(f, m)
      <4>1. m \in 0..(k + 1)
        OBVIOUS
      <4> QED
        BY <4>1, Zenon
    <3> QED
      BY <3>1, <3>2, Zenon
  <2>3. \A m \in 0..(k + 1) : Next1(f, m) = Next1(g, m)
    <3> SUFFICES ASSUME NEW m \in 0..(k + 1) PROVE Next1(f, m) = Next1(g, m)
      OBVIOUS
    <3>1. CASE m = 0
      BY <3>1
    <3>2. CASE m # 0
      <4>1. m - 1 \in 0..k
        BY <3>2
      <4>2. g[m - 1] = f[m - 1]
        BY <2>2, <4>1
      <4> HIDE DEF g
      <4> QED
        BY <4>2
    <3> QED
      BY <3>1, <3>2
  <2>4. Rec(g, k + 1)
    <3> DEFINE h == g
    <3>1. g = [m \in 0..(k + 1) |-> Next1(h, m)]
      BY <2>3, Zenon
    <3> QED
      BY <3>1, Zenon
  <2> HIDE DEF g, Rec
  <2> QED
    BY <2>4
<1>3. \E f : Rec(f, n)
  BY <1>1, <1>2, NatSetInduction
<1>4. Rec(first, n)
  BY <1>3
<1>5. Only(p, S) = first[n]
  BY DEF Only
<1> HIDE DEF first
<1>6. \A m \in 0..n : first[m] = Next1(first, m)
  BY <1>4, Zenon
<1>7. Selects(first, p, S, n)
  <2>1. first[0] = <<>>
    BY <1>6
  <2>2. ASSUME NEW k \in 1..n
        PROVE  first[k] = IF p[k] \in S THEN Append(first[k - 1], p[k]) ELSE first[k - 1]
    <3>1. k \in 0..n /\ k # 0
      OBVIOUS
    <3>2. first[k] = Next1(first, k)
      BY <1>6, <3>1
    <3> QED
      BY <3>1, <3>2
  <2> QED
    BY <2>1, <2>2 DEF Selects
<1> QED
  BY <1>5, <1>7

\* h is where the members of q are among the first k of p: those that are in S.
PicksTo(p, S, q, h, k) ==
    /\ Len(q) = Len(h)
    /\ \A i \in 1..Len(h) : h[i] \in 1..k /\ p[h[i]] \in S /\ q[i] = p[h[i]]
    /\ \A i, j \in 1..Len(h) : i < j => h[i] < h[j]
    /\ \A m \in 1..k : p[m] \in S => \E i \in 1..Len(h) : h[i] = m

Picked(E, p, S, q, k) == q \in Seq(E) /\ \E h \in Seq(Nat) : PicksTo(p, S, q, h, k)

LEMMA PickNext ==
    ASSUME NEW E, NEW S, NEW p \in Seq(E), NEW q, NEW k \in Nat, k + 1 \in 1..Len(p),
           Picked(E, p, S, q, k)
    PROVE  Picked(E, p, S, IF p[k + 1] \in S THEN Append(q, p[k + 1]) ELSE q, k + 1)
<1>1. PICK h \in Seq(Nat) : PicksTo(p, S, q, h, k)
  BY DEF Picked
<1>2. q \in Seq(E) /\ p[k + 1] \in E /\ Len(q) = Len(h) /\ Len(h) \in Nat
  BY <1>1 DEF Picked, PicksTo
<1>3. CASE p[k + 1] \notin S
  <2>1. PicksTo(p, S, q, h, k + 1)
    BY <1>1, <1>3 DEF PicksTo
  <2> QED
    BY <1>2, <1>3, <2>1 DEF Picked
<1>4. CASE p[k + 1] \in S
  <2> DEFINE x == p[k + 1]
             q1 == Append(q, x)
             h1 == Append(h, k + 1)
             n == Len(h)
  <2>1. q1 \in Seq(E) /\ Len(q1) = n + 1 /\ q1[n + 1] = x /\ \A i \in 1..n : q1[i] = q[i]
    <3> HIDE DEF x
    <3> QED
      BY <1>2 DEF x
  <2>2. h1 \in Seq(Nat) /\ Len(h1) = n + 1 /\ h1[n + 1] = k + 1 /\ \A i \in 1..n : h1[i] = h[i]
    OBVIOUS
  <2> HIDE DEF q1, h1
  <2>3. \A i \in 1..(n + 1) : i \in 1..n \/ i = n + 1
    BY <1>2
  <2>4. ASSUME NEW i \in 1..(n + 1)
        PROVE  h1[i] \in 1..(k + 1) /\ p[h1[i]] \in S /\ q1[i] = p[h1[i]]
    <3>1. CASE i = n + 1
      BY <1>4, <2>1, <2>2, <3>1
    <3>2. CASE i \in 1..n
      <4>1. h[i] \in 1..k /\ p[h[i]] \in S /\ q[i] = p[h[i]]
        BY <1>1, <3>2 DEF PicksTo
      <4>2. h1[i] = h[i] /\ q1[i] = q[i]
        BY <2>1, <2>2, <3>2
      <4> QED
        BY <4>1, <4>2
    <3> QED
      BY <2>3, <3>1, <3>2
  <2>5. ASSUME NEW i \in 1..(n + 1), NEW j \in 1..(n + 1), i < j PROVE h1[i] < h1[j]
    <3>1. i \in 1..n /\ h1[i] = h[i] /\ h[i] \in 1..k
      BY <1>1, <1>2, <2>2, <2>5 DEF PicksTo
    <3>2. CASE j = n + 1
      BY <2>2, <3>1, <3>2
    <3>3. CASE j # n + 1
      BY <1>1, <1>2, <2>2, <2>3, <2>5, <3>1, <3>3 DEF PicksTo
    <3> QED
      BY <3>2, <3>3
  <2>6. ASSUME NEW m \in 1..(k + 1), p[m] \in S PROVE \E i \in 1..(n + 1) : h1[i] = m
    <3>1. CASE m = k + 1
      BY <1>2, <2>2, <3>1
    <3>2. CASE m # k + 1
      <4>1. PICK i \in 1..n : h[i] = m
        BY <1>1, <2>6, <3>2 DEF PicksTo
      <4> QED
        BY <1>2, <2>2, <4>1
    <3> QED
      BY <3>1, <3>2
  <2>7. PicksTo(p, S, q1, h1, k + 1)
    BY <2>1, <2>2, <2>4, <2>5, <2>6 DEF PicksTo
  <2> QED
    BY <1>4, <2>1, <2>2, <2>7 DEF Picked, q1
<1> QED
  BY <1>3, <1>4

\* What a selection is: the members that are in the set, once per place, in order.
LEMMA OnlyPicks ==
    ASSUME NEW E, NEW p \in Seq(E), NEW S
    PROVE  Picked(E, p, S, Only(p, S), Len(p))
<1>1. PICK n \in Nat : Len(p) = n
  OBVIOUS
<1>2. PICK g : Selects(g, p, S, n) /\ g[n] = Only(p, S)
  BY <1>1, OnlyIs
<1> DEFINE T == {k \in Nat : k <= n => Picked(E, p, S, g[k], k)}
<1>3. 0 \in T
  <2>1. PicksTo(p, S, <<>>, <<>>, 0)
    BY DEF PicksTo
  <2>2. <<>> \in Seq(E) /\ <<>> \in Seq(Nat)
    OBVIOUS
  <2>3. Picked(E, p, S, <<>>, 0)
    BY <2>1, <2>2 DEF Picked
  <2> QED
    BY <1>2, <2>3 DEF Selects
<1>4. ASSUME NEW k \in Nat, k \in T PROVE k + 1 \in T
  <2>1. SUFFICES ASSUME k + 1 <= n PROVE Picked(E, p, S, g[k + 1], k + 1)
    OBVIOUS
  <2>2. k + 1 \in 1..n /\ (k + 1) - 1 = k /\ Picked(E, p, S, g[k], k)
    BY <1>4, <2>1
  <2>3. g[k + 1] = IF p[k + 1] \in S THEN Append(g[k], p[k + 1]) ELSE g[k]
    BY <1>2, <2>2 DEF Selects
  <2>4. Picked(E, p, S, IF p[k + 1] \in S THEN Append(g[k], p[k + 1]) ELSE g[k], k + 1)
    BY <1>1, <2>2, PickNext
  <2> QED
    BY <2>3, <2>4
<1>5. n \in T
  BY <1>3, <1>4, NatSetInduction
<1> QED
  BY <1>1, <1>2, <1>5

LEMMA OnlyMembers ==
    ASSUME NEW E, NEW p \in Seq(E), NEW S
    PROVE  /\ Only(p, S) \in Seq(E) /\ Range(Only(p, S)) = Range(p) \cap S
           /\ IsInjective(p) => IsInjective(Only(p, S))
<1> DEFINE q == Only(p, S)
           n == Len(p)
<1> HIDE DEF q
<1>1. q \in Seq(E) /\ Picked(E, p, S, q, n)
  BY OnlyPicks DEF Picked, q
<1>2. PICK h \in Seq(Nat) : PicksTo(p, S, q, h, n)
  BY <1>1 DEF Picked
<1>3. /\ n \in Nat /\ Len(h) \in Nat /\ Len(q) = Len(h)
      /\ DOMAIN p = 1..n /\ DOMAIN q = 1..Len(h)
  BY <1>1, <1>2 DEF PicksTo
<1>4. Range(q) = Range(p) \cap S
  <2>1. ASSUME NEW i \in 1..Len(h) PROVE q[i] \in Range(p) \cap S
    BY <1>2, <1>3 DEF PicksTo, Range
  <2>2. ASSUME NEW m \in 1..n, p[m] \in S PROVE \E i \in 1..Len(h) : q[i] = p[m]
    BY <1>2, <2>2 DEF PicksTo
  <2> QED
    BY <1>3, <2>1, <2>2 DEF Range
<1>5. ASSUME IsInjective(p) PROVE IsInjective(q)
  <2> SUFFICES ASSUME NEW i \in 1..Len(h), NEW j \in 1..Len(h), q[i] = q[j] PROVE i = j
    BY <1>3 DEF IsInjective
  <2>1. h[i] = h[j]
    BY <1>2, <1>3, <1>5 DEF PicksTo, IsInjective
  <2>2. h[i] \in Nat /\ (i < j => h[i] < h[j]) /\ (j < i => h[j] < h[i])
    BY <1>2, <1>3 DEF PicksTo
  <2> QED
    BY <2>1, <2>2, <1>3
<1> QED
  BY <1>1, <1>4, <1>5 DEF q

\* Lists of members of E, each of them once.
Once(E) == {list \in Seq(E) : IsInjective(list)}

LEMMA OnlyOnce ==
    ASSUME NEW E, NEW p \in Once(E), NEW S
    PROVE  Only(p, S) \in Once(E) /\ Range(Only(p, S)) = Range(p) \cap S
BY OnlyMembers DEF Once

LEMMA CatOnce ==
    ASSUME NEW E, NEW p \in Once(E), NEW q \in Once(E), Range(p) \cap Range(q) = {}
    PROVE  p \o q \in Once(E) /\ Range(p \o q) = Range(p) \cup Range(q)
<1> DEFINE s == p \o q
           m == Len(p)
           n == Len(q)
<1>1. /\ p \in Seq(E) /\ q \in Seq(E) /\ IsInjective(p) /\ IsInjective(q)
      /\ m \in Nat /\ n \in Nat /\ DOMAIN p = 1..m /\ DOMAIN q = 1..n
  BY DEF Once
<1>2. /\ s \in Seq(E) /\ DOMAIN s = 1..(m + n)
      /\ \A i \in 1..m : s[i] = p[i]
      /\ \A i \in 1..n : s[m + i] = q[i]
  BY <1>1
<1> HIDE DEF s
<1>3. ASSUME NEW i \in 1..(m + n)
      PROVE  i \in 1..m \/ (i - m \in 1..n /\ s[i] = q[i - m])
  <2>1. SUFFICES ASSUME i \notin 1..m PROVE i - m \in 1..n /\ s[i] = q[i - m]
    OBVIOUS
  <2>2. i - m \in 1..n /\ m + (i - m) = i
    BY <1>1, <2>1
  <2> QED
    BY <1>2, <2>2
<1>4. ASSUME NEW i \in 1..m PROVE i \in 1..(m + n) /\ s[i] \in Range(p)
  BY <1>1, <1>2 DEF Range
<1>5. ASSUME NEW i \in 1..n PROVE m + i \in 1..(m + n) /\ s[m + i] \in Range(q)
  BY <1>1, <1>2 DEF Range
<1>6. IsInjective(s)
  <2> SUFFICES ASSUME NEW i \in 1..(m + n), NEW j \in 1..(m + n), s[i] = s[j] PROVE i = j
    BY <1>2 DEF IsInjective
  <2>1. CASE i \in 1..m /\ j \in 1..m
    BY <1>1, <1>2, <2>1 DEF IsInjective
  <2>2. CASE i \notin 1..m /\ j \notin 1..m
    <3>1. i - m \in 1..n /\ j - m \in 1..n /\ q[i - m] = q[j - m]
      BY <1>3, <2>2
    <3>2. i - m = j - m
      BY <1>1, <3>1 DEF IsInjective
    <3> QED
      BY <1>1, <3>2
  <2>3. ASSUME NEW a \in 1..m, NEW b \in 1..(m + n), b \notin 1..m PROVE s[a] # s[b]
    <3>1. b - m \in 1..n /\ s[b] = q[b - m]
      BY <1>3, <2>3
    <3>2. s[b] \in Range(q)
      BY <1>1, <3>1 DEF Range
    <3> QED
      BY <1>4, <3>2
  <2> QED
    BY <2>1, <2>2, <2>3
<1>7. Range(s) = Range(p) \cup Range(q)
  <2>1. Range(s) \subseteq Range(p) \cup Range(q)
    <3> SUFFICES ASSUME NEW i \in 1..(m + n) PROVE s[i] \in Range(p) \cup Range(q)
      BY <1>2 DEF Range
    <3> QED
      BY <1>1, <1>3, <1>4 DEF Range
  <2>2. Range(p) \subseteq Range(s)
    BY <1>1, <1>2, <1>4 DEF Range
  <2>3. ASSUME NEW x \in Range(q) PROVE x \in Range(s)
    <3>1. PICK i \in 1..n : x = q[i]
      BY <1>1 DEF Range
    <3>2. m + i \in DOMAIN s /\ s[m + i] = x
      BY <1>2, <1>5, <3>1
    <3> QED
      BY <3>2 DEF Range
  <2> QED
    BY <2>1, <2>2, <2>3
<1> QED
  BY <1>2, <1>6, <1>7 DEF Once, s

LEMMA SortedOnce ==
    ASSUME NEW E, NEW items \in Once(E), NEW order \in Once(E)
    PROVE  /\ SortByOrder(items, order) \in Once(E)
           /\ Range(SortByOrder(items, order)) = Range(items)
<1> DEFINE first == Only(order, Range(items))
           others == Only(items, Range(items) \ Range(order))
<1>1. first \in Once(E) /\ Range(first) = Range(order) \cap Range(items)
  BY OnlyOnce
<1>2. others \in Once(E) /\ Range(others) = Range(items) \ Range(order)
  <2>1. Range(items) \cap (Range(items) \ Range(order)) = Range(items) \ Range(order)
    OBVIOUS
  <2> QED
    BY <2>1, OnlyOnce
<1>3. SortByOrder(items, order) = first \o others
  BY Zenon DEF SortByOrder
<1> HIDE DEF first, others
<1>4. /\ Range(first) \cap Range(others) = {}
      /\ Range(first) \cup Range(others) = Range(items)
  BY <1>1, <1>2
<1>5. first \o others \in Once(E) /\ Range(first \o others) = Range(first) \cup Range(others)
  BY <1>1, <1>2, <1>4, CatOnce
<1> QED
  BY <1>3, <1>4, <1>5

-----------------------------------------------------------------------------
(* The rows of the list: sorted, grouped, put one after the other. *)

LEMMA LeastIs ==
    ASSUME NEW S \in SUBSET Nat, S # {}
    PROVE  \E x \in S : \A y \in S : x <= y
<1> SUFFICES ASSUME \A x \in S : \E y \in S : y < x PROVE FALSE
  OBVIOUS
<1> DEFINE T == {k \in Nat : \A x \in S : k <= x}
<1>1. 0 \in T
  OBVIOUS
<1>2. ASSUME NEW k \in Nat, k \in T PROVE k + 1 \in T
  <2>1. ASSUME NEW x \in S PROVE k + 1 <= x
    <3>1. PICK y \in S : y < x
      OBVIOUS
    <3>2. k <= y /\ x \in Nat /\ y \in Nat
      BY <1>2
    <3> QED
      BY <3>1, <3>2
  <2> QED
    BY <2>1
<1>3. Nat \subseteq T
  <2> HIDE DEF T
  <2> QED
    BY <1>1, <1>2, NatSetInduction
<1>4. PICK x : x \in S /\ x \in Nat
  OBVIOUS
<1>5. x + 1 \in T
  BY <1>3, <1>4
<1> QED
  BY <1>4, <1>5

\* The repositories of a list, each once.
LEMMA AsSeenOnce ==
    ASSUME NEW list \in Seq(Slugs)
    PROVE  AsSeen(list) \in Once(Repos) /\ Range(AsSeen(list)) = Seen(list)
<1> DEFINE n == Len(list)
           paths == [i \in DOMAIN list |-> RepoPath[list[i]]]
           first == {i \in DOMAIN list : \A j \in 1..(i - 1) : paths[j] # paths[i]}
           idx == [i \in DOMAIN list |-> i]
           at == Only(idx, first)
           res == [k \in DOMAIN at |-> paths[at[k]]]
<1>1. n \in Nat /\ DOMAIN list = 1..n
  OBVIOUS
<1>2. idx \in Once(1..n) /\ Range(idx) = 1..n
  <2>1. idx = [i \in 1..n |-> idx[i]] /\ \A i \in 1..n : idx[i] = i
    BY <1>1
  <2>2. DOMAIN idx = 1..n
    BY <1>1
  <2> HIDE DEF idx, n
  <2>3. idx \in Seq(1..n)
    BY <1>1, <2>1, SeqOfFcn
  <2>4. IsInjective(idx) /\ Range(idx) = 1..n
    BY <2>1, <2>2 DEF IsInjective, Range
  <2> QED
    BY <2>3, <2>4 DEF Once
<1>3. first \subseteq 1..n
  BY <1>1
<1>4. at \in Once(1..n) /\ Range(at) = first
  <2> HIDE DEF idx, first, n
  <2>1. at \in Once(1..n) /\ Range(at) = Range(idx) \cap first
    BY <1>2, OnlyOnce
  <2> QED
    BY <1>2, <1>3, <2>1
<1>5. \A i \in 1..n : paths[i] = RepoPath[list[i]] /\ list[i] \in Slugs /\ paths[i] \in Repos
  BY <1>1 DEF Repos
<1>6. /\ \A i \in first : i \in 1..n /\ \A j \in 1..(i - 1) : paths[j] # paths[i]
      /\ \A i \in 1..n : (\A j \in 1..(i - 1) : paths[j] # paths[i]) => i \in first
  BY <1>1
<1>7. AsSeen(list) = res
  BY Zenon DEF AsSeen
<1> HIDE DEF at, first, paths, idx, n
<1>8. /\ Len(at) \in Nat /\ DOMAIN at = 1..Len(at) /\ IsInjective(at)
      /\ \A k \in 1..Len(at) : at[k] \in first
      /\ \A i \in first : \E k \in 1..Len(at) : at[k] = i
  BY <1>4 DEF Once, Range
<1>9. DOMAIN res = 1..Len(at) /\ \A k \in 1..Len(at) : res[k] = paths[at[k]]
  BY <1>8
<1>10. res \in Seq(Repos)
  <2>1. res = [k \in 1..Len(at) |-> res[k]]
    BY <1>8
  <2>2. \A k \in 1..Len(at) : res[k] \in Repos
    BY <1>5, <1>6, <1>8, <1>9
  <2> HIDE DEF res
  <2> QED
    BY <1>8, <2>1, <2>2, SeqOfFcn
<1> HIDE DEF res
<1>11. IsInjective(res)
  <2> SUFFICES ASSUME NEW k \in 1..Len(at), NEW l \in 1..Len(at), res[k] = res[l] PROVE k = l
    BY <1>9 DEF IsInjective
  <2>1. paths[at[k]] = paths[at[l]] /\ at[k] \in first /\ at[l] \in first
    BY <1>8, <1>9
  <2>2. ASSUME NEW i \in first, NEW j \in first, i < j PROVE paths[i] # paths[j]
    <3>1. i \in 1..(j - 1)
      BY <1>1, <1>6, <2>2
    <3> QED
      BY <1>6, <3>1
  <2>3. at[k] \in Nat /\ at[l] \in Nat
    BY <1>1, <1>6, <2>1
  <2>4. at[k] = at[l]
    BY <2>1, <2>2, <2>3
  <2> QED
    BY <1>8, <2>4 DEF IsInjective
<1>12. Range(res) = Seen(list)
  <2>1. ASSUME NEW k \in 1..Len(at) PROVE res[k] \in Seen(list)
    <3>1. at[k] \in 1..n /\ res[k] = RepoPath[list[at[k]]]
      BY <1>5, <1>6, <1>8, <1>9
    <3> QED
      BY <1>1, <3>1 DEF Seen, Range
  <2>2. ASSUME NEW r \in Seen(list) PROVE r \in Range(res)
    <3> DEFINE S == {i \in 1..n : paths[i] = r}
    <3>1. \E i \in 1..n : paths[i] = r
      BY <1>1, <1>5 DEF Seen, Range
    <3>2. PICK i \in S : \A j \in S : i <= j
      <4>1. S \in SUBSET Nat /\ S # {}
        BY <1>1, <3>1
      <4> HIDE DEF S
      <4> QED
        BY <4>1, LeastIs
    <3>3. i \in 1..n /\ \A j \in 1..(i - 1) : paths[j] # paths[i]
      BY <1>1, <3>2
    <3>4. PICK k \in 1..Len(at) : at[k] = i
      BY <1>6, <1>8, <3>3
    <3>5. res[k] = r
      BY <1>9, <3>2, <3>4
    <3> QED
      BY <1>9, <3>5 DEF Range
  <2> QED
    BY <1>9, <2>1, <2>2 DEF Range
<1> QED
  BY <1>7, <1>10, <1>11, <1>12 DEF Once

\* One list after the other, with nothing in common, is each member once.
Apart(lists) ==
    \A i, j \in 1..Len(lists) : i # j => Range(lists[i]) \cap Range(lists[j]) = {}

LEMMA FlattenIs ==
    ASSUME NEW lists, NEW n \in Nat \ {0}, Len(lists) = n
    PROVE  \E g : /\ g[n] = FlattenSeq(lists) /\ g[1] = lists[1]
                  /\ \A k \in 2..n : g[k] = g[k - 1] \o lists[k]
<1> DEFINE Step(f, m) == IF m = 1 THEN lists[m] ELSE f[m - 1] \o lists[m]
           Rec(f, k) == f = [m \in 1..k |-> IF m = 1 THEN lists[m] ELSE f[m - 1] \o lists[m]]
           T == {k \in Nat : \E f : Rec(f, k)}
           flat == CHOOSE f : Rec(f, n)
<1>1. 0 \in T
  <2> DEFINE f == [m \in 1..0 |-> <<>>]
  <2>1. Rec(f, 0)
    OBVIOUS
  <2> QED
    BY <2>1
<1>2. ASSUME NEW k \in Nat, k \in T PROVE k + 1 \in T
  <2>1. PICK f : Rec(f, k)
    BY <1>2
  <2> DEFINE g == [m \in 1..(k + 1) |-> Step(f, m)]
  <2>2. \A m \in 1..k : g[m] = f[m]
    <3> SUFFICES ASSUME NEW m \in 1..k PROVE g[m] = f[m]
      OBVIOUS
    <3>1. f[m] = Step(f, m)
      BY <2>1
    <3>2. g[m] = Step(f, m)
      <4>1. m \in 1..(k + 1)
        OBVIOUS
      <4> QED
        BY <4>1, Zenon
    <3> QED
      BY <3>1, <3>2, Zenon
  <2>3. \A m \in 1..(k + 1) : Step(f, m) = Step(g, m)
    <3> SUFFICES ASSUME NEW m \in 1..(k + 1) PROVE Step(f, m) = Step(g, m)
      OBVIOUS
    <3>1. CASE m = 1
      BY <3>1
    <3>2. CASE m # 1
      <4>1. m - 1 \in 1..k
        BY <3>2
      <4>2. g[m - 1] = f[m - 1]
        BY <2>2, <4>1
      <4> HIDE DEF g
      <4> QED
        BY <4>2
    <3> QED
      BY <3>1, <3>2
  <2>4. Rec(g, k + 1)
    <3> DEFINE h == g
    <3>1. g = [m \in 1..(k + 1) |-> Step(h, m)]
      BY <2>3, Zenon
    <3> QED
      BY <3>1, Zenon
  <2> HIDE DEF g, Rec
  <2> QED
    BY <2>4
<1>3. \E f : Rec(f, n)
  BY <1>1, <1>2, NatSetInduction
<1>4. Rec(flat, n)
  BY <1>3
<1>5. FlattenSeq(lists) = flat[n]
  BY DEF FlattenSeq
<1> HIDE DEF flat
<1>6. \A m \in 1..n : flat[m] = Step(flat, m)
  BY <1>4, Zenon
<1>7. flat[1] = lists[1]
  <2>1. 1 \in 1..n
    OBVIOUS
  <2> QED
    BY <1>6, <2>1
<1>8. ASSUME NEW k \in 2..n PROVE flat[k] = flat[k - 1] \o lists[k]
  <2>1. k \in 1..n /\ k # 1
    OBVIOUS
  <2>2. flat[k] = Step(flat, k)
    BY <1>6, <2>1
  <2> QED
    BY <2>1, <2>2
<1> QED
  BY <1>5, <1>7, <1>8

LEMMA FlattenOnce ==
    ASSUME NEW E, NEW lists \in Seq(Once(E)), Apart(lists)
    PROVE  /\ FlattenSeq(lists) \in Once(E)
           /\ \A x : x \in Range(FlattenSeq(lists))
                        <=> \E i \in 1..Len(lists) : x \in Range(lists[i])
<1>1. PICK n \in Nat : Len(lists) = n
  OBVIOUS
<1>2. CASE n = 0
  <2>1. FlattenSeq(lists) = lists /\ lists = <<>>
    BY <1>1, <1>2 DEF FlattenSeq
  <2>2. <<>> \in Seq(E) /\ IsInjective(<<>>) /\ Range(<<>>) = {}
    BY DEF IsInjective, Range
  <2> QED
    BY <1>1, <1>2, <2>1, <2>2 DEF Once
<1>3. CASE n # 0
  <2>1. PICK g : /\ g[n] = FlattenSeq(lists) /\ g[1] = lists[1]
                 /\ \A k \in 2..n : g[k] = g[k - 1] \o lists[k]
    <3>1. n \in Nat \ {0}
      BY <1>3
    <3> QED
      BY <1>1, <3>1, FlattenIs, Zenon
  <2> DEFINE Upto(k) == UNION {Range(lists[i]) : i \in 1..k}
             T == {k \in Nat : k + 1 <= n => g[k + 1] \in Once(E) /\ Range(g[k + 1]) = Upto(k + 1)}
  <2>2. \A i \in 1..n : lists[i] \in Once(E)
    BY <1>1
  <2>3. 0 \in T
    <3>1. 1 \in 1..n
      BY <1>3
    <3>2. Upto(0 + 1) = Range(lists[1])
      OBVIOUS
    <3> QED
      BY <2>1, <2>2, <3>1, <3>2
  <2>4. ASSUME NEW k \in Nat, k \in T PROVE k + 1 \in T
    <3> SUFFICES ASSUME (k + 1) + 1 <= n
                 PROVE  g[(k + 1) + 1] \in Once(E) /\ Range(g[(k + 1) + 1]) = Upto((k + 1) + 1)
      OBVIOUS
    <3> DEFINE m == k + 2
    <3>1. m \in 2..n /\ m \in 1..n /\ m - 1 = k + 1 /\ (k + 1) + 1 = m
      OBVIOUS
    <3>2. g[k + 1] \in Once(E) /\ Range(g[k + 1]) = Upto(k + 1)
      BY <2>4
    <3>3. g[m] = g[k + 1] \o lists[m]
      BY <2>1, <3>1
    <3>4. Upto(k + 1) \cap Range(lists[m]) = {}
      <4> SUFFICES ASSUME NEW i \in 1..(k + 1) PROVE Range(lists[i]) \cap Range(lists[m]) = {}
        OBVIOUS
      <4>1. i \in 1..Len(lists) /\ m \in 1..Len(lists) /\ i # m
        BY <1>1, <3>1
      <4> QED
        BY <4>1 DEF Apart
    <3>5. Upto(m) = Upto(k + 1) \cup Range(lists[m])
      <4>1. 1..m = 1..(k + 1) \cup {m}
        OBVIOUS
      <4> HIDE DEF m
      <4> QED
        BY <4>1
    <3> HIDE DEF m, Upto
    <3>6. g[m] \in Once(E) /\ Range(g[m]) = Range(g[k + 1]) \cup Range(lists[m])
      BY <2>2, <3>1, <3>2, <3>3, <3>4, CatOnce
    <3> QED
      BY <3>1, <3>2, <3>5, <3>6
  <2>5. n - 1 \in T
    <3>1. n - 1 \in Nat
      BY <1>3
    <3> HIDE DEF T
    <3> QED
      BY <2>3, <2>4, <3>1, NatSetInduction
  <2>6. g[n] \in Once(E) /\ Range(g[n]) = Upto(n)
    <3>1. (n - 1) + 1 = n
      BY <1>3
    <3> HIDE DEF Upto
    <3> QED
      BY <2>5, <3>1
  <2> QED
    BY <1>1, <2>1, <2>6
<1> QED
  BY <1>2, <1>3

\* What orders there are in the view, and what lists of targets.
OrdersOK ==
    /\ view.repoOrder \in Once(Repos)
    /\ \A r \in DOMAIN view.targetOrder : view.targetOrder[r] \in Once(Slugs)

ListsOnce == listed \in Once(Slugs) /\ targets \in Once(Slugs)

Rows1(r) == {s \in Range(targets) : RepoPath[s] = r}

LEMMA GroupOnce ==
    ASSUME ListsOnce, OrdersOK, NEW r
    PROVE  Group(r) \in Once(Slugs) /\ Range(Group(r)) = Rows1(r)
<1> DEFINE own == Only(targets, {s \in Slugs : RepoPath[s] = r})
<1>1. own \in Once(Slugs) /\ Range(own) = Range(targets) \cap {s \in Slugs : RepoPath[s] = r}
  BY OnlyOnce DEF ListsOnce
<1>2. Range(targets) \subseteq Slugs
  BY DEF ListsOnce, Once, Range
<1>3. Range(own) = Rows1(r)
  BY <1>1, <1>2 DEF Rows1
<1>4. Group(r) = IF r \in DOMAIN view.targetOrder THEN SortByOrder(own, view.targetOrder[r])
                                                  ELSE own
  BY Zenon DEF Group
<1> HIDE DEF own
<1>5. CASE r \in DOMAIN view.targetOrder
  <2>1. view.targetOrder[r] \in Once(Slugs)
    BY <1>5 DEF OrdersOK
  <2> QED
    BY <1>1, <1>3, <1>4, <1>5, <2>1, SortedOnce
<1>6. CASE r \notin DOMAIN view.targetOrder
  BY <1>1, <1>3, <1>4, <1>6
<1> QED
  BY <1>5, <1>6

LEMMA GroupReposOnce ==
    ASSUME ListsOnce, OrdersOK
    PROVE  GroupRepos \in Once(Repos) /\ Range(GroupRepos) = Seen(targets)
<1>1. AsSeen(targets) \in Once(Repos) /\ Range(AsSeen(targets)) = Seen(targets)
  BY AsSeenOnce DEF ListsOnce, Once
<1> QED
  BY <1>1, SortedOnce DEF GroupRepos, OrdersOK

\* Every target of an open group has one row, and nothing else has.
LEMMA RowsOnce ==
    ASSUME ListsOnce, OrdersOK
    PROVE  /\ VisibleSlugs \in Once(Slugs)
           /\ Range(VisibleSlugs) = {s \in Range(targets) : RepoPath[s] \notin view.collapsedRepos}
<1> DEFINE shown == Only(GroupRepos, Seen(targets) \ view.collapsedRepos)
           groups == [i \in DOMAIN shown |-> Group(shown[i])]
<1>1. shown \in Once(Repos) /\ Range(shown) = Seen(targets) \ view.collapsedRepos
  <2>1. Seen(targets) \cap (Seen(targets) \ view.collapsedRepos) = Seen(targets) \ view.collapsedRepos
    OBVIOUS
  <2> QED
    BY <2>1, GroupReposOnce, OnlyOnce
<1>2. VisibleSlugs = FlattenSeq(groups)
  BY Zenon DEF VisibleSlugs
<1> HIDE DEF shown
<1>3. PICK n \in Nat : n = Len(shown) /\ DOMAIN shown = 1..n /\ IsInjective(shown)
  BY <1>1 DEF Once
<1>4. DOMAIN groups = 1..n /\ \A i \in 1..n : groups[i] = Group(shown[i])
  BY <1>3
<1>5. \A i \in 1..n : groups[i] \in Once(Slugs) /\ Range(groups[i]) = Rows1(shown[i])
  BY <1>4, GroupOnce
<1>6. groups \in Seq(Once(Slugs)) /\ Len(groups) = n
  <2>1. groups = [i \in 1..n |-> groups[i]]
    BY <1>3
  <2> HIDE DEF groups
  <2>2. groups \in Seq(Once(Slugs))
    BY <1>5, <2>1, SeqOfFcn
  <2> QED
    BY <1>4, <2>2
<1> HIDE DEF groups
<1>7. Apart(groups)
  <2> SUFFICES ASSUME NEW i \in 1..n, NEW j \in 1..n, i # j
               PROVE  Rows1(shown[i]) \cap Rows1(shown[j]) = {}
    BY <1>5, <1>6 DEF Apart
  <2>1. shown[i] # shown[j]
    BY <1>3 DEF IsInjective
  <2> QED
    BY <2>1 DEF Rows1
<1>8. /\ FlattenSeq(groups) \in Once(Slugs)
      /\ \A x : x \in Range(FlattenSeq(groups)) <=> \E i \in 1..n : x \in Rows1(shown[i])
  BY <1>5, <1>6, <1>7, FlattenOnce
<1>9. \A s : (\E i \in 1..n : s \in Rows1(shown[i]))
                <=> s \in Range(targets) /\ RepoPath[s] \notin view.collapsedRepos
  <2>1. ASSUME NEW s, NEW i \in 1..n, s \in Rows1(shown[i])
        PROVE  s \in Range(targets) /\ RepoPath[s] \notin view.collapsedRepos
    <3>1. shown[i] \in Range(shown)
      BY <1>3 DEF Range
    <3> QED
      BY <1>1, <2>1, <3>1 DEF Rows1
  <2>2. ASSUME NEW s \in Range(targets), RepoPath[s] \notin view.collapsedRepos
        PROVE  \E i \in 1..n : s \in Rows1(shown[i])
    <3>1. RepoPath[s] \in Range(shown)
      BY <1>1, <2>2 DEF Seen
    <3>2. PICK i \in 1..n : shown[i] = RepoPath[s]
      BY <1>3, <3>1 DEF Range
    <3> QED
      BY <3>2 DEF Rows1
  <2> QED
    BY <2>1, <2>2
<1> QED
  BY <1>2, <1>8, <1>9

-----------------------------------------------------------------------------
(* Where a row that is dropped is put. *)

LEMMA IndexIs ==
    ASSUME NEW E, NEW list \in Once(E), NEW x \in Range(list)
    PROVE  IndexOf(list, x) \in 1..Len(list) /\ list[IndexOf(list, x)] = x
<1>1. \E i \in DOMAIN list : list[i] = x
  BY DEF Range
<1>2. DOMAIN list = 1..Len(list)
  BY DEF Once
<1> QED
  BY <1>1, <1>2 DEF IndexOf

LEMMA SubSeqIs ==
    ASSUME NEW E, NEW s \in Seq(E), NEW i \in Nat \ {0}, NEW j \in Nat, i <= j + 1, j <= Len(s)
    PROVE  /\ SubSeq(s, i, j) \in Seq(E) /\ Len(SubSeq(s, i, j)) = j - i + 1
           /\ \A k \in 1..(j - i + 1) : SubSeq(s, i, j)[k] = s[i + k - 1]
<1>1. PICK n \in Nat : n = Len(s)
  OBVIOUS
<1>2. SubSeq(s, i, j) \in Seq(E)
  <2>1. i \in 1..(n + 1) /\ j \in 0..n
    BY <1>1
  <2> QED
    BY <1>1, <2>1, SeqFacts
<1>3. Len(SubSeq(s, i, j)) = j - i + 1
  BY <1>1
<1>4. \A k \in 1..(j - i + 1) : SubSeq(s, i, j)[k] = s[i + k - 1]
  BY <1>1
<1> QED
  BY <1>2, <1>3, <1>4

LEMMA CatIs ==
    ASSUME NEW E, NEW p \in Seq(E), NEW q \in Seq(E)
    PROVE  /\ p \o q \in Seq(E) /\ Len(p \o q) = Len(p) + Len(q)
           /\ \A k \in 1..Len(p) : (p \o q)[k] = p[k]
           /\ \A k \in 1..Len(q) : (p \o q)[Len(p) + k] = q[k]
<1>1. p \o q \in Seq(E) /\ Len(p \o q) = Len(p) + Len(q)
  OBVIOUS
<1>2. \A k \in 1..Len(p) : (p \o q)[k] = p[k]
  OBVIOUS
<1>3. \A k \in 1..Len(q) : (p \o q)[Len(p) + k] = q[k]
  OBVIOUS
<1> QED
  BY <1>1, <1>2, <1>3

\* The place that each member had before one of them was moved from f to t.
CameFrom(k, f, t) ==
    LET rest == IF k < t THEN k ELSE k - 1 IN
    IF k = t THEN f ELSE IF rest < f THEN rest ELSE rest + 1

LEMMA MovedIs ==
    ASSUME NEW E, NEW list \in Once(E), NEW from \in Range(list), NEW to \in Range(list),
           from # to
    PROVE  LET f == IndexOf(list, from)
               t == IndexOf(list, to)
               moved == MoveInto(list, from, to)
           IN /\ moved \in Once(E) /\ Len(moved) = Len(list)
              /\ \A k \in 1..Len(list) :
                    CameFrom(k, f, t) \in 1..Len(list) /\ moved[k] = list[CameFrom(k, f, t)]
<1> DEFINE f == IndexOf(list, from)
           t == IndexOf(list, to)
           n == Len(list)
           left == RemoveAt(list, f)
           moved == InsertAt(left, t, from)
<1>1. /\ list \in Seq(E) /\ n \in Nat /\ IsInjective(list) /\ DOMAIN list = 1..n
  BY DEF Once
<1>2. f \in 1..n /\ t \in 1..n /\ list[f] = from /\ from \in E
  <2>1. from \in Range(list) /\ to \in Range(list)
    OBVIOUS
  <2>2. f \in 1..n /\ t \in 1..n /\ list[f] = from
    BY <2>1, IndexIs
  <2> QED
    BY <1>1, <2>2
<1> HIDE DEF f, t
<1>3. /\ left \in Seq(E) /\ Len(left) = n - 1
      /\ \A k \in 1..(n - 1) : left[k] = IF k < f THEN list[k] ELSE list[k + 1]
  <2> DEFINE a == SubSeq(list, 1, f - 1)
             b == SubSeq(list, f + 1, n)
  <2>1. a \in Seq(E) /\ Len(a) = f - 1 /\ \A k \in 1..(f - 1) : a[k] = list[k]
    <3>1. 1 \in Nat \ {0} /\ f - 1 \in Nat /\ 1 <= (f - 1) + 1 /\ f - 1 <= n
      BY <1>1, <1>2
    <3>2. (f - 1) - 1 + 1 = f - 1 /\ \A k \in 1..(f - 1) : 1 + k - 1 = k
      BY <1>1, <1>2
    <3> QED
      BY <1>1, <3>1, <3>2, SubSeqIs
  <2>2. b \in Seq(E) /\ Len(b) = n - f /\ \A k \in 1..(n - f) : b[k] = list[f + k]
    <3>1. f + 1 \in Nat \ {0} /\ n \in Nat /\ f + 1 <= n + 1 /\ n <= n
      BY <1>1, <1>2
    <3>2. n - (f + 1) + 1 = n - f /\ \A k \in 1..(n - f) : (f + 1) + k - 1 = f + k
      BY <1>1, <1>2
    <3> QED
      BY <1>1, <3>1, <3>2, SubSeqIs
  <2>5. left = a \o b
    BY DEF RemoveAt
  <2> HIDE DEF a, b
  <2>6. /\ a \o b \in Seq(E) /\ Len(a \o b) = (f - 1) + (n - f)
        /\ \A k \in 1..(f - 1) : (a \o b)[k] = a[k]
        /\ \A k \in 1..(n - f) : (a \o b)[(f - 1) + k] = b[k]
    <3>7. a \in Seq(E) /\ b \in Seq(E)
      BY <2>1, <2>2
    <3>8. /\ a \o b \in Seq(E) /\ Len(a \o b) = Len(a) + Len(b)
          /\ \A k \in 1..Len(a) : (a \o b)[k] = a[k]
          /\ \A k \in 1..Len(b) : (a \o b)[Len(a) + k] = b[k]
      BY <3>7, CatIs, SMTT(30)
    <3> QED
      BY <2>1, <2>2, <3>8
  <2>7. ASSUME NEW k \in 1..(n - 1), ~(k < f) PROVE (a \o b)[k] = list[k + 1]
    <3>1. PICK m \in 1..(n - f) : k = (f - 1) + m
      <4>1. k - (f - 1) \in 1..(n - f)
        BY <1>1, <1>2, <2>7
      <4> QED
        BY <1>1, <1>2, <4>1
    <3>2. k + 1 = f + m
      BY <1>1, <1>2, <3>1
    <3> QED
      BY <2>2, <2>6, <3>1, <3>2
  <2>8. ASSUME NEW k \in 1..(n - 1), k < f PROVE (a \o b)[k] = list[k]
    <3>1. k \in 1..(f - 1)
      BY <1>1, <1>2, <2>8
    <3> QED
      BY <2>1, <2>6, <3>1
  <2>9. (f - 1) + (n - f) = n - 1
    BY <1>1, <1>2
  <2> QED
    BY <2>5, <2>6, <2>7, <2>8, <2>9
<1> HIDE DEF left
<1>4. /\ moved \in Seq(E) /\ Len(moved) = n
      /\ moved[t] = from
      /\ \A k \in 1..n : k < t => moved[k] = left[k]
      /\ \A k \in 1..n : k > t => moved[k] = left[k - 1]
  <2> DEFINE a == SubSeq(left, 1, t - 1)
             b == SubSeq(left, t, n - 1)
  <2>1. a \in Seq(E) /\ Len(a) = t - 1 /\ \A k \in 1..(t - 1) : a[k] = left[k]
    <3>1. 1 \in Nat \ {0} /\ t - 1 \in Nat /\ 1 <= (t - 1) + 1 /\ t - 1 <= n - 1
      BY <1>1, <1>2
    <3>2. (t - 1) - 1 + 1 = t - 1 /\ \A k \in 1..(t - 1) : 1 + k - 1 = k
      BY <1>1, <1>2
    <3> QED
      BY <1>3, <3>1, <3>2, SubSeqIs
  <2>2. b \in Seq(E) /\ Len(b) = n - t /\ \A k \in 1..(n - t) : b[k] = left[t + k - 1]
    <3>1. t \in Nat \ {0} /\ n - 1 \in Nat /\ t <= (n - 1) + 1 /\ n - 1 <= n - 1
      BY <1>1, <1>2
    <3>2. (n - 1) - t + 1 = n - t
      BY <1>1, <1>2
    <3> QED
      BY <1>3, <3>1, <3>2, SubSeqIs
  <2> DEFINE w == <<from>>
             c == a \o w
  <2>3. moved = c \o b
    BY <1>3 DEF InsertAt
  <2>4. w \in Seq(E) /\ Len(w) = 1 /\ w[1] = from
    BY <1>2
  <2> HIDE DEF a, b, w
  <2>5. /\ c \in Seq(E) /\ Len(c) = t
        /\ \A k \in 1..(t - 1) : c[k] = a[k]
        /\ c[t] = from
    <3>1. a \in Seq(E) /\ w \in Seq(E)
      BY <2>1, <2>4
    <3>2. /\ c \in Seq(E) /\ Len(c) = Len(a) + Len(w)
          /\ \A k \in 1..Len(a) : c[k] = a[k]
          /\ \A k \in 1..Len(w) : c[Len(a) + k] = w[k]
      BY <3>1, CatIs, SMTT(30)
    <3>3. (t - 1) + 1 = t /\ 1 \in 1..1
      BY <1>1, <1>2
    <3> QED
      BY <2>1, <2>4, <3>2, <3>3
  <2> HIDE DEF c
  <2>6. /\ c \o b \in Seq(E) /\ Len(c \o b) = t + (n - t)
        /\ \A k \in 1..t : (c \o b)[k] = c[k]
        /\ \A k \in 1..(n - t) : (c \o b)[t + k] = b[k]
    <3>7. c \in Seq(E) /\ b \in Seq(E)
      BY <2>2, <2>5
    <3>8. /\ c \o b \in Seq(E) /\ Len(c \o b) = Len(c) + Len(b)
          /\ \A k \in 1..Len(c) : (c \o b)[k] = c[k]
          /\ \A k \in 1..Len(b) : (c \o b)[Len(c) + k] = b[k]
      BY <3>7, CatIs, SMTT(30)
    <3> QED
      BY <2>2, <2>5, <3>8
  <2>7. ASSUME NEW k \in 1..n, k > t PROVE (c \o b)[k] = left[k - 1]
    <3>1. PICK m \in 1..(n - t) : k = t + m
      <4>1. k - t \in 1..(n - t)
        BY <1>1, <1>2, <2>7
      <4> QED
        BY <1>1, <1>2, <4>1
    <3>2. t + m - 1 = k - 1
      BY <1>1, <1>2, <3>1
    <3> QED
      BY <2>2, <2>6, <3>1, <3>2
  <2>8. ASSUME NEW k \in 1..n, k < t PROVE (c \o b)[k] = left[k]
    <3>1. k \in 1..(t - 1) /\ k \in 1..t
      BY <1>1, <1>2, <2>8
    <3> QED
      BY <2>1, <2>5, <2>6, <3>1
  <2>9. (c \o b)[t] = from /\ t + (n - t) = n
    <3>1. t \in 1..t
      BY <1>1, <1>2
    <3> QED
      BY <1>1, <1>2, <2>5, <2>6, <3>1
  <2> QED
    BY <2>3, <2>6, <2>7, <2>8, <2>9
<1> HIDE DEF moved
<1> DEFINE old(k) == CameFrom(k, f, t)
<1>5. ASSUME NEW k \in 1..n PROVE old(k) \in 1..n /\ moved[k] = list[old(k)]
  <2>1. CASE k = t
    BY <1>2, <1>4, <2>1 DEF CameFrom
  <2>2. CASE k < t
    <3>1. k \in 1..(n - 1) /\ moved[k] = left[k]
      BY <1>1, <1>2, <1>4, <2>2
    <3> QED
      BY <1>1, <1>2, <1>3, <2>2, <3>1 DEF CameFrom
  <2>3. CASE k > t
    <3>1. k - 1 \in 1..(n - 1) /\ moved[k] = left[k - 1]
      BY <1>1, <1>2, <1>4, <2>3
    <3>2. left[k - 1] = IF k - 1 < f THEN list[k - 1] ELSE list[(k - 1) + 1]
      BY <1>3, <3>1
    <3> QED
      BY <1>1, <1>2, <2>3, <3>1, <3>2 DEF CameFrom
  <2> QED
    BY <1>1, <1>2, <2>1, <2>2, <2>3
<1>6. ASSUME NEW k \in 1..n, NEW l \in 1..n, old(k) = old(l) PROVE k = l
  BY <1>1, <1>2, <1>6 DEF CameFrom
<1> HIDE DEF old
<1>7. IsInjective(moved)
  <2> SUFFICES ASSUME NEW k \in 1..n, NEW l \in 1..n, moved[k] = moved[l] PROVE k = l
    BY <1>4 DEF IsInjective
  <2>1. old(k) = old(l)
    BY <1>1, <1>5 DEF IsInjective
  <2> QED
    BY <1>6, <2>1
<1>8. MoveInto(list, from, to) = moved
  BY DEF MoveInto, moved, left, f, t
<1>9. moved \in Once(E)
  BY <1>4, <1>7 DEF Once
<1> QED
  BY <1>4, <1>5, <1>8, <1>9 DEF old, f, t

\* A list of which a member is moved, or not, is members of the same once.
LEMMA MovedOnce ==
    ASSUME NEW E, NEW list \in Once(E), NEW from, NEW to
    PROVE  MoveInto(list, from, to) \in Once(E)
<1>1. CASE from = to \/ {from, to} \ Range(list) # {}
  BY <1>1 DEF MoveInto
<1>2. CASE ~(from = to \/ {from, to} \ Range(list) # {})
  <2>1. from \in Range(list) /\ to \in Range(list) /\ from # to
    BY <1>2
  <2> QED
    BY <2>1, MovedIs
<1> QED
  BY <1>1, <1>2

\* Where the member goes that was in place i.
GoesTo(i, f, t) ==
    LET rest == IF i < f THEN i ELSE i - 1 IN
    IF rest < t THEN rest ELSE rest + 1

LEMMA IndexOfPlace ==
    ASSUME NEW E, NEW list \in Once(E), NEW i \in 1..Len(list)
    PROVE  IndexOf(list, list[i]) = i
<1>1. DOMAIN list = 1..Len(list) /\ IsInjective(list)
  BY DEF Once
<1>2. list[i] \in Range(list)
  BY <1>1 DEF Range
<1>3. IndexOf(list, list[i]) \in 1..Len(list) /\ list[IndexOf(list, list[i])] = list[i]
  BY <1>2, IndexIs
<1> QED
  BY <1>1, <1>3 DEF IsInjective

\* "Moves `from` into the slot `to` currently occupies ... Everything else keeps its
\* relative order" (moveInto, order.ts): wherever both are, in a list of any length.
THEOREM DropPutsInPlace ==
    ASSUME NEW E, NEW list \in Once(E), NEW from \in Range(list), NEW to \in Range(list),
           from # to
    PROVE  LET moved == MoveInto(list, from, to) IN
           /\ Range(moved) = Range(list)
           /\ IndexOf(moved, from) = IndexOf(list, to)
           /\ \A x, y \in Range(list) \ {from} :
                 IndexOf(list, x) < IndexOf(list, y) => IndexOf(moved, x) < IndexOf(moved, y)
<1>1. PICK moved : moved = MoveInto(list, from, to)
  OBVIOUS
<1>2. PICK n \in Nat : n = Len(list)
  BY DEF Once
<1>3. PICK f \in 1..n : f = IndexOf(list, from) /\ list[f] = from
  BY <1>2, IndexIs
<1>4. PICK t \in 1..n : t = IndexOf(list, to)
  BY <1>2, IndexIs
<1>5. /\ moved \in Once(E) /\ Len(moved) = n
      /\ \A k \in 1..n : CameFrom(k, f, t) \in 1..n /\ moved[k] = list[CameFrom(k, f, t)]
  BY <1>1, <1>2, <1>3, <1>4, MovedIs
<1>6. DOMAIN moved = 1..n /\ DOMAIN list = 1..n
  BY <1>2, <1>5 DEF Once
<1>7. moved[t] = from
  <2>1. CameFrom(t, f, t) = f
    BY DEF CameFrom
  <2> QED
    BY <1>3, <1>5, <2>1
<1>8. ASSUME NEW i \in 1..n, i # f
      PROVE  GoesTo(i, f, t) \in 1..n /\ moved[GoesTo(i, f, t)] = list[i]
  <2>1. GoesTo(i, f, t) \in 1..n /\ CameFrom(GoesTo(i, f, t), f, t) = i
    BY <1>8 DEF GoesTo, CameFrom
  <2> QED
    BY <1>5, <2>1
<1>9. Range(moved) = Range(list)
  <2>1. \A k \in 1..n : moved[k] \in Range(list)
    BY <1>5, <1>6 DEF Range
  <2>2. \A i \in 1..n : list[i] \in Range(moved)
    BY <1>3, <1>6, <1>7, <1>8 DEF Range
  <2> QED
    BY <1>6, <2>1, <2>2 DEF Range
<1>10. IndexOf(moved, from) = t
  BY <1>5, <1>7, IndexOfPlace
<1>11. ASSUME NEW x \in Range(list) \ {from}, NEW y \in Range(list) \ {from},
              IndexOf(list, x) < IndexOf(list, y)
       PROVE  IndexOf(moved, x) < IndexOf(moved, y)
  <2>1. PICK i \in 1..n : i = IndexOf(list, x) /\ list[i] = x
    BY <1>2, IndexIs
  <2>2. PICK j \in 1..n : j = IndexOf(list, y) /\ list[j] = y
    BY <1>2, IndexIs
  <2>3. i < j /\ i # f /\ j # f
    BY <1>3, <1>11, <2>1, <2>2
  <2>4. /\ GoesTo(i, f, t) \in 1..n /\ moved[GoesTo(i, f, t)] = x
        /\ GoesTo(j, f, t) \in 1..n /\ moved[GoesTo(j, f, t)] = y
    BY <1>8, <2>1, <2>2, <2>3
  <2>5. IndexOf(moved, x) = GoesTo(i, f, t) /\ IndexOf(moved, y) = GoesTo(j, f, t)
    BY <1>5, <2>4, IndexOfPlace
  <2>6. GoesTo(i, f, t) < GoesTo(j, f, t)
    BY <2>3 DEF GoesTo
  <2> QED
    BY <2>5, <2>6
<1> QED
  BY <1>1, <1>4, <1>9, <1>10, <1>11

-----------------------------------------------------------------------------
(* What is said to the daemon is what is shown. *)

\* Request i of those on their way has something to store for the field f.
Says(i, f) == toDaemon[i].ask = "ui.set" /\ f \in DOMAIN toDaemon[i].ui

\* The last that was said of f, unsent, on its way or stored, is what is shown.
Synced(f) ==
    /\ f \in DOMAIN unsent => unsent[f] = view[f]
    /\ f \notin DOMAIN unsent =>
          /\ \A i \in 1..Len(toDaemon) :
                Says(i, f) /\ (\A j \in (i + 1)..Len(toDaemon) : ~Says(j, f))
                    => toDaemon[i].ui[f] = view[f]
          /\ (\A i \in 1..Len(toDaemon) : ~Says(i, f)) =>
                view[f] = IF f \in DOMAIN stored THEN stored[f] ELSE Default[f]

\* Nobody has changed f yet.
Unsaid(f) == f \notin DOMAIN unsent /\ \A i \in 1..Len(toDaemon) : ~Says(i, f)

\* The edge of the sidebar follows the pointer, and is not patched before the drop.
Moving(f) == dragging = "edge" /\ f = "sidebarWidth"

Agreed(f) ==
    /\ f \in DOMAIN answer[1] <=> f \in DOMAIN stored
    /\ f \in DOMAIN stored => answer[1][f] = stored[f]

SyncOK ==
    /\ hydrated \in BOOLEAN
    /\ DOMAIN Default \subseteq DOMAIN view
    /\ \E R : toDaemon \in Seq(R)
    /\ dragging = "edge" => grabbed = Nothing
    /\ hydrated => \A f \in DOMAIN view : f \in early \/ Moving(f) \/ Synced(f)
    /\ ~hydrated =>
          /\ DOMAIN view = DOMAIN Default
          /\ \A f : f \in early \/ Unsaid(f)
          /\ \A f \in DOMAIN view : f \in early \/ Moving(f) \/ view[f] = Default[f]
          /\ answer # <<>> => \A f : f \in early \/ Agreed(f)

LEMMA QuietSync ==
    ASSUME SyncOK, UNCHANGED uiVars, dragging = "edge" => dragging' = "edge",
           dragging' = "edge" => grabbed' = Nothing
    PROVE  SyncOK'
<1>1. /\ view' = view /\ hydrated' = hydrated /\ unsent' = unsent /\ toDaemon' = toDaemon
      /\ answer' = answer /\ stored' = stored /\ early' = early
  BY DEF uiVars
<1>2. ASSUME NEW f PROVE (Synced(f) => Synced(f)') /\ (Unsaid(f) => Unsaid(f)')
  BY <1>1 DEF Synced, Unsaid, Says
<1>3. ASSUME NEW f PROVE (Moving(f) => Moving(f)') /\ (Agreed(f) => Agreed(f)')
  BY <1>1 DEF Moving, Agreed
<1>4. hydrated' => \A f \in DOMAIN view' : f \in early' \/ Moving(f)' \/ Synced(f)'
  BY <1>1, <1>2, <1>3 DEF SyncOK
<1>5. ~hydrated' =>
          /\ DOMAIN view' = DOMAIN Default
          /\ \A f : f \in early' \/ Unsaid(f)'
          /\ \A f \in DOMAIN view' : f \in early' \/ Moving(f)' \/ view'[f] = Default[f]
          /\ answer' # <<>> => \A f : f \in early' \/ Agreed(f)'
  BY <1>1, <1>2, <1>3 DEF SyncOK
<1> QED
  BY <1>1, <1>4, <1>5 DEF SyncOK

\* A change of the fields in `changes', the width among them if its drag ends.
LEMMA PatchSync ==
    ASSUME SyncOK, NEW changes, Patch(changes),
           dragging = "edge" => dragging' = "edge" \/ "sidebarWidth" \in DOMAIN changes,
           dragging' = "edge" => grabbed' = Nothing,
           DOMAIN changes \subseteq DOMAIN Default
    PROVE  SyncOK'
<1>1. /\ view' = Over(changes, view) /\ unsent' = Over(changes, unsent)
      /\ early' = IF hydrated THEN early \ DOMAIN changes ELSE early \cup DOMAIN changes
      /\ hydrated' = hydrated /\ toDaemon' = toDaemon /\ answer' = answer /\ stored' = stored
  BY DEF Patch, Merged
<1>2. /\ DOMAIN view' = DOMAIN changes \cup DOMAIN view
      /\ DOMAIN unsent' = DOMAIN changes \cup DOMAIN unsent
      /\ \A f \in DOMAIN changes : view'[f] = changes[f] /\ unsent'[f] = changes[f]
      /\ \A f \in DOMAIN view \ DOMAIN changes : view'[f] = view[f]
      /\ \A f \in DOMAIN unsent \ DOMAIN changes : unsent'[f] = unsent[f]
  BY <1>1 DEF Over
<1>3. ASSUME NEW f \in DOMAIN changes PROVE Synced(f)'
  BY <1>2 DEF Synced
<1>4. ASSUME NEW f \in DOMAIN view, f \notin DOMAIN changes PROVE Synced(f) => Synced(f)'
  BY <1>1, <1>2, <1>4 DEF Synced, Says
<1>5. ASSUME NEW f, f \notin DOMAIN changes
      PROVE  (Unsaid(f) => Unsaid(f)') /\ (Moving(f) => Moving(f)') /\ (Agreed(f) => Agreed(f)')
  BY <1>1, <1>2, <1>5 DEF Unsaid, Says, Moving, Agreed
<1>6. ASSUME hydrated PROVE \A f \in DOMAIN view' : f \in early' \/ Moving(f)' \/ Synced(f)'
  <2> SUFFICES ASSUME NEW f \in DOMAIN view', f \notin DOMAIN changes
               PROVE  f \in early' \/ Moving(f)' \/ Synced(f)'
    BY <1>3
  <2>1. f \in DOMAIN view
    BY <1>2
  <2> QED
    BY <1>1, <1>4, <1>5, <1>6, <2>1 DEF SyncOK
<1>7. ASSUME ~hydrated
      PROVE  /\ DOMAIN view' = DOMAIN Default
             /\ \A f : f \in early' \/ Unsaid(f)'
             /\ \A f \in DOMAIN view' : f \in early' \/ Moving(f)' \/ view'[f] = Default[f]
             /\ answer' # <<>> => \A f : f \in early' \/ Agreed(f)'
  <2>1. early' = early \cup DOMAIN changes
    BY <1>1, <1>7
  <2>2. DOMAIN view' = DOMAIN Default
    BY <1>2, <1>7 DEF SyncOK
  <2>3. \A f : f \in early' \/ Unsaid(f)'
    BY <1>5, <1>7, <2>1 DEF SyncOK
  <2>4. ASSUME NEW f \in DOMAIN view' PROVE f \in early' \/ Moving(f)' \/ view'[f] = Default[f]
    BY <1>2, <1>5, <1>7, <2>1 DEF SyncOK
  <2>5. answer' # <<>> => \A f : f \in early' \/ Agreed(f)'
    BY <1>1, <1>5, <1>7, <2>1 DEF SyncOK
  <2> QED
    BY <2>2, <2>3, <2>4, <2>5
<1>8. DOMAIN Default \subseteq DOMAIN view'
  BY <1>2 DEF SyncOK
<1>9. \E R : toDaemon' \in Seq(R)
  BY <1>1 DEF SyncOK
<1> QED
  BY <1>1, <1>6, <1>7, <1>8, <1>9 DEF SyncOK

\* The edge is where the pointer is.
LEMMA DragSync ==
    ASSUME SyncOK, NEW w, DragEdge(w)
    PROVE  SyncOK'
<1>1. /\ view' = [view EXCEPT !.sidebarWidth = w] /\ dragging' = "edge" /\ grabbed' = Nothing
      /\ hydrated' = hydrated /\ unsent' = unsent /\ toDaemon' = toDaemon
      /\ answer' = answer /\ stored' = stored /\ early' = early
  BY DEF DragEdge
<1>2. /\ DOMAIN view' = DOMAIN view
      /\ \A f \in DOMAIN view : f # "sidebarWidth" => view'[f] = view[f]
  BY <1>1
<1>3. ASSUME NEW f PROVE (Moving(f)' <=> f = "sidebarWidth") /\ (Moving(f) => Moving(f)')
  BY <1>1 DEF Moving
<1>4. ASSUME NEW f \in DOMAIN view, f # "sidebarWidth" PROVE Synced(f) => Synced(f)'
  BY <1>1, <1>2, <1>4 DEF Synced, Says
<1>5. ASSUME NEW f PROVE (Unsaid(f) => Unsaid(f)') /\ (Agreed(f) => Agreed(f)')
  BY <1>1 DEF Unsaid, Says, Agreed
<1>6. hydrated' => \A f \in DOMAIN view' : f \in early' \/ Moving(f)' \/ Synced(f)'
  BY <1>1, <1>2, <1>3, <1>4 DEF SyncOK
<1>7. ~hydrated' =>
          /\ DOMAIN view' = DOMAIN Default
          /\ \A f : f \in early' \/ Unsaid(f)'
          /\ \A f \in DOMAIN view' : f \in early' \/ Moving(f)' \/ view'[f] = Default[f]
          /\ answer' # <<>> => \A f : f \in early' \/ Agreed(f)'
  BY <1>1, <1>2, <1>3, <1>5 DEF SyncOK
<1> QED
  BY <1>1, <1>2, <1>6, <1>7 DEF SyncOK

\* What was unsent is said last.
LEMMA FlushSync ==
    ASSUME SyncOK, FlushUi
    PROVE  SyncOK'
<1> DEFINE request == [ask |-> "ui.set", ui |-> unsent]
<1>1. /\ unsent' = <<>> /\ toDaemon' = Append(toDaemon, request)
      /\ view' = view /\ hydrated' = hydrated /\ answer' = answer /\ stored' = stored
      /\ early' = early /\ grabbed' = grabbed /\ dragging' = dragging
  BY DEF FlushUi, mouseVars
<1>2. PICK R : toDaemon \in Seq(R)
  BY DEF SyncOK
<1>0. PICK n \in Nat : n = Len(toDaemon)
  BY <1>2
<1>3. /\ n \in Nat /\ Len(toDaemon') = n + 1 /\ toDaemon'[n + 1] = request
      /\ \A i \in 1..n : toDaemon'[i] = toDaemon[i]
  BY <1>0, <1>1, <1>2
<1>4. toDaemon' \in Seq(R \cup {request})
  <2>1. toDaemon \in Seq(R \cup {request})
    BY <1>2, SeqWider
  <2> HIDE DEF request
  <2> QED
    BY <1>1, <2>1
<1>5. DOMAIN unsent' = {} /\ request.ask = "ui.set" /\ request.ui = unsent
  BY <1>1
<1> HIDE DEF request
<1>6. ASSUME NEW f
      PROVE  /\ \A i \in 1..n : Says(i, f)' <=> Says(i, f)
             /\ Says(n + 1, f)' <=> f \in DOMAIN unsent
  BY <1>3, <1>5 DEF Says
<1>7. ASSUME NEW f, Unsaid(f) PROVE Unsaid(f)'
  <2>1. \A i \in 1..(n + 1) : i \in 1..n \/ i = n + 1
    BY <1>3
  <2> QED
    BY <1>0, <1>3, <1>5, <1>6, <1>7, <2>1 DEF Unsaid
<1>8. ASSUME NEW f, Synced(f) PROVE Synced(f)'
  <2>1. \A i \in 1..(n + 1) : i \in 1..n \/ i = n + 1
    BY <1>3
  <2>2. n + 1 \in 1..(n + 1) /\ \A i \in 1..n : i \in 1..(n + 1) /\ n + 1 \in (i + 1)..(n + 1)
    BY <1>3
  <2>3. ASSUME NEW i \in 1..(n + 1), Says(i, f)', \A j \in (i + 1)..(n + 1) : ~Says(j, f)'
        PROVE  toDaemon'[i].ui[f] = view[f]
    <3>1. CASE f \in DOMAIN unsent
      <4>1. i = n + 1
        BY <1>6, <2>1, <2>2, <2>3, <3>1
      <4> QED
        BY <1>3, <1>5, <1>8, <3>1, <4>1 DEF Synced
    <3>2. CASE f \notin DOMAIN unsent
      <4>1. i \in 1..n /\ Says(i, f)
        BY <1>6, <2>1, <2>3, <3>2
      <4>2. \A j \in (i + 1)..n : j \in 1..n /\ j \in (i + 1)..(n + 1)
        BY <1>3, <4>1
      <4>3. \A j \in (i + 1)..n : ~Says(j, f)
        BY <1>6, <2>3, <4>2
      <4>4. toDaemon[i].ui[f] = view[f]
        BY <1>0, <1>8, <3>2, <4>1, <4>3 DEF Synced
      <4> QED
        BY <1>3, <4>1, <4>4
    <3> QED
      BY <3>1, <3>2
  <2>4. ASSUME \A i \in 1..(n + 1) : ~Says(i, f)'
        PROVE  view[f] = IF f \in DOMAIN stored THEN stored[f] ELSE Default[f]
    <3>1. f \notin DOMAIN unsent /\ \A i \in 1..n : ~Says(i, f)
      BY <1>6, <2>2, <2>4
    <3> QED
      BY <1>0, <1>8, <3>1 DEF Synced
  <2> QED
    BY <1>1, <1>3, <1>5, <2>3, <2>4 DEF Synced
<1>9. ASSUME NEW f PROVE (Moving(f) => Moving(f)') /\ (Agreed(f) => Agreed(f)')
  BY <1>1 DEF Moving, Agreed
<1>10. hydrated' => \A f \in DOMAIN view' : f \in early' \/ Moving(f)' \/ Synced(f)'
  BY <1>1, <1>8, <1>9 DEF SyncOK
<1>11. ~hydrated' =>
          /\ DOMAIN view' = DOMAIN Default
          /\ \A f : f \in early' \/ Unsaid(f)'
          /\ \A f \in DOMAIN view' : f \in early' \/ Moving(f)' \/ view'[f] = Default[f]
          /\ answer' # <<>> => \A f : f \in early' \/ Agreed(f)'
  BY <1>1, <1>7, <1>9 DEF SyncOK
<1>12. \E S : toDaemon' \in Seq(S)
  BY <1>4
<1> QED
  BY <1>1, <1>10, <1>11, <1>12 DEF SyncOK

\* The daemon's turn takes the first request.
LEMMA ServeSync ==
    ASSUME SyncOK, UiServed
    PROVE  SyncOK'
<1> DEFINE first == Head(toDaemon)
           Takes(f) == first.ask = "ui.set" /\ f \in DOMAIN first.ui
<1>1. /\ toDaemon # <<>> /\ toDaemon' = Tail(toDaemon)
      /\ view' = view /\ hydrated' = hydrated /\ unsent' = unsent
      /\ early' = early /\ grabbed' = grabbed /\ dragging' = dragging
  BY DEF UiServed, mouseVars
<1>2. PICK R : toDaemon \in Seq(R)
  BY DEF SyncOK
<1>0. PICK n \in Nat : n = Len(toDaemon)
  BY <1>2
<1>3. /\ n \in Nat \ {0} /\ toDaemon' \in Seq(R) /\ Len(toDaemon') = n - 1
      /\ first = toDaemon[1] /\ \A i \in 1..(n - 1) : toDaemon'[i] = toDaemon[i + 1]
  BY <1>0, <1>1, <1>2
<1>4. \/ first.ask = "ui.get" /\ answer' = <<stored>> /\ stored' = stored
      \/ first.ask = "ui.set" /\ stored' = Over(first.ui, stored) /\ answer' = answer
  BY DEF UiServed
<1> HIDE DEF first
<1>5. ASSUME NEW f
      PROVE  /\ f \in DOMAIN stored' <=> f \in DOMAIN stored \/ Takes(f)
             /\ Takes(f) => stored'[f] = first.ui[f]
             /\ ~Takes(f) /\ f \in DOMAIN stored => stored'[f] = stored[f]
  BY <1>4 DEF Over
<1>6. ASSUME NEW f
      PROVE  /\ \A i \in 1..(n - 1) : Says(i, f)' <=> Says(i + 1, f)
             /\ Takes(f) <=> Says(1, f)
  BY <1>3 DEF Says
<1>7. \A i \in 1..n : i = 1 \/ i - 1 \in 1..(n - 1)
  BY <1>3
<1>8. 1 \in 1..n /\ \A i \in 1..(n - 1) : i + 1 \in 1..n /\ (i + 1) - 1 = i
  BY <1>3
<1>9. ASSUME NEW f, Unsaid(f) PROVE Unsaid(f)' /\ ~Takes(f)
  <2>1. \A i \in 1..n : ~Says(i, f)
    BY <1>0, <1>9 DEF Unsaid
  <2>2. \A i \in 1..(n - 1) : ~Says(i, f)'
    BY <1>6, <1>8, <2>1
  <2> QED
    BY <1>1, <1>3, <1>6, <1>8, <1>9, <2>1, <2>2 DEF Unsaid
<1>10. ASSUME NEW f, Synced(f) PROVE Synced(f)'
  <2>1. ASSUME f \notin DOMAIN unsent, NEW i \in 1..(n - 1), Says(i, f)',
               \A j \in (i + 1)..(n - 1) : ~Says(j, f)'
        PROVE  toDaemon'[i].ui[f] = view[f]
    <3>1. i + 1 \in 1..n /\ Says(i + 1, f)
      BY <1>6, <1>8, <2>1
    <3>2. ASSUME NEW j \in ((i + 1) + 1)..n PROVE ~Says(j, f)
      <4>1. PICK k \in 1..(n - 1) : j = k + 1 /\ k \in (i + 1)..(n - 1)
        <5>1. j - 1 \in 1..(n - 1) /\ j = (j - 1) + 1 /\ j - 1 \in (i + 1)..(n - 1)
          BY <1>3, <3>1
        <5> QED
          BY <5>1
      <4> QED
        BY <1>6, <2>1, <4>1
    <3>3. toDaemon[i + 1].ui[f] = view[f]
      BY <1>0, <1>10, <2>1, <3>1, <3>2 DEF Synced
    <3> QED
      BY <1>3, <3>3
  <2>2. ASSUME f \notin DOMAIN unsent, \A i \in 1..(n - 1) : ~Says(i, f)'
        PROVE  view[f] = IF f \in DOMAIN stored' THEN stored'[f] ELSE Default[f]
    <3>1. ASSUME NEW i \in 1..n, i # 1 PROVE ~Says(i, f)
      <4>1. i - 1 \in 1..(n - 1) /\ (i - 1) + 1 = i
        BY <1>3, <3>1
      <4>2. ~Says(i - 1, f)'
        BY <2>2, <4>1
      <4>3. Says(i - 1, f)' <=> Says((i - 1) + 1, f)
        BY <1>6, <4>1
      <4> QED
        BY <4>1, <4>2, <4>3
    <3>2. CASE Takes(f)
      <4>1. \A j \in (1 + 1)..n : j \in 1..n /\ j # 1
        BY <1>3
      <4>2. \A j \in (1 + 1)..n : ~Says(j, f)
        BY <3>1, <4>1
      <4>3. toDaemon[1].ui[f] = view[f]
        BY <1>0, <1>6, <1>8, <1>10, <2>2, <3>2, <4>2 DEF Synced
      <4> QED
        BY <1>3, <1>5, <3>2, <4>3
    <3>3. CASE ~Takes(f)
      <4>1. \A i \in 1..n : ~Says(i, f)
        BY <1>6, <3>1, <3>3
      <4>2. view[f] = IF f \in DOMAIN stored THEN stored[f] ELSE Default[f]
        BY <1>0, <1>10, <2>2, <4>1 DEF Synced
      <4> QED
        BY <1>5, <3>3, <4>2
    <3> QED
      BY <3>2, <3>3
  <2> QED
    BY <1>1, <1>3, <1>10, <2>1, <2>2 DEF Synced
<1>11. ASSUME NEW f PROVE Moving(f) => Moving(f)'
  BY <1>1 DEF Moving
<1>12. ASSUME NEW f, ~Takes(f), answer' # <<>>, answer # <<>> => Agreed(f) PROVE Agreed(f)'
  <2>1. f \in DOMAIN stored' <=> f \in DOMAIN stored
    BY <1>5, <1>12
  <2>2. f \in DOMAIN stored => stored'[f] = stored[f]
    BY <1>5, <1>12
  <2>3. CASE answer' = <<stored>>
    BY <2>1, <2>2, <2>3 DEF Agreed
  <2>4. CASE answer' = answer
    BY <1>12, <2>1, <2>2, <2>4 DEF Agreed
  <2> QED
    BY <1>4, <2>3, <2>4
<1> HIDE DEF Takes
<1>13. hydrated' => \A f \in DOMAIN view' : f \in early' \/ Moving(f)' \/ Synced(f)'
  BY <1>1, <1>10, <1>11 DEF SyncOK
<1>14. ~hydrated' =>
          /\ DOMAIN view' = DOMAIN Default
          /\ \A f : f \in early' \/ Unsaid(f)'
          /\ \A f \in DOMAIN view' : f \in early' \/ Moving(f)' \/ view'[f] = Default[f]
          /\ answer' # <<>> => \A f : f \in early' \/ Agreed(f)'
  BY <1>1, <1>9, <1>11, <1>12 DEF SyncOK
<1>15. \E S : toDaemon' \in Seq(S)
  BY <1>3
<1> QED
  BY <1>1, <1>13, <1>14, <1>15 DEF SyncOK

\* The screen shows what was stored, but for what was changed meanwhile.
LEMMA HydrateSync ==
    ASSUME SyncOK, Hydrate
    PROVE  SyncOK'
<1> DEFINE ui == answer[1]
           orders == IF {"repoOrder", "targetOrder"} \cap DOMAIN ui = {} THEN <<>>
                     ELSE [repoOrder |-> <<>>, targetOrder |-> <<>>]
<1>1. /\ ~hydrated /\ answer # <<>> /\ hydrated' = TRUE
      /\ view' = Over(ui, Over(orders, view))
      /\ unsent' = unsent /\ toDaemon' = toDaemon /\ stored' = stored
      /\ early' = early /\ grabbed' = grabbed /\ dragging' = dragging
  BY DEF Hydrate, mouseVars, Seeded
<1>2. DOMAIN orders \subseteq DOMAIN Default /\ \A f \in DOMAIN orders : orders[f] = Default[f]
  BY DEF Default
<1> HIDE DEF orders, ui
<1>3. /\ DOMAIN view' = DOMAIN ui \cup (DOMAIN orders \cup DOMAIN view)
      /\ \A f \in DOMAIN ui : view'[f] = ui[f]
      /\ \A f \in DOMAIN view' : f \notin DOMAIN ui => f \in DOMAIN orders \/ f \in DOMAIN view
      /\ \A f \in DOMAIN orders : f \notin DOMAIN ui => view'[f] = orders[f]
      /\ \A f \in DOMAIN view : f \notin DOMAIN ui /\ f \notin DOMAIN orders => view'[f] = view[f]
  BY <1>1 DEF Over
<1>4. ASSUME NEW f \in DOMAIN view', f \notin early, ~Moving(f) PROVE Synced(f)'
  <2>1. Unsaid(f) /\ (f \in DOMAIN ui <=> f \in DOMAIN stored)
                  /\ (f \in DOMAIN stored => ui[f] = stored[f])
    BY <1>1, <1>4 DEF SyncOK, Agreed, ui
  <2>2. view'[f] = IF f \in DOMAIN stored THEN stored[f] ELSE Default[f]
    <3>1. CASE f \in DOMAIN ui
      BY <1>3, <2>1, <3>1
    <3>2. CASE f \notin DOMAIN ui
      <4>1. f \in DOMAIN view => view[f] = Default[f]
        BY <1>1, <1>4 DEF SyncOK
      <4> QED
        BY <1>2, <1>3, <2>1, <3>2, <4>1
    <3> QED
      BY <3>1, <3>2
  <2> QED
    BY <1>1, <2>1, <2>2 DEF Synced, Unsaid, Says
<1>5. \A f : Moving(f)' <=> Moving(f)
  BY <1>1 DEF Moving
<1> QED
  BY <1>1, <1>3, <1>4, <1>5 DEF SyncOK

-----------------------------------------------------------------------------
(* Every order names everything once. *)

\* Every order, on the screen, unsent, on its way or stored, names everything once.
OrdersInv ==
    /\ ListsOnce
    /\ OrdersOnce(view) /\ OrdersOnce(unsent) /\ OrdersOnce(stored)
    /\ answer # <<>> => OrdersOnce(answer[1])
    /\ \A i \in 1..Len(toDaemon) : toDaemon[i].ask = "ui.set" => OrdersOnce(toDaemon[i].ui)

SideInv == SyncOK /\ OrdersInv

LEMMA OverOnce ==
    ASSUME NEW new, NEW old, OrdersOnce(new), OrdersOnce(old)
    PROVE  OrdersOnce(Over(new, old))
<1> DEFINE ui == Over(new, old)
<1>1. /\ DOMAIN ui = DOMAIN new \cup DOMAIN old
      /\ \A f \in DOMAIN ui : ui[f] = IF f \in DOMAIN new THEN new[f] ELSE old[f]
  BY DEF Over
<1> HIDE DEF ui
<1>2. "repoOrder" \in DOMAIN ui => ui.repoOrder \in Seq(Repos) /\ IsInjective(ui.repoOrder)
  BY <1>1 DEF OrdersOnce
<1>3. ASSUME "targetOrder" \in DOMAIN ui, NEW r \in DOMAIN ui.targetOrder
      PROVE  ui.targetOrder[r] \in Seq(Slugs) /\ IsInjective(ui.targetOrder[r])
  <2>1. CASE "targetOrder" \in DOMAIN new
    BY <1>1, <1>3, <2>1 DEF OrdersOnce
  <2>2. CASE "targetOrder" \notin DOMAIN new
    BY <1>1, <1>3, <2>2 DEF OrdersOnce
  <2> QED
    BY <2>1, <2>2
<1>4. OrdersOnce(ui)
  BY <1>2, <1>3 DEF OrdersOnce
<1> QED
  BY <1>4 DEF ui

LEMMA ViewOrdersOK ==
    ASSUME SideInv
    PROVE  OrdersOK
<1>1. "repoOrder" \in DOMAIN view /\ "targetOrder" \in DOMAIN view
  BY DEF SideInv, SyncOK, Default
<1> QED
  BY <1>1 DEF SideInv, OrdersInv, OrdersOnce, OrdersOK, Once

LEMMA PatchOrders ==
    ASSUME OrdersInv, NEW changes, Patch(changes), OrdersOnce(changes), UNCHANGED listVars
    PROVE  OrdersInv'
<1>1. /\ view' = Over(changes, view) /\ unsent' = Over(changes, unsent)
      /\ toDaemon' = toDaemon /\ answer' = answer /\ stored' = stored
      /\ listed' = listed /\ targets' = targets
  BY DEF Patch, Merged, listVars
<1>2. OrdersOnce(Over(changes, view)) /\ OrdersOnce(Over(changes, unsent))
  BY OverOnce DEF OrdersInv
<1>3. OrdersOnce(view') /\ OrdersOnce(unsent')
  BY <1>1, <1>2
<1> QED
  BY <1>1, <1>3 DEF OrdersInv, ListsOnce

LEMMA FlushOrders ==
    ASSUME SideInv, FlushUi
    PROVE  OrdersInv'
<1> DEFINE request == [ask |-> "ui.set", ui |-> unsent]
<1>1. /\ unsent' = <<>> /\ toDaemon' = Append(toDaemon, request)
      /\ view' = view /\ answer' = answer /\ stored' = stored
      /\ listed' = listed /\ targets' = targets
  BY DEF FlushUi, listVars
<1>2. PICK R : toDaemon \in Seq(R)
  BY DEF SideInv, SyncOK
<1>3. PICK n \in Nat : n = Len(toDaemon)
  BY <1>2
<1>4. /\ Len(toDaemon') = n + 1 /\ toDaemon'[n + 1] = request
      /\ \A i \in 1..n : toDaemon'[i] = toDaemon[i]
  BY <1>1, <1>2, <1>3
<1>5. request.ui = unsent /\ DOMAIN unsent' = {}
  BY <1>1
<1> HIDE DEF request
<1>6. OrdersOnce(unsent')
  BY <1>5 DEF OrdersOnce
<1>7. ASSUME NEW i \in 1..(n + 1), toDaemon'[i].ask = "ui.set" PROVE OrdersOnce(toDaemon'[i].ui)
  <2>1. CASE i = n + 1
    BY <1>4, <1>5, <2>1 DEF SideInv, OrdersInv
  <2>2. CASE i # n + 1
    <3>1. i \in 1..Len(toDaemon) /\ toDaemon'[i] = toDaemon[i]
      BY <1>3, <1>4, <2>2
    <3> QED
      BY <1>7, <3>1 DEF SideInv, OrdersInv
  <2> QED
    BY <2>1, <2>2
<1> QED
  BY <1>1, <1>4, <1>6, <1>7 DEF SideInv, OrdersInv, ListsOnce

LEMMA ServeOrders ==
    ASSUME SideInv, UiServed
    PROVE  OrdersInv'
<1> DEFINE first == Head(toDaemon)
<1>1. /\ toDaemon # <<>> /\ toDaemon' = Tail(toDaemon)
      /\ view' = view /\ unsent' = unsent /\ listed' = listed /\ targets' = targets
  BY DEF UiServed, listVars
<1>2. PICK R : toDaemon \in Seq(R)
  BY DEF SideInv, SyncOK
<1>3. PICK n \in Nat : n = Len(toDaemon)
  BY <1>2
<1>4. /\ n # 0 /\ Len(toDaemon') = n - 1 /\ first = toDaemon[1]
      /\ \A i \in 1..(n - 1) : toDaemon'[i] = toDaemon[i + 1]
  BY <1>1, <1>2, <1>3
<1>5. \/ answer' = <<stored>> /\ stored' = stored
      \/ first.ask = "ui.set" /\ stored' = Over(first.ui, stored) /\ answer' = answer
  BY DEF UiServed
<1> HIDE DEF first
<1>6. OrdersOnce(stored')
  <2>1. CASE stored' = stored
    BY <2>1 DEF SideInv, OrdersInv
  <2>2. CASE first.ask = "ui.set" /\ stored' = Over(first.ui, stored)
    <3>1. 1 \in 1..Len(toDaemon)
      BY <1>3, <1>4
    <3>2. OrdersOnce(first.ui) /\ OrdersOnce(stored)
      BY <1>4, <2>2, <3>1 DEF SideInv, OrdersInv
    <3> QED
      BY <2>2, <3>2, OverOnce
  <2> QED
    BY <1>5, <2>1, <2>2
<1>7. answer' # <<>> => OrdersOnce(answer'[1])
  <2>1. CASE answer' = <<stored>>
    BY <2>1 DEF SideInv, OrdersInv
  <2>2. CASE answer' = answer
    BY <2>2 DEF SideInv, OrdersInv
  <2> QED
    BY <1>5, <2>1, <2>2
<1>8. ASSUME NEW i \in 1..(n - 1), toDaemon'[i].ask = "ui.set" PROVE OrdersOnce(toDaemon'[i].ui)
  <2>1. i + 1 \in 1..Len(toDaemon) /\ toDaemon'[i] = toDaemon[i + 1]
    BY <1>3, <1>4
  <2> QED
    BY <1>8, <2>1 DEF SideInv, OrdersInv
<1> QED
  BY <1>1, <1>4, <1>6, <1>7, <1>8 DEF SideInv, OrdersInv, ListsOnce

LEMMA HydrateOrders ==
    ASSUME SideInv, Hydrate
    PROVE  OrdersInv'
<1> DEFINE ui == answer[1]
           orders == IF {"repoOrder", "targetOrder"} \cap DOMAIN ui = {} THEN <<>>
                     ELSE [repoOrder |-> <<>>, targetOrder |-> <<>>]
<1>1. /\ answer # <<>> /\ answer' = <<>> /\ view' = Over(ui, Over(orders, view))
      /\ unsent' = unsent /\ toDaemon' = toDaemon /\ stored' = stored
      /\ listed' = listed /\ targets' = targets
  BY DEF Hydrate, Seeded, listVars
<1>2. OrdersOnce(ui) /\ OrdersOnce(view)
  BY <1>1 DEF SideInv, OrdersInv
<1>3. OrdersOnce(orders)
  <2>1. OrdersOnce(<<>>)
    BY DEF OrdersOnce
  <2>2. OrdersOnce([repoOrder |-> <<>>, targetOrder |-> <<>>])
    BY DEF OrdersOnce, IsInjective
  <2> QED
    BY <2>1, <2>2
<1> HIDE DEF ui, orders
<1>4. OrdersOnce(Over(ui, Over(orders, view)))
  <2>1. OrdersOnce(Over(orders, view))
    BY <1>2, <1>3, OverOnce
  <2> QED
    BY <1>2, <2>1, OverOnce
<1> QED
  BY <1>1, <1>4 DEF SideInv, OrdersInv, ListsOnce

\* The view state is left alone.
LEMMA QuietOrders ==
    ASSUME OrdersInv, UNCHANGED uiVars, ListsOnce'
    PROVE  OrdersInv'
<1>1. view' = view /\ unsent' = unsent /\ stored' = stored /\ answer' = answer /\ toDaemon' = toDaemon
  BY DEF uiVars
<1> QED
  BY <1>1 DEF OrdersInv

-----------------------------------------------------------------------------
(* The view, step by step. *)

LEMMA SideQuiet ==
    ASSUME SideInv, UNCHANGED uiVars, dragging = "edge" => dragging' = "edge",
           dragging' = "edge" => grabbed' = Nothing, ListsOnce'
    PROVE  SideInv'
BY QuietSync, QuietOrders DEF SideInv

LEMMA SidePatch ==
    ASSUME SideInv, NEW changes, Patch(changes), OrdersOnce(changes), UNCHANGED listVars,
           dragging = "edge" => dragging' = "edge" \/ "sidebarWidth" \in DOMAIN changes,
           dragging' = "edge" => grabbed' = Nothing,
           DOMAIN changes \subseteq DOMAIN Default
    PROVE  SideInv'
BY PatchSync, PatchOrders DEF SideInv

LEMMA FieldsOfView ==
    DOMAIN Default = {"sidebarWidth", "collapsedRepos", "repoOrder", "targetOrder"}
BY DEF Default

LEMMA TogglePatch ==
    ASSUME SideInv, NEW r, ToggleGroup(r), UNCHANGED listVars,
           dragging = "edge" => dragging' = "edge",
           dragging' = "edge" => grabbed' = Nothing
    PROVE  SideInv'
<1> DEFINE folded == IF r \in view.collapsedRepos THEN view.collapsedRepos \ {r}
                     ELSE view.collapsedRepos \cup {r}
           changes == [collapsedRepos |-> folded]
<1>1. Patch(changes)
  BY DEF ToggleGroup
<1> HIDE DEF folded
<1>2. OrdersOnce(changes) /\ DOMAIN changes \subseteq DOMAIN Default
  BY FieldsOfView DEF OrdersOnce
<1> HIDE DEF changes
<1> QED
  BY <1>1, <1>2, SidePatch

\* What is dropped on a row is put into an order that has everything once.
LEMMA DropStep ==
    ASSUME SideInv, NEW to, Drop(to)
    PROVE  SideInv'
<1>1. /\ dragging = "row" /\ grabbed' = Nothing /\ dragging' = "no" /\ UNCHANGED listVars
  BY DEF Drop, Released
<1>2. ListsOnce /\ ListsOnce'
  BY <1>1 DEF SideInv, OrdersInv, ListsOnce, listVars
<1>3. OrdersOK
  BY ViewOrdersOK
<1>4. CASE UNCHANGED uiVars
  BY <1>1, <1>2, <1>4, SideQuiet
<1>5. ASSUME NEW r, Patch([repoOrder |-> MoveInto(GroupRepos, grabbed.key, r)])
      PROVE  SideInv'
  <2> DEFINE order == MoveInto(GroupRepos, grabbed.key, r)
             changes == [repoOrder |-> order]
  <2>1. order \in Once(Repos)
    <3>1. GroupRepos \in Once(Repos)
      BY <1>2, <1>3, GroupReposOnce
    <3> QED
      BY <3>1, MovedOnce
  <2>2. Patch(changes)
    BY <1>5
  <2> HIDE DEF order
  <2>3. OrdersOnce(changes) /\ DOMAIN changes \subseteq DOMAIN Default
    BY <2>1, FieldsOfView DEF OrdersOnce, Once
  <2> HIDE DEF changes
  <2> QED
    BY <1>1, <2>2, <2>3, SidePatch
<1>6. ASSUME NEW r, NEW anchor,
             Patch([targetOrder |-> Over([q \in {r} |-> MoveInto(Group(r), grabbed.key, anchor)],
                                         view.targetOrder)])
      PROVE  SideInv'
  <2> DEFINE own == MoveInto(Group(r), grabbed.key, anchor)
             orders == Over([q \in {r} |-> own], view.targetOrder)
             changes == [targetOrder |-> orders]
  <2>1. own \in Once(Slugs)
    <3>1. Group(r) \in Once(Slugs)
      BY <1>2, <1>3, GroupOnce
    <3> QED
      BY <3>1, MovedOnce
  <2>2. Patch(changes)
    BY <1>6
  <2> HIDE DEF own
  <2>3. \A q \in DOMAIN orders : orders[q] \in Once(Slugs)
    BY <1>3, <2>1 DEF Over, OrdersOK
  <2> HIDE DEF orders
  <2>4. OrdersOnce(changes) /\ DOMAIN changes \subseteq DOMAIN Default
    BY <2>3, FieldsOfView DEF OrdersOnce, Once
  <2> HIDE DEF changes
  <2> QED
    BY <1>1, <2>2, <2>4, SidePatch
<1>7. \/ \E r : Patch([repoOrder |-> MoveInto(GroupRepos, grabbed.key, r)])
      \/ UNCHANGED uiVars
      \/ \E r, anchor :
            Patch([targetOrder |-> Over([q \in {r} |-> MoveInto(Group(r), grabbed.key, anchor)],
                                        view.targetOrder)])
  <2>1. CASE grabbed.kind = "repo"
    BY <2>1, Zenon DEF Drop
  <2>2. CASE grabbed.kind # "repo"
    BY <2>2, Zenon DEF Drop
  <2> QED
    BY <2>1, <2>2
<1> QED
  BY <1>4, <1>5, <1>6, <1>7

LEMMA DropEdgeStep ==
    ASSUME SideInv, DropEdge
    PROVE  SideInv'
<1> DEFINE changes == [sidebarWidth |-> view.sidebarWidth]
<1>1. Patch(changes) /\ dragging' = "no" /\ UNCHANGED listVars
  BY DEF DropEdge, Released
<1>2. OrdersOnce(changes) /\ DOMAIN changes = {"sidebarWidth"}
  BY DEF OrdersOnce
<1> HIDE DEF changes
<1> QED
  BY <1>1, <1>2, FieldsOfView, SidePatch

LEMMA DragEdgeStep ==
    ASSUME SideInv, NEW w, DragEdge(w)
    PROVE  SideInv'
<1>1. SyncOK'
  BY DragSync DEF SideInv
<1>2. /\ view' = [view EXCEPT !.sidebarWidth = w] /\ unsent' = unsent /\ toDaemon' = toDaemon
      /\ answer' = answer /\ stored' = stored /\ listed' = listed /\ targets' = targets
  BY DEF DragEdge, listVars
<1>3. /\ DOMAIN view' = DOMAIN view /\ view'.repoOrder = view.repoOrder
      /\ view'.targetOrder = view.targetOrder
  BY <1>2
<1>4. OrdersOnce(view')
  BY <1>3 DEF SideInv, OrdersInv, OrdersOnce
<1> QED
  BY <1>1, <1>2, <1>4 DEF SideInv, OrdersInv, ListsOnce

LEMMA SidebarStep ==
    ASSUME SideInv, ViewNext
    PROVE  SideInv'
<1>1. CASE FlushUi
  BY <1>1, FlushSync, FlushOrders DEF SideInv
<1>2. CASE UiServed
  BY <1>2, ServeSync, ServeOrders DEF SideInv
<1>3. CASE Hydrate
  BY <1>3, HydrateSync, HydrateOrders DEF SideInv
<1>4. CASE FoldSelected
  <2>1. ToggleGroup(RepoPath[selected]) /\ UNCHANGED listVars /\ UNCHANGED mouseVars
    BY <1>4 DEF FoldSelected
  <2>2. dragging' = dragging /\ grabbed' = grabbed /\ (dragging = "edge" => grabbed = Nothing)
    BY <2>1 DEF mouseVars, SideInv, SyncOK
  <2> QED
    BY <2>1, <2>2, TogglePatch
<1>5. ASSUME NEW h \in Handles, Press(h) PROVE SideInv'
  BY <1>5, SideQuiet DEF Press, SideInv, OrdersInv, ListsOnce, listVars
<1>6. ASSUME NEW h \in Handles, Release(h) PROVE SideInv'
  <2>1. dragging = "no" /\ dragging' = "no" /\ UNCHANGED listVars
    BY <1>6 DEF Release, Released
  <2>2. CASE ToggleGroup(h.key)
    BY <2>1, <2>2, TogglePatch
  <2>3. CASE UNCHANGED uiVars
    BY <2>1, <2>3, SideQuiet DEF SideInv, OrdersInv, ListsOnce, listVars
  <2> QED
    BY <1>6, <2>2, <2>3 DEF Release
<1>7. ASSUME NEW h \in Handles, Drop(h) PROVE SideInv'
  BY <1>7, DropStep
<1>8. CASE Drag
  BY <1>8, SideQuiet DEF Drag, SideInv, OrdersInv, ListsOnce, listVars
<1>9. CASE DropNowhere
  <2>1. dragging # "edge" /\ dragging' = "no" /\ UNCHANGED uiVars /\ UNCHANGED listVars
    BY <1>9 DEF DropNowhere, Released, SideInv, SyncOK
  <2> QED
    BY <2>1, SideQuiet DEF SideInv, OrdersInv, ListsOnce, listVars
<1>10. CASE DropEdge
  BY <1>10, DropEdgeStep
<1>11. ASSUME NEW w \in Widths, DragEdge(w) PROVE SideInv'
  BY <1>11, DragEdgeStep
<1> QED
  BY <1>1, <1>2, <1>3, <1>4, <1>5, <1>6, <1>7, <1>8, <1>9, <1>10, <1>11 DEF ViewNext

\* The list and the selection leave the view state alone.
LEMMA SideElsewhere ==
    ASSUME SideInv, UNCHANGED uiVars, UNCHANGED mouseVars, ListsOnce'
    PROVE  SideInv'
<1>1. dragging' = dragging /\ grabbed' = grabbed /\ (dragging = "edge" => grabbed = Nothing)
  BY DEF mouseVars, SideInv, SyncOK
<1> QED
  BY <1>1, SideQuiet

LEMMA SideList ==
    ASSUME SideInv, ListNext \/ MoveKeys \/ UNCHANGED sidebarVars
    PROVE  SideInv'
<1>1. ListsOnce
  BY DEF SideInv, OrdersInv
<1>2. CASE ListChanges
  <2>1. listed' \in Listings /\ targets' = targets /\ UNCHANGED uiVars /\ UNCHANGED mouseVars
    BY <1>2 DEF ListChanges
  <2>2. listed' \in Once(Slugs)
    BY <2>1, SidebarAssumption DEF Once
  <2> QED
    BY <1>1, <2>1, <2>2, SideElsewhere DEF ListsOnce
<1>3. CASE Refresh
  <2>1. listed' = listed /\ targets' = listed /\ UNCHANGED uiVars /\ UNCHANGED mouseVars
    BY <1>3 DEF Refresh
  <2> QED
    BY <1>1, <2>1, SideElsewhere DEF ListsOnce
<1>4. CASE FixSelection \/ MoveKeys \/ UNCHANGED sidebarVars
  <2>1. UNCHANGED listVars /\ UNCHANGED uiVars /\ UNCHANGED mouseVars
    BY <1>4 DEF FixSelection, MoveKeys, MoveSelection, sidebarVars
  <2> QED
    BY <1>1, <2>1, SideElsewhere DEF ListsOnce, listVars
<1> QED
  BY <1>2, <1>3, <1>4 DEF ListNext

\* The palette moves the selection at most.
LEMMA PaletteLeavesViewAlone ==
    ASSUME PaletteNext
    PROVE  UNCHANGED listVars /\ UNCHANGED uiVars /\ UNCHANGED mouseVars
<1> USE DEF sidebarVars
<1>1. CASE \E slug \in Range(VisibleSlugs) \cup {Nobody} : OpenPalette(slug)
  BY <1>1 DEF OpenPalette
<1>2. CASE \E request \in flying : Answer(request)
  BY <1>2 DEF Answer
<1>3. CASE Escape
  BY <1>3 DEF Escape, ToMode
<1>4. CASE \E verb \in DOMAIN VERBS : StartVerb(verb)
  BY <1>4 DEF StartVerb, ToMode
<1>5. CASE form # NoForm /\ (\E i \in DOMAIN VERBS[form.verb] : OpenPicker(i))
  BY <1>5 DEF OpenPicker
<1>6. CASE ChoosePick \/ Backspace \/ Tab
  BY <1>6 DEF ChoosePick, Backspace, Tab, ToMode
<1>7. CASE Enter
  BY <1>7 DEF Enter, OpenPicker, Submit
<1> QED
  BY <1>1, <1>2, <1>3, <1>4, <1>5, <1>6, <1>7 DEF PaletteNext

LEMMA SideInit ==
    ASSUME Init
    PROVE  SideInv
<1>1. /\ listed = (CHOOSE l \in Listings : \A other \in Listings : Len(other) <= Len(l))
      /\ targets = <<>> /\ view = Default /\ hydrated = FALSE /\ unsent = <<>>
      /\ toDaemon = <<[ask |-> "ui.get"]>> /\ answer = <<>> /\ stored \in Sessions
      /\ grabbed = Nothing /\ dragging = "no" /\ early = {}
  BY DEF Init, SidebarInit
<1>2. listed \in Listings
  BY <1>1, SidebarAssumption
<1>3. ListsOnce
  <2>1. listed \in Once(Slugs)
    BY <1>2, SidebarAssumption DEF Once
  <2>2. targets \in Once(Slugs)
    BY <1>1 DEF Once, IsInjective
  <2> QED
    BY <2>1, <2>2 DEF ListsOnce
<1>4. OrdersOnce(view) /\ OrdersOnce(unsent)
  <2>1. OrdersOnce(Default)
    BY DEF Default, OrdersOnce, IsInjective
  <2>2. OrdersOnce(<<>>)
    BY DEF OrdersOnce
  <2> QED
    BY <1>1, <2>1, <2>2
<1>5. OrdersOnce(stored)
  BY <1>1, SidebarAssumption
<1>6. Len(toDaemon) = 1 /\ toDaemon[1].ask = "ui.get" /\ toDaemon \in Seq({[ask |-> "ui.get"]})
  BY <1>1
<1>7. \A i \in 1..Len(toDaemon) : toDaemon[i].ask # "ui.set"
  BY <1>6
<1>8. OrdersInv
  BY <1>1, <1>3, <1>4, <1>5, <1>7 DEF OrdersInv
<1>9. ASSUME NEW f PROVE Unsaid(f)
  BY <1>1, <1>7 DEF Unsaid, Says
<1>10. \E R : toDaemon \in Seq(R)
  BY <1>6
<1>11. SyncOK
  BY <1>1, <1>9, <1>10 DEF SyncOK
<1> QED
  BY <1>8, <1>11 DEF SideInv

LEMMA SideNext ==
    ASSUME SideInv, [Next]_vars
    PROVE  SideInv'
<1>1. CASE UNCHANGED vars
  BY <1>1, SideList DEF vars
<1>2. CASE ViewNext
  BY <1>2, SidebarStep
<1>3. CASE ListNext \/ MoveKeys
  BY <1>3, SideList
<1>4. ASSUME NEW texts, StreamNext(texts) \/ ScrollNext PROVE SideInv'
  BY <1>4, PaneLeavesListAlone, SideList
<1>5. CASE PaletteNext
  <2>1. ListsOnce'
    BY <1>5, PaletteLeavesViewAlone DEF SideInv, OrdersInv, ListsOnce, listVars
  <2> QED
    BY <1>5, <2>1, PaletteLeavesViewAlone, SideElsewhere
<1> QED
  BY <1>1, <1>2, <1>3, <1>4, <1>5 DEF Next, ListNext

LEMMA OneRow ==
    ASSUME SideInv, NEW s \in Range(targets)
    PROVE  Cardinality({i \in DOMAIN VisibleSlugs : VisibleSlugs[i] = s})
              = IF RepoPath[s] \in view.collapsedRepos THEN 0 ELSE 1
<1> DEFINE rows == VisibleSlugs
           at == {i \in DOMAIN rows : rows[i] = s}
<1>1. /\ rows \in Once(Slugs)
      /\ Range(rows) = {x \in Range(targets) : RepoPath[x] \notin view.collapsedRepos}
  BY ViewOrdersOK, RowsOnce DEF SideInv, OrdersInv
<1> HIDE DEF rows
<1>2. CASE RepoPath[s] \in view.collapsedRepos
  <2>1. at = {}
    BY <1>1, <1>2 DEF Range
  <2> QED
    BY <1>2, <2>1, FS_EmptySet DEF rows
<1>3. CASE RepoPath[s] \notin view.collapsedRepos
  <2>1. PICK i \in DOMAIN rows : rows[i] = s
    BY <1>1, <1>3 DEF Range
  <2>2. at = {i}
    BY <1>1, <2>1 DEF Once, IsInjective
  <2>3. Cardinality({i}) = 1
    BY FS_Singleton
  <2> QED
    BY <1>3, <2>2, <2>3 DEF rows
<1> QED
  BY <1>2, <1>3

\* What the user sees is what the next session will see, and every target has one row
\* in an open group (useUiState, mergeUi, groupTargets, sortByOrder, moveInto): in
\* whatever order changes, timers, answers, drags and drops come, however many.
THEOREM ViewIsKept == Spec => []SeenIsStored
<1>1. Init => SideInv
  BY SideInit
<1>2. SideInv /\ [Next]_vars => SideInv'
  BY SideNext
<1>3. SideInv => SeenIsStored
  <2> SUFFICES ASSUME SideInv PROVE SeenIsStored
    OBVIOUS
  <2>1. ASSUME hydrated, unsent = <<>>, toDaemon = <<>>, dragging # "edge",
               NEW f \in DOMAIN view, f \notin early
        PROVE  view[f] = IF f \in DOMAIN stored THEN stored[f] ELSE Default[f]
    <3>1. Synced(f)
      BY <2>1 DEF SideInv, SyncOK, Moving
    <3>2. DOMAIN unsent = {} /\ Len(toDaemon) = 0
      BY <2>1
    <3> QED
      BY <3>1, <3>2 DEF Synced
  <2> QED
    BY <2>1, OneRow DEF SeenIsStored
<1> QED
  BY <1>1, <1>2, <1>3, PTL DEF Spec

-----------------------------------------------------------------------------
(* The end of a list of lines, and what matches of it. *)

\* The first m members of f are rising numbers.
Climbs(f, m) ==
    /\ \A i \in 1..m : f[i] \in Nat
    /\ \A i, j \in 1..m : i < j => f[i] < f[j]

\* Those of f are among the n of g, with all of g that are greater than one of them.
EndsWith(g, n, f, m) ==
    /\ \A i \in 1..m : \E j \in 1..n : g[j] = f[i]
    /\ \A i \in 1..m : \A j \in 1..n : g[j] >= f[i] => \E k \in 1..m : f[k] = g[j]

LEMMA EndsAlign ==
    ASSUME NEW m \in Nat, NEW n \in Nat, NEW f, NEW g,
           Climbs(f, m), Climbs(g, n), EndsWith(g, n, f, m)
    PROVE  m <= n /\ \A i \in 1..m : f[i] = g[i + n - m]
<1>0. /\ \A i \in 1..m : f[i] \in Nat
      /\ \A i \in 1..n : g[i] \in Nat
      /\ \A i \in 1..m : \A j \in 1..m : i < j => f[i] < f[j]
      /\ \A i \in 1..n : \A j \in 1..n : i < j => g[i] < g[j]
      /\ \A i \in 1..m : \E j \in 1..n : g[j] = f[i]
      /\ \A i \in 1..m : \A j \in 1..n : g[j] >= f[i] => \E k \in 1..m : f[k] = g[j]
  BY DEF Climbs, EndsWith
<1> USE <1>0
<1> DEFINE T == {i \in Nat : i < m => n - i >= 1 /\ f[m - i] = g[n - i]}
<1>1. 0 \in T
  <2> SUFFICES ASSUME m > 0 PROVE n >= 1 /\ f[m] = g[n]
    OBVIOUS
  <2>1. m \in 1..m
    OBVIOUS
  <2>2. PICK j \in 1..n : g[j] = f[m]
    BY <2>1
  <2>3. n \in 1..n /\ n >= 1 /\ g[n] >= g[j]
    BY <2>2
  <2>4. PICK k \in 1..m : f[k] = g[n]
    BY <2>1, <2>2, <2>3
  <2>5. f[k] <= f[m]
    BY <2>1, <2>4
  <2> QED
    BY <2>1, <2>2, <2>3, <2>4, <2>5
<1>2. ASSUME NEW i \in Nat, i \in T PROVE i + 1 \in T
  <2> SUFFICES ASSUME i + 1 < m PROVE n - (i + 1) >= 1 /\ f[m - (i + 1)] = g[n - (i + 1)]
    OBVIOUS
  <2>1. n - i >= 1 /\ f[m - i] = g[n - i]
    BY <1>2
  <2>2. PICK a \in 1..m : a = m - (i + 1)
    OBVIOUS
  <2>3. a + 1 \in 1..m /\ m - i = a + 1 /\ f[a] < f[a + 1]
    BY <2>2
  <2>4. PICK b \in Nat : b = n - i
    BY <2>1
  <2>5. b \in 1..n /\ g[b] = f[a + 1]
    BY <2>1, <2>3, <2>4
  <2>6. PICK j \in 1..n : g[j] = f[a]
    OBVIOUS
  <2>7. j < b
    BY <2>3, <2>5, <2>6
  <2>8. b - 1 \in 1..n /\ g[b - 1] >= g[j] /\ g[b - 1] < g[b]
    BY <2>5, <2>7
  <2>9. PICK k \in 1..m : f[k] = g[b - 1]
    BY <2>6, <2>8
  <2>10. k <= a
    BY <2>3, <2>5, <2>8, <2>9
  <2>11. f[k] <= f[a]
    BY <2>10
  <2>12. g[b - 1] = f[a]
    BY <2>6, <2>8, <2>9, <2>11
  <2> QED
    BY <2>2, <2>4, <2>8, <2>12
<1>3. \A i \in Nat : i < m => n - i >= 1 /\ f[m - i] = g[n - i]
  <2>1. Nat \subseteq T
    <3> HIDE DEF T
    <3> QED
      BY <1>1, <1>2, NatSetInduction
  <2> QED
    BY <2>1
<1>4. m <= n
  <2>1. CASE m = 0
    BY <2>1
  <2>2. CASE m # 0
    <3>1. m - 1 \in Nat /\ m - 1 < m
      BY <2>2
    <3>2. n - (m - 1) >= 1
      BY <1>3, <3>1
    <3> QED
      BY <3>2
  <2> QED
    BY <2>1, <2>2
<1>5. ASSUME NEW i \in 1..m PROVE f[i] = g[i + n - m]
  <2>1. m - i \in Nat /\ m - i < m /\ m - (m - i) = i /\ n - (m - i) = i + n - m
    OBVIOUS
  <2> QED
    BY <1>3, <2>1
<1> QED
  BY <1>4, <1>5

\* The lines of the buffer are numbered in the order they came.
Rising(lines) == \A i, j \in 1..Len(lines) : i < j => lines[i].seq < lines[j].seq

\* What matches is in the order it came, and all there is.
Finds(lines, flt, found) ==
    /\ Rising(found)
    /\ \A i \in 1..Len(found) :
          Matches(found[i], flt) /\ \E j \in 1..Len(lines) : lines[j] = found[i]
    /\ \A j \in 1..Len(lines) :
          Matches(lines[j], flt) => \E i \in 1..Len(found) : found[i] = lines[j]

LEMMA MatchingIs ==
    ASSUME NEW owners, NEW lines \in Seq(Lines(owners)), Rising(lines), NEW flt
    PROVE  /\ Matching(lines, flt) \in Seq(Lines(owners))
           /\ Finds(lines, flt, Matching(lines, flt))
<1> DEFINE S == {line \in Range(lines) : Matches(line, flt)}
           L == Lines(owners)
<1>1. PICK found : found = Matching(lines, flt)
  OBVIOUS
<1>2. found = Only(lines, S)
  BY <1>1 DEF Matching
<1>3. Picked(L, lines, S, found, Len(lines))
  BY <1>2, OnlyPicks
<1>4. PICK h \in Seq(Nat) : PicksTo(lines, S, found, h, Len(lines))
  BY <1>3 DEF Picked
<1>5. found \in Seq(L) /\ Len(found) = Len(h) /\ DOMAIN lines = 1..Len(lines)
  BY <1>3, <1>4 DEF Picked, PicksTo
<1>6. \A j \in 1..Len(lines) : Matches(lines[j], flt) => lines[j] \in S
  BY <1>5 DEF Range
<1>7. \A line \in S : Matches(line, flt)
  OBVIOUS
<1> HIDE DEF S
<1>8. Rising(found)
  BY <1>4, <1>5 DEF PicksTo, Rising
<1>9. \A i \in 1..Len(found) :
          Matches(found[i], flt) /\ \E j \in 1..Len(lines) : lines[j] = found[i]
  BY <1>4, <1>5, <1>7 DEF PicksTo
<1>10. ASSUME NEW j \in 1..Len(lines), Matches(lines[j], flt)
       PROVE  \E i \in 1..Len(found) : found[i] = lines[j]
  <2>1. PICK i \in 1..Len(h) : h[i] = j
    BY <1>4, <1>6, <1>10 DEF PicksTo
  <2> QED
    BY <1>4, <1>5, <2>1 DEF PicksTo
<1> QED
  BY <1>1, <1>5, <1>8, <1>9, <1>10 DEF Finds

Later(lines, mark) == {l \in Range(lines) : l.seq > mark}

\* What has arrived is at the end of what matches.
LEMMA ArrivedIs ==
    ASSUME NEW owners, NEW lines \in Seq(Lines(owners)), NEW flt, NEW mark \in Nat,
           NEW found \in Seq(Lines(owners)), Finds(lines, flt, found)
    PROVE  LET k == Len(Only(found, Later(lines, mark))) IN
           /\ k \in 0..Len(found)
           /\ \A i \in 1..Len(found) : found[i].seq > mark <=> i > Len(found) - k
<1> DEFINE S == Later(lines, mark)
           L == Lines(owners)
<1>1. PICK n \in Nat : n = Len(found)
  OBVIOUS
<1>2. PICK q : q = Only(found, S)
  OBVIOUS
<1>3. Picked(L, found, S, q, n)
  BY <1>1, <1>2, OnlyPicks
<1>4. PICK h \in Seq(Nat) : PicksTo(found, S, q, h, n)
  BY <1>3 DEF Picked
<1>5. PICK k \in Nat : k = Len(h)
  BY <1>4
<1>6. Len(q) = k
  BY <1>4, <1>5 DEF PicksTo
<1>7. \A i \in 1..n : found[i] \in S <=> found[i].seq > mark
  <2>1. \A i \in 1..n : \E j \in DOMAIN lines : lines[j] = found[i]
    BY <1>1 DEF Finds
  <2>2. \A i \in 1..n : found[i] \in Range(lines)
    BY <2>1 DEF Range
  <2> QED
    BY <2>2 DEF Later
<1>8. \A i \in 1..n : found[i].seq \in Nat
  <2>1. \A i \in 1..n : found[i] \in L
    BY <1>1
  <2> QED
    BY <2>1 DEF Lines
<1> HIDE DEF S
<1>9. /\ \A i \in 1..k : h[i] \in 1..n /\ found[h[i]].seq > mark
      /\ \A i \in 1..k : \A j \in 1..k : i < j => h[i] < h[j]
      /\ \A m \in 1..n : found[m].seq > mark => \E i \in 1..k : h[i] = m
  BY <1>4, <1>5, <1>7 DEF PicksTo
<1>10. \A i \in 1..n : \A j \in 1..n : i < j => found[i].seq < found[j].seq
  BY <1>1 DEF Finds, Rising
<1> DEFINE id == [i \in 1..n |-> i]
<1>11. \A i \in 1..n : id[i] = i
  OBVIOUS
<1> HIDE DEF id
<1>12. \A i \in 1..k : \A j \in 1..n : j >= h[i] => \E m \in 1..k : h[m] = j
  <2> SUFFICES ASSUME NEW i \in 1..k, NEW j \in 1..n, j >= h[i]
               PROVE  found[j].seq > mark
    BY <1>9
  <2>1. PICK m \in 1..n : m = h[i] /\ found[m].seq > mark
    BY <1>9
  <2>2. CASE j = m
    BY <2>1, <2>2
  <2>3. CASE j > m
    <3>1. PICK x \in Nat, y \in Nat : x = found[m].seq /\ y = found[j].seq
      BY <1>8
    <3>2. x < y /\ x > mark
      BY <1>10, <2>1, <2>3, <3>1
    <3>3. y > mark
      BY <3>2
    <3> QED
      BY <3>1, <3>3
  <2> QED
    BY <2>1, <2>2, <2>3
<1>13. k <= n /\ \A i \in 1..k : h[i] = id[i + n - k]
  <2>1. Climbs(h, k)
    BY <1>9 DEF Climbs
  <2>2. Climbs(id, n)
    BY <1>11 DEF Climbs
  <2>3. EndsWith(id, n, h, k)
    BY <1>9, <1>11, <1>12 DEF EndsWith
  <2> QED
    BY <2>1, <2>2, <2>3, EndsAlign
<1>14. \A i \in 1..k : h[i] = i + n - k
  BY <1>11, <1>13
<1>15. ASSUME NEW i \in 1..n, found[i].seq > mark PROVE i > n - k
  <2>1. PICK m \in 1..k : h[m] = i
    BY <1>9, <1>15
  <2> QED
    BY <1>14, <2>1
<1>16. ASSUME NEW i \in 1..n, i > n - k PROVE found[i].seq > mark
  <2>1. i - (n - k) \in 1..k /\ (i - (n - k)) + n - k = i
    BY <1>13, <1>16
  <2>2. h[i - (n - k)] = i
    BY <1>14, <2>1
  <2> QED
    BY <1>9, <2>1, <2>2
<1>17. k \in 0..n
  BY <1>13
<1> QED
  BY <1>1, <1>2, <1>6, <1>15, <1>16, <1>17 DEF S

-----------------------------------------------------------------------------
(* What becomes of the lines of a buffer. *)

\* Trimming drops lines from the front.
LEMMA TrimmedDrops ==
    ASSUME NEW S, NEW lines \in Seq(S)
    PROVE  \E cut \in 0..Len(lines) :
               /\ Len(Trimmed(lines)) = Len(lines) - cut
               /\ \A i \in 1..(Len(lines) - cut) : Trimmed(lines)[i] = lines[i + cut]
<1>1. PICK n \in Nat : n = Len(lines)
  OBVIOUS
<1>2. CASE n <= Retain + Slack
  <2>1. Trimmed(lines) = lines
    BY <1>1, <1>2 DEF Trimmed
  <2>2. Len(Trimmed(lines)) = n - 0 /\ \A i \in 1..(n - 0) : Trimmed(lines)[i] = lines[i + 0]
    BY <1>1, <2>1
  <2> QED
    BY <1>1, <2>2
<1>3. CASE ~(n <= Retain + Slack)
  <2>1. Retain \in Nat \ {0} /\ Slack \in Nat
    BY LogPaneAssumption
  <2>2. PICK cut \in 0..n : cut = n - Retain
    BY <1>3, <2>1
  <2>3. Trimmed(lines) = SubSeq(lines, cut + 1, n)
    BY <1>1, <1>3, <2>1, <2>2 DEF Trimmed
  <2>4. /\ Len(SubSeq(lines, cut + 1, n)) = n - (cut + 1) + 1
        /\ \A k \in 1..(n - (cut + 1) + 1) : SubSeq(lines, cut + 1, n)[k] = lines[(cut + 1) + k - 1]
    <3>1. cut + 1 \in Nat \ {0} /\ cut + 1 <= n + 1
      OBVIOUS
    <3> QED
      BY <1>1, <3>1, SubSeqIs
  <2>5. n - (cut + 1) + 1 = n - cut /\ \A k \in Nat : (cut + 1) + k - 1 = k + cut
    OBVIOUS
  <2> QED
    BY <1>1, <2>3, <2>4, <2>5
<1> QED
  BY <1>2, <1>3

Numbered(b) ==
    /\ Rising(b.lines)
    /\ \A i \in 1..Len(b.lines) : b.lines[i].seq <= b.total

\* What c has of the lines that b had is their end, whatever has been added since.
Descends(b, c) ==
    /\ b.total <= c.total
    /\ \A j \in 1..Len(c.lines) :
          c.lines[j].seq <= b.total => \E i \in 1..Len(b.lines) : b.lines[i].seq = c.lines[j].seq
    /\ \A i \in 1..Len(b.lines) : \A j \in 1..Len(c.lines) :
          b.lines[i].seq >= c.lines[j].seq =>
              \E k \in 1..Len(c.lines) : Upheld(b.lines[i], c.lines[k])

LEMMA LineNumbers ==
    ASSUME NEW owners, NEW lines \in Seq(Lines(owners))
    PROVE  \A i \in 1..Len(lines) : lines[i].seq \in Nat
<1>1. \A i \in 1..Len(lines) : lines[i] \in Lines(owners)
  OBVIOUS
<1> QED
  BY <1>1 DEF Lines

LEMMA GoneOn ==
    ASSUME NEW owners, NEW b \in Buffers(owners), NEW c \in Buffers(owners), Numbered(b),
           GoesOn(owners, b, c)
    PROVE  Numbered(c) /\ Descends(b, c)
<1>1. PICK old \in Seq(Lines(owners)), new \in Seq(Lines(owners)) :
          /\ Len(old) = Len(b.lines) /\ \A i \in 1..Len(old) : Upheld(b.lines[i], old[i])
          /\ \A i \in 1..Len(new) : new[i].seq = b.total + i
          /\ c.lines = Trimmed(old \o new) /\ c.total = b.total + Len(new)
  BY DEF GoesOn
<1>2. PICK m \in Nat, k \in Nat : m = Len(old) /\ k = Len(new)
  OBVIOUS
<1>3. PICK full \in Seq(Lines(owners)) : full = old \o new
  <2>1. old \o new \in Seq(Lines(owners))
    BY CatIs
  <2> QED
    BY <2>1
<1>4. /\ Len(full) = m + k
      /\ \A i \in 1..m : full[i] = old[i]
      /\ \A i \in 1..k : full[m + i] = new[i]
  <2>1. /\ Len(old \o new) = Len(old) + Len(new)
        /\ \A i \in 1..Len(old) : (old \o new)[i] = old[i]
        /\ \A i \in 1..Len(new) : (old \o new)[Len(old) + i] = new[i]
    BY CatIs
  <2> QED
    BY <1>2, <1>3, <2>1
<1>5. PICK cut \in 0..(m + k) :
          /\ Len(c.lines) = m + k - cut
          /\ \A i \in 1..(m + k - cut) : c.lines[i] = full[i + cut]
  <2>1. PICK x \in 0..Len(full) :
            /\ Len(Trimmed(full)) = Len(full) - x
            /\ \A i \in 1..(Len(full) - x) : Trimmed(full)[i] = full[i + x]
    BY TrimmedDrops
  <2>2. c.lines = Trimmed(full)
    BY <1>1, <1>3
  <2>3. Len(full) = m + k
    BY <1>4
  <2>4. x \in 0..(m + k) /\ Len(c.lines) = m + k - x
    BY <2>1, <2>2, <2>3
  <2>5. \A i \in 1..(m + k - x) : c.lines[i] = full[i + x]
    BY <2>1, <2>2, <2>3
  <2> QED
    BY <2>4, <2>5
<1>6. b.total \in Nat /\ b.lines \in Seq(Lines(owners)) /\ \A i \in 1..m : b.lines[i].seq \in Nat
  <2>1. b.total \in Nat /\ b.lines \in Seq(Lines(owners))
    BY DEF Buffers
  <2> QED
    BY <1>1, <1>2, <2>1, LineNumbers
<1>7. /\ \A i \in 1..m : Upheld(b.lines[i], full[i]) /\ full[i].seq = b.lines[i].seq
                            /\ full[i].seq \in Nat /\ full[i].seq <= b.total
      /\ \A i \in 1..k : full[m + i].seq = b.total + i
  BY <1>1, <1>2, <1>4, <1>6 DEF Upheld, Numbered
<1>8. \A i \in 1..m : \A j \in 1..m : i < j => full[i].seq < full[j].seq
  BY <1>1, <1>2, <1>7 DEF Numbered, Rising
<1>9. \A i \in (m + 1)..(m + k) : full[i].seq = b.total + (i - m)
  <2>1. \A i \in (m + 1)..(m + k) : i - m \in 1..k /\ m + (i - m) = i
    OBVIOUS
  <2> QED
    BY <1>7, <2>1
<1>10. \A i \in 1..(m + k) : i \in 1..m \/ i \in (m + 1)..(m + k)
  OBVIOUS
<1>11. ASSUME NEW i \in 1..(m + k), NEW j \in 1..(m + k), i < j PROVE full[i].seq < full[j].seq
  <2>1. CASE j \in 1..m
    BY <1>8, <1>11, <2>1
  <2>2. CASE i \in 1..m /\ j \in (m + 1)..(m + k)
    BY <1>6, <1>7, <1>9, <2>2
  <2>3. CASE i \in (m + 1)..(m + k) /\ j \in (m + 1)..(m + k)
    BY <1>6, <1>9, <1>11, <2>3
  <2> QED
    BY <1>10, <1>11, <2>1, <2>2, <2>3
<1>12. \A i \in 1..(m + k) : full[i].seq \in Nat /\ full[i].seq <= b.total + k
                             /\ (full[i].seq <= b.total => i \in 1..m)
  <2>1. ASSUME NEW i \in 1..m
        PROVE  full[i].seq \in Nat /\ full[i].seq <= b.total + k
    <3>1. full[i].seq \in Nat /\ full[i].seq <= b.total
      BY <1>7
    <3> QED
      BY <1>6, <3>1
  <2>2. ASSUME NEW i \in (m + 1)..(m + k)
        PROVE  /\ full[i].seq \in Nat /\ full[i].seq <= b.total + k
               /\ ~(full[i].seq <= b.total)
    <3>1. full[i].seq = b.total + (i - m) /\ i - m \in 1..k
      BY <1>9
    <3> QED
      BY <1>6, <3>1
  <2> QED
    BY <1>10, <2>1, <2>2
<1>13. PICK r \in Nat : r = m + k - cut
  OBVIOUS
<1>14. /\ Len(c.lines) = r
       /\ \A i \in 1..r : i + cut \in 1..(m + k) /\ c.lines[i] = full[i + cut]
  BY <1>5, <1>13
<1>15. Numbered(c)
  <2>1. c.total = b.total + k
    BY <1>1, <1>2
  <2>2. Rising(c.lines)
    <3> SUFFICES ASSUME NEW i \in 1..r, NEW j \in 1..r, i < j
                 PROVE  c.lines[i].seq < c.lines[j].seq
      BY <1>14 DEF Rising
    <3>1. i + cut < j + cut
      OBVIOUS
    <3> QED
      BY <1>11, <1>14, <3>1
  <2>3. \A i \in 1..r : c.lines[i].seq <= c.total
    BY <1>12, <1>14, <2>1
  <2> QED
    BY <1>14, <2>2, <2>3 DEF Numbered
<1>16. b.total <= c.total
  BY <1>1, <1>2, <1>6
<1>17. ASSUME NEW j \in 1..r, c.lines[j].seq <= b.total
       PROVE  \E i \in 1..m : b.lines[i].seq = c.lines[j].seq
  BY <1>7, <1>12, <1>14, <1>17
<1>18. ASSUME NEW i \in 1..m, NEW j \in 1..r, b.lines[i].seq >= c.lines[j].seq
       PROVE  \E l \in 1..r : Upheld(b.lines[i], c.lines[l])
  <2>1. PICK x \in 1..(m + k) : x = j + cut /\ c.lines[j] = full[x]
    BY <1>14
  <2>2. i \in 1..(m + k) /\ full[i].seq = b.lines[i].seq /\ full[i].seq \in Nat
    BY <1>7
  <2>3. ~(i < x)
    <3>1. i < x => full[i].seq < full[x].seq
      BY <1>11, <2>2
    <3>2. full[x].seq \in Nat /\ full[i].seq >= full[x].seq
      BY <1>12, <1>18, <2>1, <2>2
    <3> QED
      BY <2>2, <3>1, <3>2
  <2>4. PICK l \in 1..r : l + cut = i
    <3>1. i >= j + cut /\ j >= 1 /\ i <= m
      BY <2>1, <2>3
    <3>2. r = m + k - cut
      BY <1>13
    <3>3. i - cut \in 1..r /\ (i - cut) + cut = i
      BY <3>1, <3>2
    <3> QED
      BY <3>3
  <2> QED
    BY <1>7, <1>14, <2>4
<1> QED
  BY <1>1, <1>2, <1>14, <1>15, <1>16, <1>17, <1>18 DEF Descends

\* Whatever is folded into a buffer.
LEMMA FoldDescends ==
    ASSUME NEW owners, NEW b \in Buffers(owners), Numbered(b), NEW p \in Seq(Entries(owners))
    PROVE  LET c == FoldLeft(Appended, b, p) IN
           c \in Buffers(owners) /\ Numbered(c) /\ Descends(b, c)
<1> DEFINE Good == {c \in Buffers(owners) : Numbered(c) /\ Descends(b, c)}
<1>1. b \in Good
  <2>1. b.total \in Nat /\ b.lines \in Seq(Lines(owners))
    BY DEF Buffers
  <2>2. Descends(b, b)
    BY <2>1 DEF Descends, Upheld
  <2> QED
    BY <2>2
<1>2. ASSUME NEW c \in Good, NEW e \in Entries(owners) PROVE Appended(c, e) \in Good
  <2>1. PICK d : d = Appended(c, e)
    OBVIOUS
  <2>2. d \in Buffers(owners) /\ Numbered(d) /\ Descends(c, d)
    BY <1>2, <2>1, AppendedIs, GoneOn
  <2>3. /\ Len(b.lines) \in Nat /\ Len(c.lines) \in Nat /\ Len(d.lines) \in Nat
        /\ b.total \in Nat /\ c.total \in Nat /\ d.total \in Nat
        /\ \A i \in 1..Len(b.lines) : b.lines[i].seq \in Nat /\ b.lines[i].seq <= b.total
        /\ \A i \in 1..Len(c.lines) : c.lines[i].seq \in Nat
        /\ \A i \in 1..Len(d.lines) : d.lines[i].seq \in Nat
    <3>1. ASSUME NEW x \in Buffers(owners)
          PROVE  Len(x.lines) \in Nat /\ x.total \in Nat /\ \A i \in 1..Len(x.lines) : x.lines[i].seq \in Nat
      <4>1. x.lines \in Seq(Lines(owners)) /\ x.total \in Nat
        BY DEF Buffers
      <4> QED
        BY <4>1, LineNumbers
    <3> QED
      BY <1>2, <2>2, <3>1 DEF Numbered
  <2>4. b.total <= c.total /\ c.total <= d.total
    BY <1>2, <2>2 DEF Descends
  <2>5. ASSUME NEW j \in 1..Len(d.lines), d.lines[j].seq <= b.total
        PROVE  \E i \in 1..Len(b.lines) : b.lines[i].seq = d.lines[j].seq
    <3>1. PICK i \in 1..Len(c.lines) : c.lines[i].seq = d.lines[j].seq
      BY <2>2, <2>3, <2>4, <2>5 DEF Descends
    <3> QED
      BY <1>2, <2>5, <3>1 DEF Descends
  <2>6. ASSUME NEW i \in 1..Len(b.lines), NEW j \in 1..Len(d.lines),
               b.lines[i].seq >= d.lines[j].seq
        PROVE  \E k \in 1..Len(d.lines) : Upheld(b.lines[i], d.lines[k])
    <3>1. d.lines[j].seq <= c.total
      <4>1. PICK x \in Nat, y \in Nat : x = b.lines[i].seq /\ y = d.lines[j].seq
        BY <2>3
      <4>2. y <= x /\ x <= b.total
        BY <2>3, <2>6, <4>1
      <4>3. y <= c.total
        BY <2>3, <2>4, <4>2
      <4> QED
        BY <4>1, <4>3
    <3>2. PICK l \in 1..Len(c.lines) : c.lines[l].seq = d.lines[j].seq
      BY <2>2, <3>1 DEF Descends
    <3>3. PICK m \in 1..Len(c.lines) : Upheld(b.lines[i], c.lines[m])
      BY <1>2, <2>6, <3>2 DEF Descends
    <3>4. c.lines[m].seq >= d.lines[j].seq
      BY <2>6, <3>3 DEF Upheld
    <3>5. PICK k \in 1..Len(d.lines) : Upheld(c.lines[m], d.lines[k])
      BY <2>2, <3>4 DEF Descends
    <3> QED
      BY <3>3, <3>5 DEF Upheld
  <2>7. b.total <= d.total
    BY <2>3, <2>4
  <2> QED
    BY <2>1, <2>2, <2>5, <2>6, <2>7 DEF Descends
<1> HIDE DEF Good
<1>3. Folded(b, p) \in Good
  BY <1>1, <1>2, FoldKeeps
<1> QED
  BY <1>3 DEF Good, Folded

-----------------------------------------------------------------------------
(* The window over them. *)

\* How far back a window over what is found can be, and what it shows.
Back(found, back) ==
    LET most == IF Len(found) > Rows THEN Len(found) - Rows ELSE 0
    IN IF back < most THEN back ELSE most

Window(found, back) ==
    LET end == Len(found) - back
        start == IF end > Rows THEN end - Rows + 1 ELSE 1
    IN [i \in 1..(end - start + 1) |-> found[start + i - 1].seq]

\* What is visible is the window over what matches, as far back as was scrolled.
WindowOK ==
    LET found == Matching(buffer.lines, filter) IN
    /\ Numbered(buffer)
    /\ scrollBack \in Int /\ scrollBack = Back(found, scrollBack)
    /\ visible = Window(found, scrollBack)

Olds(lines, mark) == {line \in Range(lines) : line.seq <= mark}

\* A window that is away from both ends shows Rows lines.
LEMMA WindowIs ==
    ASSUME NEW E, NEW found \in Seq(E), NEW back \in Int, back > 0, back <= Len(found) - Rows
    PROVE  LET start == Len(found) - back - Rows + 1 IN
           /\ start \in 1..Len(found) /\ start + Rows - 1 \in 1..Len(found)
           /\ Back(found, back) = back
           /\ Window(found, back) = [i \in 1..Rows |-> found[start + i - 1].seq]
<1>1. Rows \in Nat \ {0}
  BY LogPaneAssumption
<1>2. PICK n \in Nat : n = Len(found)
  OBVIOUS
<1>3. PICK start \in Int : start = n - back - Rows + 1
  <2>1. n - back - Rows + 1 \in Int
    BY <1>1
  <2> QED
    BY <2>1
<1>4. start \in 1..n /\ start + Rows - 1 \in 1..n
  BY <1>1, <1>2, <1>3
<1>5. Back(found, back) = back
  <2>1. n > Rows /\ (back < n - Rows \/ back = n - Rows)
    BY <1>1, <1>2
  <2> QED
    BY <1>2, <2>1 DEF Back
<1> DEFINE end == n - back
           first == IF end > Rows THEN end - Rows + 1 ELSE 1
<1>6. first = start /\ end - first + 1 = Rows
  BY <1>1, <1>2, <1>3
<1>7. Window(found, back) = [i \in 1..(end - first + 1) |-> found[first + i - 1].seq]
  BY <1>2 DEF Window
<1> HIDE DEF first, end
<1>8. Window(found, back) = [i \in 1..Rows |-> found[start + i - 1].seq]
  BY <1>6, <1>7
<1> QED
  BY <1>2, <1>3, <1>4, <1>5, <1>8

\* What was shown has not been trimmed, and what matches now did so before.
Retained(lines, mark, shown) ==
    \A i \in DOMAIN shown : \E line \in Olds(lines, mark) : line.seq = shown[i]

NoneAnew(lines, mark, flt, found) ==
    \A line \in Olds(lines, mark) :
        Matches(line, flt) => line.seq \in {m.seq : m \in Range(found)}

\* A window that is scrolled back over one more line for each that arrives stays.
LEMMA WindowStays ==
    ASSUME NEW owners, NEW b \in Buffers(owners), NEW c \in Buffers(owners), NEW flt,
           NEW back \in Int, back > 0,
           Numbered(b), Numbered(c), Descends(b, c),
           back = Back(Matching(b.lines, flt), back),
           Retained(c.lines, b.total, Window(Matching(b.lines, flt), back)),
           NoneAnew(c.lines, b.total, flt, Matching(b.lines, flt))
    PROVE  LET back2 == back + Arrived(c, b.total, flt) IN
           Window(Matching(c.lines, flt), Back(Matching(c.lines, flt), back2))
              = Window(Matching(b.lines, flt), back)
<1> DEFINE L == Lines(owners)
<1>1. /\ b.lines \in Seq(L) /\ c.lines \in Seq(L) /\ b.total \in Nat
      /\ Rising(b.lines) /\ Rising(c.lines)
  BY DEF Buffers, Numbered
<1>2. PICK old : old = Matching(b.lines, flt)
  OBVIOUS
<1>3. PICK new : new = Matching(c.lines, flt)
  OBVIOUS
<1>4. old \in Seq(L) /\ Finds(b.lines, flt, old) /\ new \in Seq(L) /\ Finds(c.lines, flt, new)
  BY <1>1, <1>2, <1>3, MatchingIs
<1>5. PICK n \in Nat : n = Len(old)
  BY <1>4
<1>6. PICK p \in Nat : p = Len(new)
  BY <1>4
<1>7. Rows \in Nat \ {0}
  BY LogPaneAssumption
<1>8. PICK k \in 0..p : /\ k = Arrived(c, b.total, flt)
                        /\ \A i \in 1..p : new[i].seq > b.total <=> i > p - k
  <2> DEFINE late == Only(new, Later(c.lines, b.total))
  <2>1. LET k == Len(late) IN
        /\ k \in 0..Len(new)
        /\ \A i \in 1..Len(new) : new[i].seq > b.total <=> i > Len(new) - k
    BY <1>1, <1>4, ArrivedIs
  <2>2. Len(late) = Arrived(c, b.total, flt)
    BY <1>3 DEF Arrived, Later
  <2> HIDE DEF late
  <2> QED
    BY <1>6, <2>1, <2>2
<1>9. PICK m \in Nat : m = p - k
  OBVIOUS
<1>10. /\ \A i \in 1..n : old[i].seq \in Nat
       /\ \A i \in 1..p : new[i].seq \in Nat
  BY <1>4, <1>5, <1>6, LineNumbers
<1>11. \A i \in 1..m : i \in 1..p /\ new[i].seq <= b.total
  <2>1. \A i \in 1..m : i \in 1..p /\ ~(new[i].seq > b.total)
    BY <1>8, <1>9
  <2> QED
    BY <1>1, <1>10, <2>1
<1>12. \A i \in 1..p : new[i].seq <= b.total => i \in 1..m
  <2> SUFFICES ASSUME NEW i \in 1..p, new[i].seq <= b.total PROVE ~(i > p - k)
    BY <1>9
  <2>1. ~(new[i].seq > b.total)
    BY <1>1, <1>10
  <2> QED
    BY <1>8, <2>1
<1>13. ASSUME NEW i \in 1..n, NEW y \in 1..Len(c.lines), old[i].seq >= c.lines[y].seq
       PROVE  \E w \in 1..m : new[w].seq = old[i].seq
  <2>1. PICK x \in 1..Len(b.lines) : b.lines[x] = old[i]
    BY <1>4, <1>5 DEF Finds
  <2>2. PICK z \in 1..Len(c.lines) : Upheld(b.lines[x], c.lines[z])
    BY <1>13, <2>1 DEF Descends
  <2>3. Matches(old[i], flt)
    BY <1>4, <1>5 DEF Finds
  <2>4. Matches(c.lines[z], flt) /\ c.lines[z].seq = old[i].seq
    BY <2>1, <2>2, <2>3 DEF Matches, Upheld
  <2>5. PICK w \in 1..p : new[w] = c.lines[z]
    BY <1>4, <1>6, <2>4 DEF Finds
  <2>6. b.lines[x].seq <= b.total
    BY <2>1 DEF Numbered
  <2>7. new[w].seq = old[i].seq /\ new[w].seq <= b.total
    BY <2>1, <2>4, <2>5, <2>6
  <2>8. w \in 1..m
    BY <1>12, <2>7
  <2> QED
    BY <2>7, <2>8
<1> DEFINE f == [i \in 1..m |-> new[i].seq]
           g == [i \in 1..n |-> old[i].seq]
<1>14. /\ \A i \in 1..m : f[i] = new[i].seq
       /\ \A i \in 1..n : g[i] = old[i].seq
  OBVIOUS
<1> HIDE DEF f, g
<1>15. Climbs(f, m) /\ Climbs(g, n)
  <2>1. \A i, j \in 1..n : i < j => old[i].seq < old[j].seq
    BY <1>4, <1>5 DEF Finds, Rising
  <2>2. \A i, j \in 1..p : i < j => new[i].seq < new[j].seq
    BY <1>4, <1>6 DEF Finds, Rising
  <2> QED
    BY <1>10, <1>11, <1>14, <2>1, <2>2 DEF Climbs
<1>16. EndsWith(g, n, f, m)
  <2>1. ASSUME NEW i \in 1..m PROVE \E j \in 1..n : g[j] = f[i]
    <3>1. i \in 1..p /\ new[i].seq <= b.total
      BY <1>11
    <3>2. Matches(new[i], flt) /\ \E y \in DOMAIN c.lines : c.lines[y] = new[i]
      BY <1>1, <1>4, <1>6, <3>1 DEF Finds
    <3>3. new[i] \in Olds(c.lines, b.total)
      BY <3>1, <3>2 DEF Olds, Range
    <3>4. new[i].seq \in {x.seq : x \in Range(old)}
      BY <1>2, <3>2, <3>3 DEF NoneAnew
    <3>5. PICK j \in DOMAIN old : old[j].seq = new[i].seq
      BY <3>4 DEF Range
    <3>6. j \in 1..n
      BY <1>4, <1>5
    <3> QED
      BY <1>14, <3>5, <3>6
  <2>2. ASSUME NEW i \in 1..m, NEW j \in 1..n, g[j] >= f[i] PROVE \E w \in 1..m : f[w] = g[j]
    <3>1. i \in 1..p /\ old[j].seq >= new[i].seq
      BY <1>11, <1>14, <2>2
    <3>2. PICK y \in 1..Len(c.lines) : c.lines[y] = new[i]
      BY <1>4, <1>6, <3>1 DEF Finds
    <3>3. PICK w \in 1..m : new[w].seq = old[j].seq
      BY <1>13, <3>1, <3>2
    <3> QED
      BY <1>14, <3>3
  <2> QED
    BY <2>1, <2>2 DEF EndsWith
<1>17. m <= n /\ \A i \in 1..m : f[i] = g[i + n - m]
  BY <1>15, <1>16, EndsAlign
<1>18. back <= n - Rows
  BY <1>2, <1>5, <1>7 DEF Back
<1>19. PICK start \in 1..n : /\ start = n - back - Rows + 1 /\ start + Rows - 1 \in 1..n
                             /\ Window(old, back) = [i \in 1..Rows |-> old[start + i - 1].seq]
  BY <1>4, <1>5, <1>18, WindowIs
<1>20. start > n - m
  <2>1. 1 \in DOMAIN Window(old, back) /\ Window(old, back)[1] = old[start].seq
    BY <1>7, <1>19
  <2>2. PICK line \in Olds(c.lines, b.total) : line.seq = old[start].seq
    BY <1>2, <2>1 DEF Retained
  <2>3. PICK y \in 1..Len(c.lines) : c.lines[y].seq = old[start].seq
    BY <1>1, <2>2 DEF Olds, Range
  <2>4. PICK w \in 1..m : new[w].seq = old[start].seq
    <3>1. old[start].seq >= c.lines[y].seq
      BY <1>10, <2>3
    <3> QED
      BY <1>13, <3>1
  <2>5. PICK j \in 1..n : j = w + n - m
    BY <1>17
  <2>6. g[j] = g[start]
    BY <1>14, <1>17, <2>4, <2>5
  <2>7. j = start
    BY <1>15, <2>6 DEF Climbs
  <2> QED
    BY <2>5, <2>7
<1>21. back + k \in Int /\ back + k > 0 /\ back + k <= p - Rows
  BY <1>7, <1>9, <1>19, <1>20
<1>22. PICK from \in 1..p : /\ from = p - (back + k) - Rows + 1 /\ Back(new, back + k) = back + k
                            /\ Window(new, back + k) = [i \in 1..Rows |-> new[from + i - 1].seq]
  BY <1>4, <1>6, <1>21, WindowIs
<1>23. ASSUME NEW i \in 1..Rows PROVE new[from + i - 1].seq = old[start + i - 1].seq
  <2>1. PICK j \in 1..m : j = from + i - 1
    BY <1>7, <1>9, <1>19, <1>20, <1>22
  <2>2. j + n - m = start + i - 1 /\ start + i - 1 \in 1..n
    BY <1>7, <1>9, <1>19, <1>22, <2>1
  <2>3. f[j] = g[j + n - m]
    BY <1>17
  <2> QED
    BY <1>14, <2>1, <2>2, <2>3
<1>24. Window(new, Back(new, back + k)) = Window(old, back)
  BY <1>19, <1>22, <1>23
<1> QED
  BY <1>2, <1>3, <1>8, <1>24

LEMMA LengthIs ==
    ASSUME NEW owners, NEW b \in Buffers(owners), Numbered(b), NEW flt
    PROVE  Len(Matching(b.lines, flt)) \in Nat
<1>1. b.lines \in Seq(Lines(owners)) /\ Rising(b.lines)
  BY DEF Buffers, Numbered
<1>2. PICK found \in Seq(Lines(owners)) : found = Matching(b.lines, flt)
  BY <1>1, MatchingIs
<1> QED
  BY <1>2

\* However far back a projection is asked to go, the window is over what matches.
LEMMA Projected ==
    ASSUME NEW owners, NEW b \in Buffers(owners), Numbered(b), NEW flt, NEW back \in Int,
           Project(b, flt, back), buffer' = b, filter' = flt
    PROVE  /\ WindowOK'
           /\ scrollBack' = Back(Matching(b.lines, flt), back)
<1>1. PICK found : found = Matching(b.lines, flt)
  OBVIOUS
<1>2. Len(found) \in Nat /\ Rows \in Nat
  BY <1>1, LengthIs, LogPaneAssumption
<1>3. scrollBack' = Back(found, back)
  BY <1>1 DEF Project, Back
<1>4. visible' = Window(found, scrollBack')
  BY <1>1 DEF Project, Window
<1>5. scrollBack' \in Int /\ scrollBack' = Back(found, scrollBack')
  BY <1>2, <1>3 DEF Back
<1> QED
  BY <1>1, <1>3, <1>4, <1>5 DEF WindowOK

LEMMA ScrolledTo ==
    ASSUME PaneOK, WindowOK, NEW back \in Int, ScrollTo(back)
    PROVE  WindowOK'
<1>1. buffer \in Buffers(Own) /\ Numbered(buffer)
  BY DEF PaneOK, ShownOK, WindowOK
<1> QED
  BY <1>1, Projected DEF ScrollTo

LEMMA JumpIs ==
    ASSUME PaneOK, WindowOK, NEW row \in 0..(Rows - 1)
    PROVE  JumpTo(row) \in Int
<1>1. buffer \in Buffers(Own) /\ Numbered(buffer)
  BY DEF PaneOK, ShownOK, WindowOK
<1>2. PICK n \in Nat : n = Len(Matching(buffer.lines, filter))
  BY <1>1, LengthIs
<1>3. Rows \in Nat
  BY LogPaneAssumption
<1>4. CASE Rows <= 1 \/ n <= Rows
  BY <1>2, <1>4 DEF JumpTo
<1>5. CASE ~(Rows <= 1 \/ n <= Rows)
  <2>1. PICK above \in Int : above = n - Rows
    BY <1>3
  <2>2. PICK half \in Int : half = 2 * row * above + Rows - 1
    <3>1. 2 * row * above + Rows - 1 \in Int
      BY <1>3
    <3> QED
      BY <3>1
  <2>3. PICK down \in Int : down = half \div (2 * (Rows - 1))
    <3>1. PICK d \in Nat \ {0} : d = 2 * (Rows - 1)
      BY <1>3, <1>5
    <3>2. half \div d \in Int
      OBVIOUS
    <3> QED
      BY <3>1, <3>2
  <2>4. JumpTo(row) = above - down
    BY <1>2, <1>5, <2>1, <2>2, <2>3 DEF JumpTo
  <2> QED
    BY <2>4
<1> QED
  BY <1>4, <1>5

LEMMA CoalesceStep ==
    ASSUME PaneOK, WindowOK, Coalesce
    PROVE  /\ WindowOK' /\ buffer' \in Buffers(Own) /\ Numbered(buffer')
           /\ Descends(buffer, buffer')
           /\ scrollBack' = Back(Matching(buffer'.lines, filter),
                                 IF scrollBack = 0 THEN 0
                                 ELSE scrollBack + Arrived(buffer', buffer.total, filter))
           /\ visible' = Window(Matching(buffer'.lines, filter), scrollBack')
<1>1. /\ buffer \in Buffers(Own) /\ Numbered(buffer) /\ pending \in Seq(Entries(Own))
      /\ scrollBack \in Int
  BY DEF PaneOK, ShownOK, WindowOK
<1>2. PICK c : c = buffer'
  OBVIOUS
<1>3. c \in Buffers(Own) /\ Numbered(c) /\ Descends(buffer, c)
  BY <1>1, <1>2, FoldDescends DEF Coalesce
<1> DEFINE back == IF scrollBack = 0 THEN 0 ELSE scrollBack + Arrived(c, buffer.total, filter)
<1>4. Arrived(c, buffer.total, filter) \in Int
  <2>1. c.lines \in Seq(Lines(Own)) /\ Rising(c.lines)
    BY <1>3 DEF Buffers, Numbered
  <2>2. PICK found \in Seq(Lines(Own)) : found = Matching(c.lines, filter)
    BY <2>1, MatchingIs
  <2>3. Only(found, Later(c.lines, buffer.total)) \in Seq(Lines(Own))
    BY OnlyMembers
  <2>4. Arrived(c, buffer.total, filter) = Len(Only(found, Later(c.lines, buffer.total)))
    BY <2>2 DEF Arrived, Later
  <2> QED
    BY <2>3, <2>4
<1>5. back \in Int
  BY <1>1, <1>4
<1>6. Project(c, filter, back) /\ filter' = filter
  BY <1>2 DEF Coalesce
<1> HIDE DEF back
<1>7. WindowOK' /\ scrollBack' = Back(Matching(c.lines, filter), back)
  BY <1>2, <1>3, <1>5, <1>6, Projected
<1>8. visible' = Window(Matching(c.lines, filter), scrollBack')
  BY <1>6 DEF Project, Window
<1> QED
  BY <1>2, <1>3, <1>7, <1>8 DEF back

LEMMA WindowKept ==
    ASSUME WindowOK, UNCHANGED <<buffer, filter, scrollBack, visible>>
    PROVE  WindowOK'
BY DEF WindowOK

LEMMA OthersKeepBuffer ==
    ASSUME NEW texts, StreamNext(texts), ~ShowSelected, ~Coalesce
    PROVE  UNCHANGED <<buffer, filter, scrollBack, visible>>
BY DEF StreamNext, PollStatus, Answered, Granted, Subscribed, Failed, Data, textVars

LEMMA EmptyWindow ==
    ASSUME NEW flt
    PROVE  LET found == Matching(EmptyBuffer.lines, flt) IN
           Numbered(EmptyBuffer) /\ 0 = Back(found, 0) /\ <<>> = Window(found, 0)
<1>1. EmptyBuffer.lines = <<>>
  BY DEF EmptyBuffer
<1>2. PICK found : found = Matching(<<>>, flt)
  OBVIOUS
<1>3. Len(found) = 0
  <2>1. <<>> \in Seq(Lines({})) /\ Rising(<<>>)
    BY DEF Rising
  <2>2. found \in Seq(Lines({})) /\ Finds(<<>>, flt, found)
    BY <1>2, <2>1, MatchingIs
  <2>3. Len(found) \in Nat /\ (Len(found) # 0 => 1 \in 1..Len(found))
    BY <2>2
  <2> QED
    BY <2>2, <2>3 DEF Finds
<1>4. Back(found, 0) = 0 /\ Window(found, 0) = <<>>
  <2>1. Rows \in Nat \ {0}
    BY LogPaneAssumption
  <2>2. 0 - 0 = 0 /\ ~(0 > Rows) /\ 1..(0 - 1 + 1) = {}
    BY <2>1
  <2> QED
    BY <1>3, <2>2 DEF Back, Window
<1>5. Numbered(EmptyBuffer)
  BY <1>1 DEF Numbered, Rising
<1> QED
  BY <1>1, <1>2, <1>4, <1>5

LEMMA WindowStep ==
    ASSUME PaneOK, WindowOK, [Next]_vars
    PROVE  WindowOK'
<1>1. CASE UNCHANGED paneVars
  BY <1>1, WindowKept DEF paneVars, textVars
<1>2. ASSUME NEW texts, StreamNext(texts) PROVE WindowOK'
  <2>1. CASE ShowSelected
    BY <2>1, EmptyWindow DEF ShowSelected, WindowOK
  <2>2. CASE Coalesce
    BY <2>2, CoalesceStep
  <2> QED
    BY <1>2, <2>1, <2>2, OthersKeepBuffer, WindowKept
<1>3. ASSUME ScrollNext PROVE WindowOK'
  <2>1. scrollBack \in Int /\ buffer.total \in Int /\ Rows \in Nat
    <3>1. buffer \in Buffers(Own) /\ scrollBack \in Int
      BY DEF WindowOK, PaneOK, ShownOK
    <3>2. buffer.total \in Nat
      BY <3>1 DEF Buffers
    <3>3. Rows \in Nat
      BY LogPaneAssumption
    <3> QED
      BY <3>1, <3>2, <3>3
  <2>2. CASE Scroll
    <3>1. ASSUME NEW rows \in 1..Rows, ScrollTo(scrollBack + rows) PROVE WindowOK'
      <4>1. scrollBack + rows \in Int
        BY <2>1
      <4> QED
        BY <3>1, <4>1, ScrolledTo
    <3>2. ASSUME NEW rows \in 1..Rows,
                 ScrollTo(IF scrollBack > rows THEN scrollBack - rows ELSE 0)
          PROVE  WindowOK'
      <4>1. (IF scrollBack > rows THEN scrollBack - rows ELSE 0) \in Int
        BY <2>1
      <4> QED
        BY <3>2, <4>1, ScrolledTo
    <3>3. CASE ScrollTo(0) \/ ScrollTo(buffer.total)
      BY <2>1, <3>3, ScrolledTo
    <3> QED
      BY <2>2, <3>1, <3>2, <3>3 DEF Scroll
  <2>3. CASE Refilter
    <3>1. ASSUME NEW flt, SetFilter(flt) PROVE WindowOK'
      <4>1. buffer \in Buffers(Own) /\ Numbered(buffer)
        BY DEF PaneOK, ShownOK, WindowOK
      <4> QED
        BY <2>1, <3>1, <4>1, Projected DEF SetFilter
    <3> QED
      BY <2>3, <3>1 DEF Refilter
  <2>4. CASE \E row \in 0..(Rows - 1) : ScrollTo(JumpTo(row))
    BY <2>4, JumpIs, ScrolledTo
  <2> QED
    BY <1>3, <2>2, <2>3, <2>4 DEF ScrollNext
<1> QED
  BY <1>1, <1>2, <1>3 DEF Next, vars

LEMMA WindowInit ==
    ASSUME Init
    PROVE  WindowOK
<1>1. buffer = EmptyBuffer /\ scrollBack = 0 /\ visible = <<>>
  BY DEF Init, PaneInit
<1> QED
  BY <1>1, EmptyWindow DEF WindowOK

\* A pane that is scrolled away from the end shows the same lines after new output as
\* before (LogBuffer, countSince, project, window), whatever arrives at once, is trimmed
\* or filtered: unless they were trimmed, or an older line has only now got the text
\* that is searched for.
THEOREM WindowHoldsStill == Spec => HoldsStill
<1> DEFINE Still ==
        LET olds == {line \in Range(buffer'.lines) : line.seq <= buffer.total} IN
        /\ views' = views /\ buffer' # buffer /\ scrollBack > 0
        /\ \A i \in DOMAIN visible : \E line \in olds : line.seq = visible[i]
        /\ \A line \in olds : Matches(line, filter) => line.seq \in
              {m.seq : m \in Range(Matching(buffer.lines, filter))}
        => visible' = visible
<1>1. Init => WindowOK
  BY WindowInit
<1>2. PaneOK /\ WindowOK /\ [Next]_vars => WindowOK'
  BY WindowStep
<1>3. PaneOK /\ WindowOK /\ [Next]_vars => [Still]_<<paneVars, sidebarVars>>
  <2> SUFFICES ASSUME PaneOK, WindowOK, [Next]_vars, views' = views, buffer' # buffer,
                      scrollBack > 0,
                      Retained(buffer'.lines, buffer.total, visible),
                      NoneAnew(buffer'.lines, buffer.total, filter,
                               Matching(buffer.lines, filter))
               PROVE  visible' = visible
    BY DEF Olds, Retained, NoneAnew
  <2>1. Coalesce
    <3>1. ~UNCHANGED paneVars
      BY DEF paneVars, textVars
    <3>2. ~ScrollNext
      <4>1. ASSUME NEW back, ScrollTo(back) PROVE FALSE
        BY <4>1 DEF ScrollTo
      <4>2. ASSUME NEW flt, SetFilter(flt) PROVE FALSE
        BY <4>2 DEF SetFilter
      <4> QED
        BY <4>1, <4>2 DEF ScrollNext, Scroll, Refilter
    <3>3. ~ShowSelected
      BY ShowStep DEF PaneOK, Current
    <3>4. ASSUME NEW texts, StreamNext(texts) PROVE Coalesce
      BY <3>3, <3>4, OthersKeepBuffer
    <3> QED
      BY <3>1, <3>2, <3>4 DEF Next, vars
  <2>2. PICK c : c = buffer'
    OBVIOUS
  <2>3. PICK back \in Int : back = scrollBack
    BY DEF WindowOK
  <2>4. /\ buffer \in Buffers(Own) /\ Numbered(buffer)
        /\ back = Back(Matching(buffer.lines, filter), back)
        /\ visible = Window(Matching(buffer.lines, filter), back)
    BY <2>3 DEF PaneOK, ShownOK, WindowOK
  <2>5. /\ c \in Buffers(Own) /\ Numbered(c) /\ Descends(buffer, c)
        /\ visible' = Window(Matching(c.lines, filter), Back(Matching(c.lines, filter),
                             back + Arrived(c, buffer.total, filter)))
    BY <2>1, <2>2, <2>3, CoalesceStep
  <2>6. Window(Matching(c.lines, filter), Back(Matching(c.lines, filter),
                   back + Arrived(c, buffer.total, filter)))
           = Window(Matching(buffer.lines, filter), back)
    BY <2>2, <2>3, <2>4, <2>5, WindowStays
  <2> QED
    BY <2>4, <2>5, <2>6
<1> QED
  BY <1>1, <1>2, <1>3, PaneIsOK, PTL DEF Spec, HoldsStill

=============================================================================
