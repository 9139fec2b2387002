--------------------------- MODULE TargetsProofs ---------------------------
(***************************************************************************)
(* Slots, marks and edits, for any repositories, checkouts, whatever git      *)
(* lists of them, playbooks, requests and numbers of edits, writes, restarts *)
(* and operations under way.                                                *)
(*                                                                          *)
(* The state file, the daemon's memory of repositories, the queues and the  *)
(* runs are written at different moments; IInv says what each of them still *)
(* knows of the others between two such moments.                            *)
(***************************************************************************)
EXTENDS Targets, FiniteSetTheorems, SequenceTheorems, TLAPS

Slugs == Repos \X ({"main"} \cup Branches \cup Trees) \X Playbooks
MaybeDefined == Definitions \cup {NoDefinition}
Configs == [repos : Registrations, env : TargetEnvs \cup {<<>>}]

TargetRecords ==
    [slug : Slugs, repo : Repos, tree : Trees, playbook : Playbooks, autostart : BOOLEAN]
Starts == [op : {"start"}, repo : Repos, tree : Trees, playbook : Playbooks, def : Definitions,
           slot : Nat, boot : BOOLEAN, lost : BOOLEAN, across : BOOLEAN]
Others == [op : {"stop", "remove"}, repo : Repos, tree : Trees, boot : BOOLEAN]
Operations == Starts \cup Others
Waits == {q \in Seq(Operations) : Len(q) >= 1}
RunRecords == [repo : Repos, tree : Trees, playbook : Playbooks, def : Definitions, slot : Nat,
               lost : BOOLEAN, across : BOOLEAN, stale : BOOLEAN]
Doings == {Idle} \cup [op : {"add"}, target : TargetRecords] \cup [op : {"release"}, tree : Trees]
Written == {Nothing} \cup [kind : {"env"}, env : TargetEnvs]
    \cup [kind : {"playbook"}, repo : Repos, playbook : Playbooks, def : Definitions]

\* f is a function from some of S to T.
Partial(f, S, T) == DOMAIN f \subseteq S /\ f \in [DOMAIN f -> T]

FilesOK ==
    /\ committed \in [Trees -> [Playbooks -> MaybeDefined]]
    /\ file \in Files /\ config \in Configs
    /\ present \subseteq Trees /\ asked \subseteq Repos \X Trees \X Playbooks
    /\ branch \in [Linked -> Branches \cup {Detached}]

StateOK ==
    /\ targets \subseteq TargetRecords
    /\ Partial(slots, Trees, Nat)
    /\ Partial(repoIndex, Trees, Repos)
    /\ boot \subseteq TargetRecords
    /\ doing \in Doings
    /\ strayed \subseteq Trees /\ split \subseteq Trees
    /\ edited \in BOOLEAN /\ unread \in BOOLEAN /\ mine \in Written

WorkOK ==
    /\ Partial(queue, Slugs, Waits)
    /\ Partial(runs, Slugs, RunRecords)

TypeOK == FilesOK /\ StateOK /\ WorkOK

-----------------------------------------------------------------------------

\* No two targets have a slug, or a playbook of a checkout, in common.
TargetsDiffer == \A x, y \in targets :
    x.slug = y.slug \/ (x.tree = y.tree /\ x.playbook = y.playbook) => x = y

\* The target that is about to be written has its slot, its repository is the one
\* in the index, and it is still new.
AddIsNew ==
    doing.op = "add" =>
        /\ doing.target.tree \in DOMAIN slots \cap DOMAIN repoIndex
        /\ repoIndex[doing.target.tree] = doing.target.repo
        /\ \A x \in targets :
              /\ x.slug # doing.target.slug
              /\ x.tree # doing.target.tree \/ x.playbook # doing.target.playbook

\* The slots that count.
Sound == DOMAIN slots \ (strayed \cup split)

\* Slot 0 is for main checkouts.
ZeroIsMain == \A t \in Sound : slots[t] = 0 => \A r \in Paths(t) : t \in MainFor(r)

\* There is one path by which the repository of a slot is known.
Agree == \A t \in Sound : \A q, r \in Paths(t) : q = r

Apart == \A t, u \in Sound :
             t # u /\ Paths(t) \cap Paths(u) # {} /\ slots[t] = slots[u] => slots[t] = 0

\* The repository of a slot can be found, but for the slot about to be released.
SlotsKnown == \A t \in DOMAIN slots \ strayed :
    Paths(t) # {} \/ (doing.op = "release" /\ doing.tree = t)

\* A target has its slot on record.
TargetsHaveSlots == \A x \in targets : x.tree \in DOMAIN slots

SlotsOK == ZeroIsMain /\ Agree /\ Apart /\ SlotsKnown /\ TargetsHaveSlots

\* The target a start or a run was made for is there.
Configured(s, o) == \E x \in targets :
    x.slug = s /\ x.repo = o.repo /\ x.tree = o.tree /\ x.playbook = o.playbook

Outdated(o) == o.def # Resolved(o.repo, o.tree, o.playbook)

\* A start that is not lost was given the slot on record, and unless something
\* was edited since, what is on disk.
OperationOK(s, o) ==
    /\ o.op = "start" /\ ~o.lost => Configured(s, o) /\ o.slot = slots[o.tree]
    /\ o.op = "start" /\ ~edited => o.lost \/ o.across \/ ~Outdated(o)

RunOK(s, o) ==
    /\ ~o.lost => Configured(s, o) /\ o.slot = slots[o.tree]
    /\ ~edited => o.lost \/ o.across \/ o.stale \/ ~Outdated(o)

QueueOK == \A s \in DOMAIN queue : \A i \in 1..Len(queue[s]) : OperationOK(s, queue[s][i])
RunsOK == \A s \in DOMAIN runs : RunOK(s, runs[s])

IInv == TypeOK /\ TargetsDiffer /\ AddIsNew /\ SlotsOK /\ QueueOK /\ RunsOK
-----------------------------------------------------------------------------
(* Functions. *)

LEMMA PutPartial ==
    ASSUME NEW f, NEW S, NEW T, Partial(f, S, T), NEW k \in S, NEW v \in T
    PROVE  Partial(Put(f, k, v), S, T)
BY DEF Partial, Put

LEMMA DropPartial ==
    ASSUME NEW f, NEW S, NEW T, Partial(f, S, T), NEW k
    PROVE  Partial(Drop(f, k), S, T)
BY DEF Partial, Drop

\* A file maps some repositories to their playbooks.
LEMMA RegistrationsAre ==
    ASSUME NEW f
    PROVE  f \in Registrations <=> Partial(f, Repos, [Playbooks -> MaybeDefined])
BY DEF Registrations, Partial, MaybeDefined

LEMMA EmptyPartial == \A S, T : Partial(<<>>, S, T)
BY DEF Partial

-----------------------------------------------------------------------------
(* The lowest free slot. *)

LEMMA LeastOf ==
    ASSUME NEW T \in SUBSET Nat, T # {}
    PROVE  \E x \in T : \A y \in T : x <= y
<1>1. IsWellFoundedOn({p \in Nat \X Nat : p[1] < p[2]}, Nat)
  BY NatLessThanWellFounded, Zenon DEF OpToRel
<1>2. PICK x \in T : \A y \in T : <<y, x>> \notin {p \in Nat \X Nat : p[1] < p[2]}
  BY <1>1, WFMin
<1>3. ASSUME NEW y \in T PROVE ~(y < x)
  <2>1. <<y, x>> \in Nat \X Nat /\ <<y, x>>[1] = y /\ <<y, x>>[2] = x
    OBVIOUS
  <2> QED
    BY <1>2, <2>1, Zenon
<1> QED
  BY <1>3

\* There are fewer taken slots than candidates, so one of these is free.
LEMMA SomethingIsFree ==
    ASSUME StateOK, NEW index, NEW r
    PROVE  \E n \in 1..(Cardinality(Trees) + 1) : n \notin Taken(index, r)
<1> DEFINE N == Cardinality(Trees) + 1
           holder == [n \in 1..N |-> CHOOSE t \in Trees : t \in DOMAIN slots /\ slots[t] = n]
<1>1. IsFiniteSet(Trees) /\ Cardinality(Trees) \in Nat
  BY TargetsAssumption, FS_CardinalityType
<1>2. IsFiniteSet(1..N) /\ Cardinality(1..N) = N
  BY <1>1, FS_Interval
<1> SUFFICES ASSUME 1..N \subseteq Taken(index, r) PROVE FALSE
  OBVIOUS
<1>3. ASSUME NEW n \in 1..N PROVE holder[n] \in Trees /\ slots[holder[n]] = n
  <2>1. \E t \in Trees : t \in DOMAIN slots /\ slots[t] = n
    BY <1>3 DEF Taken, StateOK, Partial
  <2> QED
    BY <2>1
<1>4. holder \in [1..N -> Trees]
  BY <1>3
<1>5. Cardinality(Trees) < Cardinality(1..N)
  BY <1>1, <1>2
<1>6. PICK x, y \in 1..N : x # y /\ holder[x] = holder[y]
  <2> HIDE DEF holder, N
  <2> QED
    BY <1>1, <1>2, <1>4, <1>5, FS_PigeonHole
<1> QED
  BY <1>3, <1>6

LEMMA LowestIsFree ==
    ASSUME StateOK, NEW index, NEW r
    PROVE  LowestFree(index, r) \in Nat \ {0} /\ LowestFree(index, r) \notin Taken(index, r)
<1> DEFINE Candidates == {n \in 1..(Cardinality(Trees) + 1) : n \notin Taken(index, r)}
<1>1. Cardinality(Trees) \in Nat
  BY TargetsAssumption, FS_CardinalityType
<1>2. PICK n \in Candidates : \A m \in Candidates : n <= m
  <2>1. Candidates \in SUBSET Nat /\ Candidates # {}
    BY SomethingIsFree
  <2> HIDE DEF Candidates
  <2> QED
    BY <2>1, LeastOf
<1>3. /\ n \in 1..(Cardinality(Trees) + 1) /\ n \notin Taken(index, r)
      /\ 1..(n - 1) \subseteq Taken(index, r)
  BY <1>1, <1>2
<1> QED
  BY <1>3 DEF LowestFree
-----------------------------------------------------------------------------
(* A slot is allocated. *)

\* No slot that is on record is forgotten.
SlotsGrow == \A u \in DOMAIN slots : u \in DOMAIN slots' /\ slots'[u] = slots[u]

\* What is known of a checkout's repository.
LEMMA PathsAre ==
    ASSUME NEW t
    PROVE  \A r : r \in Paths(t) <=> \/ t \in DOMAIN repoIndex /\ r = repoIndex[t]
                                     \/ \E x \in targets : x.tree = t /\ r = x.repo
BY DEF Paths

LEMMA PathsAreThen ==
    ASSUME NEW t
    PROVE  \A r : r \in Paths(t)' <=> \/ t \in DOMAIN repoIndex' /\ r = repoIndex'[t]
                                      \/ \E x \in targets' : x.tree = t /\ r = x.repo
BY DEF Paths

\* Slots that nothing new is known of stay apart.
LEMMA LeftApart ==
    ASSUME ZeroIsMain, Agree, Apart,
           \A t \in Sound' : t \in Sound /\ slots'[t] = slots[t] /\ Paths(t)' \subseteq Paths(t)
    PROVE  ZeroIsMain' /\ Agree' /\ Apart'
<1>1. ZeroIsMain'
  BY DEF ZeroIsMain
<1>2. Agree'
  BY DEF Agree
<1>3. Apart'
  BY DEF Apart
<1> QED
  BY <1>1, <1>2, <1>3

LEMMA UntouchedSlots ==
    ASSUME SlotsOK, UNCHANGED <<targets, slots, repoIndex, doing, strayed, split>>
    PROVE  SlotsOK'
<1>1. Sound' = Sound /\ \A t : Paths(t)' = Paths(t)
  BY DEF Sound, Paths
<1>2. ZeroIsMain' /\ Agree' /\ Apart'
  BY <1>1, LeftApart DEF SlotsOK
<1> QED
  BY <1>1, <1>2 DEF SlotsOK, SlotsKnown, TargetsHaveSlots

\* A new slot, and what is recovered for it.
LEMMA NewSlot ==
    ASSUME StateOK, SlotsOK, doing = Idle, NEW r \in Repos, NEW t \in Trees \ DOMAIN slots,
           AllocateSlot(r, t), UNCHANGED <<targets, strayed>>, Sound' \subseteq Sound \cup {t}
    PROVE  /\ SlotsGrow /\ Partial(slots', Trees, Nat) /\ Partial(repoIndex', Trees, Repos)
           /\ SlotsOK' /\ t \in DOMAIN slots' \cap DOMAIN repoIndex' /\ repoIndex'[t] = r
<1>1. PICK index : /\ Partial(index, Trees, Repos)
                   /\ repoIndex' = Put(index, t, r)
                   /\ \A u \in DOMAIN repoIndex : u \in DOMAIN index /\ index[u] = repoIndex[u]
                   /\ \A u \in DOMAIN index \ DOMAIN repoIndex :
                         \E x \in targets : x.tree = u /\ x.repo = index[u]
                   /\ ~IsMain(r, t) => \A u \in DOMAIN slots : HasTarget(u) => u \in DOMAIN index
  <2>1. CASE IsMain(r, t)
    BY <2>1 DEF AllocateSlot, StateOK
  <2>2. CASE ~IsMain(r, t)
    <3>1. PICK found \in Recovered : repoIndex' = Put(Layer(repoIndex, found), t, r)
      BY <2>2 DEF AllocateSlot
    <3>2. /\ DOMAIN found = Unindexed /\ found \in [Unindexed -> Repos]
          /\ \A u \in Unindexed : \E x \in targets : x.tree = u /\ x.repo = found[u]
      BY <3>1 DEF Recovered
    <3>3. PICK index : index = Layer(repoIndex, found)
      OBVIOUS
    <3>4. DOMAIN repoIndex \cap Unindexed = {} /\ Unindexed \subseteq Trees
      BY DEF Unindexed, StateOK, Partial
    <3>5. /\ DOMAIN index = DOMAIN repoIndex \cup Unindexed
          /\ \A u \in DOMAIN repoIndex : index[u] = repoIndex[u]
          /\ \A u \in Unindexed : index[u] = found[u]
      BY <3>2, <3>3, <3>4 DEF Layer
    <3>6. index = [u \in DOMAIN index |-> index[u]]
      BY <3>3 DEF Layer
    <3>7. Partial(index, Trees, Repos)
      BY <3>2, <3>4, <3>5, <3>6 DEF StateOK, Partial
    <3>8. \A u \in DOMAIN slots : HasTarget(u) => u \in DOMAIN index
      BY <3>5 DEF Unindexed
    <3> QED
      BY <3>1, <3>2, <3>3, <3>5, <3>7, <3>8
  <2> QED
    BY <2>1, <2>2
<1>2. /\ Partial(repoIndex', Trees, Repos) /\ t \in DOMAIN repoIndex' /\ repoIndex'[t] = r
      /\ \A u \in DOMAIN index \ {t} : u \in DOMAIN repoIndex' /\ repoIndex'[u] = index[u]
      /\ DOMAIN repoIndex' = DOMAIN index \cup {t}
  <2>1. Partial(Put(index, t, r), Trees, Repos)
    BY <1>1, PutPartial
  <2> QED
    BY <1>1, <2>1 DEF Put
<1>3. PICK n : n = IF IsMain(r, t) THEN 0 ELSE LowestFree(repoIndex', r)
  OBVIOUS
<1>4. slots' = Put(slots, t, n)
  BY <1>3 DEF AllocateSlot
<1>5. /\ n \in Nat /\ (n = 0 => IsMain(r, t))
      /\ n # 0 => ~IsMain(r, t) /\ n \notin Taken(repoIndex', r)
  BY <1>3, LowestIsFree
<1>6. /\ DOMAIN slots' = DOMAIN slots \cup {t} /\ slots'[t] = n
      /\ \A u \in DOMAIN slots : u # t /\ slots'[u] = slots[u]
  BY <1>4 DEF Put
<1>7. Partial(slots', Trees, Nat)
  BY <1>4, <1>5, PutPartial DEF StateOK
<1>8. \A x \in targets : x.tree # t
  BY DEF SlotsOK, TargetsHaveSlots
<1>9. \A q : q \in Paths(t)' <=> q = r
  BY <1>2, <1>8, PathsAreThen
<1>10. ASSUME NEW u \in DOMAIN slots PROVE Paths(u)' \subseteq Paths(u)
  <2>1. ASSUME NEW q \in Paths(u)' PROVE q \in Paths(u)
    <3>1. CASE \E x \in targets : x.tree = u /\ q = x.repo
      BY <3>1, PathsAre
    <3>2. CASE u \in DOMAIN repoIndex' /\ q = repoIndex'[u]
      <4>1. u \in DOMAIN index /\ q = index[u]
        BY <1>2, <1>6, <3>2
      <4> QED
        BY <1>1, <4>1, PathsAre
    <3> QED
      BY <2>1, <3>1, <3>2, PathsAreThen
  <2> QED
    BY <2>1
<1>11. ASSUME NEW u \in DOMAIN slots, u \notin strayed PROVE Paths(u)' # {}
  <2>1. PICK q : q \in Paths(u)
    BY <1>11 DEF SlotsOK, SlotsKnown, Idle
  <2>2. CASE \E x \in targets : x.tree = u
    BY <2>2, PathsAreThen
  <2>3. CASE u \in DOMAIN repoIndex
    <3>1. u \in DOMAIN repoIndex'
      BY <1>1, <1>2, <1>6, <2>3
    <3> QED
      BY <3>1, PathsAreThen
  <2> QED
    BY <2>1, <2>2, <2>3, PathsAre
<1>12. ASSUME NEW u \in Sound' \ {t} PROVE u \in Sound /\ u \in DOMAIN slots /\ u \notin strayed
  BY <1>12 DEF Sound
<1>13. ZeroIsMain'
  <2>1. n = 0 => t \in MainFor(r)
    BY <1>5 DEF IsMain, Listed, MainFor
  <2>2. ASSUME NEW u \in Sound', slots'[u] = 0, NEW q \in Paths(u)' PROVE u \in MainFor(q)
    <3>1. CASE u = t
      BY <1>6, <1>9, <2>1, <2>2, <3>1
    <3>2. CASE u # t
      BY <1>6, <1>10, <1>12, <2>2, <3>2 DEF SlotsOK, ZeroIsMain
    <3> QED
      BY <3>1, <3>2
  <2> QED
    BY <2>2 DEF ZeroIsMain, MainFor
<1>14. Agree'
  <2>1. ASSUME NEW u \in Sound', NEW p \in Paths(u)', NEW q \in Paths(u)' PROVE p = q
    <3>1. CASE u = t
      BY <1>9, <2>1, <3>1
    <3>2. CASE u # t
      BY <1>10, <1>12, <2>1, <3>2 DEF SlotsOK, Agree
    <3> QED
      BY <3>1, <3>2
  <2> QED
    BY <2>1 DEF Agree
<1>15. ASSUME NEW u \in Sound' \ {t}, r \in Paths(u)', slots[u] = n PROVE n = 0
  <2>1. u \in Sound /\ u \in DOMAIN slots /\ u \notin strayed
    BY <1>12, <1>15
  <2>2. SUFFICES ASSUME n # 0 PROVE FALSE
    OBVIOUS
  <2>3. u \in DOMAIN index
    <3>1. HasTarget(u) => u \in DOMAIN index
      BY <1>1, <1>5, <2>1, <2>2
    <3>2. u \in DOMAIN repoIndex \/ HasTarget(u)
      BY <2>1, PathsAre DEF SlotsOK, SlotsKnown, Idle, HasTarget
    <3> QED
      BY <1>1, <3>1, <3>2
  <2>4. u \in DOMAIN repoIndex' /\ repoIndex'[u] \in Paths(u)'
    BY <1>2, <1>15, <2>3, PathsAreThen
  <2>5. repoIndex'[u] = r
    BY <1>14, <1>15, <2>4 DEF Agree
  <2>6. slots[u] \in Taken(repoIndex', r)
    BY <2>1, <2>4, <2>5 DEF Taken
  <2> QED
    BY <1>5, <1>15, <2>2, <2>6
<1>16. Apart'
  <2>1. ASSUME NEW u \in Sound', NEW v \in Sound', u # v, NEW q \in Paths(u)' \cap Paths(v)',
               slots'[u] = slots'[v]
        PROVE  slots'[u] = 0
    <3>1. CASE u = t
      BY <1>6, <1>9, <1>12, <1>15, <2>1, <3>1
    <3>2. CASE v = t
      BY <1>6, <1>9, <1>12, <1>15, <2>1, <3>2
    <3>3. CASE u # t /\ v # t
      BY <1>6, <1>10, <1>12, <2>1, <3>3 DEF SlotsOK, Apart
    <3> QED
      BY <3>1, <3>2, <3>3
  <2> QED
    BY <2>1 DEF Apart
<1>17. SlotsKnown' /\ TargetsHaveSlots'
  <2>1. \A u \in DOMAIN slots' \ strayed' : Paths(u)' # {}
    BY <1>6, <1>9, <1>11
  <2> QED
    BY <1>6, <2>1 DEF SlotsKnown, TargetsHaveSlots, SlotsOK
<1> QED
  BY <1>2, <1>6, <1>7, <1>13, <1>14, <1>16, <1>17 DEF SlotsOK, SlotsGrow

\* A checkout that keeps its slot, and is asked for by whatever path.
LEMMA KeptSlot ==
    ASSUME StateOK, SlotsOK, doing = Idle, NEW r \in Repos, NEW t \in DOMAIN slots,
           AllocateSlot(r, t), UNCHANGED <<targets, strayed>>,
           split' = IF t \in DOMAIN slots /\ ~(Paths(t) \subseteq {r})
                    THEN split \cup {t} ELSE split
    PROVE  /\ slots' = slots /\ Partial(repoIndex', Trees, Repos) /\ SlotsOK'
           /\ t \in DOMAIN repoIndex' /\ repoIndex'[t] = r
<1>1. slots' = slots /\ repoIndex' = Put(repoIndex, t, r) /\ t \in Trees
  BY DEF AllocateSlot, StateOK, Partial
<1>2. /\ Partial(repoIndex', Trees, Repos) /\ t \in DOMAIN repoIndex' /\ repoIndex'[t] = r
      /\ DOMAIN repoIndex' = DOMAIN repoIndex \cup {t}
      /\ \A u \in DOMAIN repoIndex \ {t} : repoIndex'[u] = repoIndex[u]
  <2>1. Partial(Put(repoIndex, t, r), Trees, Repos)
    BY <1>1, PutPartial DEF StateOK
  <2> QED
    BY <1>1, <2>1 DEF Put
<1>3. \A u : u # t => Paths(u)' \subseteq Paths(u) /\ Paths(u) \subseteq Paths(u)'
  BY <1>2, PathsAre, PathsAreThen
<1>4. r \in Paths(t)'
  BY <1>2, PathsAreThen
<1>5. ASSUME NEW u \in Sound'
      PROVE  u \in Sound /\ slots'[u] = slots[u] /\ Paths(u)' \subseteq Paths(u)
  <2>1. u \in Sound
    BY <1>1, <1>5 DEF Sound
  <2>2. CASE u # t
    BY <1>1, <1>3, <2>1, <2>2
  <2>3. CASE u = t
    <3>1. Paths(t) \subseteq {r} /\ t \notin strayed
      BY <1>1, <1>5, <2>3 DEF Sound
    <3>2. r \in Paths(t)
      BY <3>1 DEF SlotsOK, SlotsKnown, Idle
    <3>3. \A q \in Paths(t)' : q \in Paths(t)
      BY <1>2, <3>2, PathsAre, PathsAreThen
    <3> QED
      BY <1>1, <2>1, <2>3, <3>3
  <2> QED
    BY <2>2, <2>3
<1>6. ZeroIsMain' /\ Agree' /\ Apart'
  BY <1>5, LeftApart DEF SlotsOK
<1>7. SlotsKnown' /\ TargetsHaveSlots'
  <2>1. \A u \in DOMAIN slots \ strayed : Paths(u) # {}
    BY DEF SlotsOK, SlotsKnown, Idle
  <2>2. \A u \in DOMAIN slots' \ strayed' : Paths(u)' # {}
    BY <1>1, <1>3, <1>4, <2>1
  <2> QED
    BY <1>1, <2>2 DEF SlotsOK, SlotsKnown, TargetsHaveSlots
<1> QED
  BY <1>1, <1>2, <1>6, <1>7 DEF SlotsOK

\* What a handler that needs a slot does to the slots and the index.
LEMMA Planned ==
    ASSUME StateOK, SlotsOK, doing = Idle, NEW r \in Repos, NEW t \in Trees,
           PlanSlot(r, t), UNCHANGED <<targets, doing, strayed, split>>
    PROVE  /\ SlotsGrow /\ Partial(slots', Trees, Nat) /\ Partial(repoIndex', Trees, Repos)
           /\ SlotsOK' /\ t \in DOMAIN slots'
<1>1. CASE t \in DOMAIN slots
  <2>1. UNCHANGED <<slots, repoIndex>>
    BY <1>1 DEF PlanSlot
  <2> QED
    BY <1>1, <2>1, UntouchedSlots DEF StateOK, SlotsGrow
<1>2. CASE t \notin DOMAIN slots
  <2>1. AllocateSlot(r, t)
    BY <1>2 DEF PlanSlot
  <2>2. DOMAIN slots' = DOMAIN slots \cup {t}
    BY <1>2, <2>1 DEF AllocateSlot, Put
  <2>3. Sound' \subseteq Sound \cup {t}
    BY <2>2 DEF Sound
  <2> QED
    BY <1>2, <2>1, <2>3, NewSlot
<1> QED
  BY <1>1, <1>2

-----------------------------------------------------------------------------
(* The files and the configuration. *)

LEMMA LoadedType ==
    ASSUME NEW f \in Files
    PROVE  Loaded(f) \in Configs
<1>1. <<>> \in Registrations
  BY EmptyPartial, RegistrationsAre
<1> QED
  BY <1>1 DEF Loaded, Files, Configs

LEMMA RawType ==
    ASSUME file \in Files
    PROVE  Raw \in Files
<1>1. <<>> \in Registrations
  BY EmptyPartial, RegistrationsAre
<1> QED
  BY <1>1 DEF Raw, Files

LEMMA ResolvedType ==
    ASSUME FilesOK, NEW r, NEW t \in Trees, NEW p \in Playbooks
    PROVE  Resolved(r, t, p) \in MaybeDefined
<1>1. Partial(Loaded(file).repos, Repos, [Playbooks -> MaybeDefined])
  <2>1. Loaded(file).repos \in Registrations
    BY LoadedType DEF FilesOK, Configs
  <2> QED
    BY <2>1, RegistrationsAre
<1>2. committed[t][p] \in MaybeDefined /\ NoDefinition \in MaybeDefined
  BY DEF FilesOK, MaybeDefined
<1> QED
  BY <1>1, <1>2 DEF Resolved, Partial

\* Nothing in a playbook, the config or the daemon's own environment can change
\* the slot a run is given.
LEMMA SlotOfRun ==
    ASSUME NEW def, NEW slot
    PROVE  RunEnv(def, slot)["MUX_SLOT"] = slot
BY DEF RunEnv, ResolvedEnv, Layer

LEMMA SlugType ==
    ASSUME FilesOK, NEW r \in Repos, NEW t \in Trees, NEW p \in Playbooks
    PROVE  SlugFor(r, t, p) \in Slugs
<1>1. BaseName[r] \in Repos
  BY TargetsAssumption
<1>2. ~IsMain(r, t) /\ Listed(r, t) /\ branch[t] # Detached => branch[t] \in Branches
  BY DEF FilesOK, IsMain, Linked
<1> QED
  BY <1>1, <1>2 DEF SlugFor, Slugs

LEMMA AddedRegistration ==
    ASSUME NEW f \in Registrations, NEW r \in Repos
    PROVE  Put(f, r, [p \in Playbooks |-> NoDefinition]) \in Registrations
<1>1. [p \in Playbooks |-> NoDefinition] \in [Playbooks -> MaybeDefined]
  BY DEF MaybeDefined
<1> QED
  BY <1>1, RegistrationsAre, PutPartial

LEMMA DroppedRegistration ==
    ASSUME NEW f \in Registrations, NEW r
    PROVE  Drop(f, r) \in Registrations
BY RegistrationsAre, DropPartial

LEMMA ChangedRegistration ==
    ASSUME NEW f \in Registrations, NEW r \in DOMAIN f, NEW p \in Playbooks, NEW d \in Definitions
    PROVE  [f EXCEPT ![r][p] = d] \in Registrations
<1>1. Partial(f, Repos, [Playbooks -> MaybeDefined])
  BY RegistrationsAre
<1>2. [f[r] EXCEPT ![p] = d] \in [Playbooks -> MaybeDefined]
  BY <1>1 DEF Partial, MaybeDefined
<1>3. Partial([f EXCEPT ![r][p] = d], Repos, [Playbooks -> MaybeDefined])
  BY <1>1, <1>2 DEF Partial
<1> QED
  BY <1>3, RegistrationsAre

LEMMA FilesInit == Init => FilesOK
<1> SUFFICES ASSUME Init PROVE FilesOK
  OBVIOUS
<1>1. PICK w \in Worlds : committed = w.committed /\ file = w.file /\ asked = w.asked
  BY DEF Init
<1>2. /\ committed \in [Trees -> [Playbooks -> MaybeDefined]]
      /\ file \in Files /\ asked \subseteq Repos \X Trees \X Playbooks
  BY <1>1, TargetsAssumption DEF MaybeDefined
<1>3. config \in Configs
  BY <1>2, LoadedType DEF Init
<1> QED
  BY <1>2, <1>3 DEF Init, FilesOK

LEMMA FilesStep ==
    ASSUME FilesOK, Next
    PROVE  FilesOK'
<1> USE DEF FilesOK
<1>1. ASSUME NEW repos \in Registrations, WriteRepos(repos) PROVE FilesOK'
  <2>1. file' \in Files
    BY <1>1, RawType DEF WriteRepos, Files
  <2> QED
    BY <1>1, <2>1, LoadedType DEF WriteRepos
<1>2. ASSUME NEW r \in Repos, RepoAdd(r) \/ RepoRemove(r) PROVE FilesOK'
  <2>1. Raw.repos \in Registrations
    BY RawType DEF Files
  <2> QED
    BY <1>1, <1>2, <2>1, AddedRegistration, DroppedRegistration DEF RepoAdd, RepoRemove
<1>3. CASE ConfigReload
  BY <1>3, LoadedType DEF ConfigReload, userVars
<1>4. CASE Restart
  BY <1>4, LoadedType DEF Restart, userVars
<1>5. CASE EditConfig
  <2>1. ASSUME NEW r \in DOMAIN file.repos, NEW p \in Playbooks, NEW d \in Definitions,
               file' = [file EXCEPT !.repos[r][p] = d]
        PROVE  file' \in Files
    <3>1. [file.repos EXCEPT ![r][p] = d] \in Registrations
      BY <2>1, ChangedRegistration DEF Files
    <3>2. file' = [file EXCEPT !.repos = [file.repos EXCEPT ![r][p] = d]]
      BY <2>1 DEF Files
    <3> QED
      BY <3>1, <3>2 DEF Files
  <2>2. ASSUME NEW e \in TargetEnvs, file' = [file EXCEPT !.env = e] PROVE file' \in Files
    BY <2>2 DEF Files
  <2>3. ASSUME \/ file' = [file EXCEPT !.json = ~@] \/ file' = [file EXCEPT !.valid = ~@]
        PROVE  file' \in Files
    BY <2>3 DEF Files
  <2> QED
    BY <1>5, <2>1, <2>2, <2>3 DEF EditConfig, Edit, memory
<1>6. CASE EditCommitted
  BY <1>6 DEF EditCommitted, Edit, memory, MaybeDefined
<1>7. CASE SwitchBranch
  BY <1>7 DEF SwitchBranch, Edit, memory
<1>8. CASE MoveTree
  BY <1>8 DEF MoveTree, Edit, memory, Linked
<1>9. ASSUME UNCHANGED <<userVars, config>> PROVE FilesOK'
  BY <1>9 DEF userVars
<1>10. CASE UNCHANGED <<userVars, config>>
  BY <1>9, <1>10
<1>11. Next => UNCHANGED <<userVars, config>> \/ ConfigReload \/ Restart \/ EditConfig
                \/ EditCommitted \/ SwitchBranch \/ MoveTree
                \/ \E r \in Repos : RepoAdd(r) \/ RepoRemove(r)
  BY DEF Next, TargetAdd, TargetAdded, ReleaseSlot, TargetUpdate, RunStart, RunStop, Autostart,
         Started, Stopped, Removed, memory
<1> QED
  BY <1>2, <1>3, <1>4, <1>5, <1>6, <1>7, <1>8, <1>10, <1>11

-----------------------------------------------------------------------------
(* The queues. *)

LEMMA TailIs ==
    ASSUME NEW q \in Waits, Len(q) # 1
    PROVE  /\ Tail(q) \in Waits /\ Len(Tail(q)) = Len(q) - 1
           /\ \A i \in 1..Len(Tail(q)) : Tail(q)[i] = q[i + 1]
<1>1. q \in Seq(Operations) /\ q # <<>>
  BY DEF Waits
<1>2. Len(q) \in Nat /\ Len(q) >= 1
  BY <1>1 DEF Waits
<1>3. Tail(q) \in Seq(Operations) /\ Len(Tail(q)) = Len(q) - 1
  BY <1>1, HeadTailProperties
<1>4. \A i \in 1..Len(Tail(q)) : Tail(q)[i] = q[i + 1]
  BY <1>1, HeadTailProperties
<1> QED
  BY <1>2, <1>3, <1>4 DEF Waits

\* What is left of the queues holds nothing new.
LEMMA RestIs ==
    ASSUME WorkOK, NEW s \in DOMAIN queue
    PROVE  /\ Partial(Rest(s), Slugs, Waits)
           /\ DOMAIN Rest(s) \subseteq DOMAIN queue
           /\ \A r \in DOMAIN Rest(s) \ {s} : Rest(s)[r] = queue[r]
           /\ \A r \in DOMAIN Rest(s) : \A i \in 1..Len(Rest(s)[r]) :
                 \E j \in 1..Len(queue[r]) : Rest(s)[r][i] = queue[r][j]
<1>1. Partial(queue, Slugs, Waits)
  BY DEF WorkOK
<1>2. queue[s] \in Waits
  BY <1>1 DEF Partial
<1>3. CASE Len(queue[s]) = 1
  <2>1. Rest(s) = Drop(queue, s)
    BY <1>3 DEF Rest
  <2>2. Partial(Rest(s), Slugs, Waits)
    BY <1>1, <2>1, DropPartial
  <2>3. DOMAIN Rest(s) = DOMAIN queue \ {s} /\ \A r \in DOMAIN Rest(s) : Rest(s)[r] = queue[r]
    BY <2>1 DEF Drop
  <2>4. DOMAIN Rest(s) \subseteq DOMAIN queue /\ \A r \in DOMAIN Rest(s) : Rest(s)[r] = queue[r]
    BY <2>3
  <2> HIDE DEF Rest
  <2> QED
    BY <2>2, <2>4
<1>4. CASE Len(queue[s]) # 1
  <2>1. Rest(s) = [queue EXCEPT ![s] = Tail(@)]
    BY <1>4 DEF Rest
  <2>2. /\ Tail(queue[s]) \in Waits
        /\ Len(Tail(queue[s])) = Len(queue[s]) - 1
        /\ \A i \in 1..Len(Tail(queue[s])) : Tail(queue[s])[i] = queue[s][i + 1]
    BY <1>2, <1>4, TailIs
  <2>3. /\ DOMAIN Rest(s) = DOMAIN queue /\ Rest(s)[s] = Tail(queue[s])
        /\ \A r \in DOMAIN queue \ {s} : Rest(s)[r] = queue[r]
    BY <1>1, <2>1 DEF Partial
  <2>4. Partial(Rest(s), Slugs, Waits)
    BY <1>1, <2>1, <2>2 DEF Partial
  <2>5. ASSUME NEW i \in 1..Len(Rest(s)[s])
        PROVE  i + 1 \in 1..Len(queue[s]) /\ Rest(s)[s][i] = queue[s][i + 1]
    BY <1>2, <2>2, <2>3
  <2>6. ASSUME NEW r \in DOMAIN Rest(s), NEW i \in 1..Len(Rest(s)[r])
        PROVE  \E j \in 1..Len(queue[r]) : Rest(s)[r][i] = queue[r][j]
    <3>1. CASE r = s
      BY <2>5, <3>1
    <3>2. CASE r # s
      BY <2>3, <3>2
    <3> QED
      BY <3>1, <3>2
  <2>7. DOMAIN Rest(s) \subseteq DOMAIN queue
    BY <2>3
  <2>8. \A r \in DOMAIN Rest(s) \ {s} : Rest(s)[r] = queue[r]
    BY <2>3
  <2> QED
    BY <2>4, <2>6, <2>7, <2>8
<1> QED
  BY <1>3, <1>4

LEMMA HeadIs ==
    ASSUME WorkOK, NEW s \in DOMAIN queue
    PROVE  /\ s \in Slugs /\ 1 \in 1..Len(queue[s])
           /\ Head(queue[s]) = queue[s][1] /\ Head(queue[s]) \in Operations
<1>1. s \in Slugs /\ queue[s] \in Seq(Operations) /\ Len(queue[s]) >= 1
  BY DEF WorkOK, Partial, Waits
<1> QED
  BY <1>1

\* What is queued now was queued before, or is the new operation.
LEMMA EnqueuedIs ==
    ASSUME WorkOK, NEW s \in Slugs, NEW o \in Operations, Enqueue(s, o)
    PROVE  /\ Partial(queue', Slugs, Waits)
           /\ \A r \in DOMAIN queue' : \A i \in 1..Len(queue'[r]) :
                 \/ r = s /\ queue'[r][i] = o
                 \/ r \in DOMAIN queue /\ \E j \in 1..Len(queue[r]) : queue'[r][i] = queue[r][j]
<1>1. Partial(queue, Slugs, Waits)
  BY DEF WorkOK
<1>2. Waiting(s) \in Seq(Operations)
  BY <1>1 DEF Waiting, Partial, Waits
<1>3. PICK w \in Seq(Operations) : w = Waiting(s)
  BY <1>2
<1>4. PICK v : v = Append(w, o)
  OBVIOUS
<1>5. /\ v \in Waits /\ Len(v) = Len(w) + 1
      /\ v[Len(w) + 1] = o /\ \A i \in 1..Len(w) : v[i] = w[i]
  BY <1>4 DEF Waits
<1>6. queue' = Put(queue, s, v)
  BY <1>3, <1>4 DEF Enqueue
<1>7. Partial(queue', Slugs, Waits)
  BY <1>1, <1>5, <1>6, PutPartial
<1>8. /\ DOMAIN queue' = DOMAIN queue \cup {s} /\ queue'[s] = v
      /\ \A r \in DOMAIN queue \ {s} : queue'[r] = queue[r]
  BY <1>6 DEF Put
<1>9. ASSUME NEW i \in 1..Len(w) PROVE s \in DOMAIN queue /\ w = queue[s]
  BY <1>3, <1>9 DEF Waiting
<1>10. ASSUME NEW i \in 1..Len(v)
       PROVE  v[i] = o \/ (s \in DOMAIN queue /\ \E j \in 1..Len(queue[s]) : v[i] = queue[s][j])
  <2>1. CASE i = Len(w) + 1
    BY <1>5, <2>1
  <2>2. CASE i # Len(w) + 1
    <3>1. i \in 1..Len(w)
      BY <1>5, <2>2
    <3> QED
      BY <1>5, <1>9, <3>1
  <2> QED
    BY <2>1, <2>2
<1> QED
  BY <1>7, <1>8, <1>10

-----------------------------------------------------------------------------
(* What a step may do without putting an operation or a run in the wrong.     *)

Keeps(s) ==
    /\ \A x \in targets : x.slug = s => \E y \in targets' : Same(x, y)
    /\ \A x \in targets : slots'[x.tree] = slots[x.tree]
    /\ edited' \/ (edited' = edited /\ UNCHANGED <<file, present, committed>>)

LEMMA KeptOperation ==
    ASSUME NEW s, Keeps(s), NEW o, OperationOK(s, o)
    PROVE  OperationOK(s, o)'
<1>1. Configured(s, o) => Configured(s, o)' /\ slots'[o.tree] = slots[o.tree]
  BY DEF Keeps, Configured, Same
<1>2. edited' \/ (edited' = edited /\ (Outdated(o)' <=> Outdated(o)))
  BY DEF Keeps, Outdated, Resolved
<1> QED
  BY <1>1, <1>2 DEF OperationOK

LEMMA KeptRun ==
    ASSUME NEW s, Keeps(s), NEW o, RunOK(s, o)
    PROVE  RunOK(s, o)'
<1>1. Configured(s, o) => Configured(s, o)' /\ slots'[o.tree] = slots[o.tree]
  BY DEF Keeps, Configured, Same
<1>2. edited' \/ (edited' = edited /\ (Outdated(o)' <=> Outdated(o)))
  BY DEF Keeps, Outdated, Resolved
<1> QED
  BY <1>1, <1>2 DEF RunOK

\* So the operations that are kept stay right, and so do the runs.
LEMMA KeptQueue ==
    ASSUME QueueOK, \A s : Keeps(s),
           \A r \in DOMAIN queue' : \A i \in 1..Len(queue'[r]) :
              r \in DOMAIN queue /\ \E j \in 1..Len(queue[r]) : queue'[r][i] = queue[r][j]
    PROVE  QueueOK'
<1>1. \A s, o : OperationOK(s, o) => OperationOK(s, o)'
  BY KeptOperation
<1>2. ASSUME NEW r \in DOMAIN queue', NEW i \in 1..Len(queue'[r])
      PROVE  OperationOK(r, queue[r][i])'
  <2>1. PICK j \in 1..Len(queue[r]) : r \in DOMAIN queue /\ queue'[r][i] = queue[r][j]
    OBVIOUS
  <2>2. PICK o : o = queue[r][j]
    OBVIOUS
  <2>3. OperationOK(r, o)
    BY <2>1, <2>2 DEF QueueOK
  <2>4. OperationOK(r, o)'
    BY <1>1, <2>3
  <2>5. o = queue'[r][i]
    BY <2>1, <2>2
  <2> HIDE DEF OperationOK
  <2> QED
    BY <2>4, <2>5 DEF OperationOK, Configured, Outdated, Resolved
<1> QED
  BY <1>2 DEF QueueOK

LEMMA KeptRuns ==
    ASSUME RunsOK, \A s : Keeps(s), UNCHANGED runs
    PROVE  RunsOK'
<1>1. \A s, o : RunOK(s, o) => RunOK(s, o)'
  BY KeptRun
<1>2. ASSUME NEW s \in DOMAIN runs PROVE RunOK(s, runs[s])'
  <2>1. PICK o : o = runs[s]
    OBVIOUS
  <2>2. RunOK(s, o)'
    BY <1>1, <2>1 DEF RunsOK
  <2>3. o = runs'[s]
    BY <2>1
  <2> QED
    BY <2>2, <2>3 DEF RunOK, Configured, Outdated, Resolved
<1> QED
  BY <1>2 DEF RunsOK

\* A step that writes neither targets nor slots, but may edit.
LEMMA UnwrittenKeeps ==
    ASSUME UNCHANGED <<targets, slots>>,
           edited' \/ UNCHANGED <<edited, file, present, committed>>
    PROVE  \A s : Keeps(s)
BY DEF Keeps, Same

\* A step that adds slots at most.
LEMMA GrownKeeps ==
    ASSUME SlotsOK, SlotsGrow, UNCHANGED <<targets, edited, file, present, committed>>
    PROVE  \A s : Keeps(s)
BY DEF Keeps, Same, SlotsOK, TargetsHaveSlots, SlotsGrow

-----------------------------------------------------------------------------
(* The targets. *)

\* What is proved of a step, but for the files.
After == StateOK' /\ WorkOK' /\ TargetsDiffer' /\ AddIsNew' /\ SlotsOK' /\ QueueOK' /\ RunsOK'

LEMMA DoingAdd == ASSUME NEW x \in TargetRecords PROVE [op |-> "add", target |-> x] \in Doings
BY DEF Doings

LEMMA DoingRelease == ASSUME NEW t \in Trees PROVE [op |-> "release", tree |-> t] \in Doings
BY DEF Doings

LEMMA TargetAddStep ==
    ASSUME IInv, NEW r \in Repos, NEW t \in Trees, NEW p \in Playbooks, TargetAdd(r, t, p)
    PROVE  After
<1> USE DEF TargetAdd, memory, history, ofEdits, userVars, stateFile
<1>1. PICK slug : slug = SlugFor(r, t, p)
  OBVIOUS
<1>2. slug \in Slugs
  BY <1>1, SlugType DEF IInv, TypeOK
<1>3. PICK x : x = [slug |-> slug, repo |-> r, tree |-> t, playbook |-> p, autostart |-> FALSE]
  OBVIOUS
<1>4. x \in TargetRecords /\ x.slug = slug /\ x.repo = r /\ x.tree = t /\ x.playbook = p
  BY <1>2, <1>3 DEF TargetRecords
<1>5. doing' = [op |-> "add", target |-> x]
  BY <1>1, <1>3
<1>6. /\ SlotsGrow /\ SlotsOK' /\ t \in DOMAIN slots' \cap DOMAIN repoIndex' /\ repoIndex'[t] = r
      /\ Partial(slots', Trees, Nat) /\ Partial(repoIndex', Trees, Repos)
  <2>1. CASE t \in DOMAIN slots
    BY <2>1, KeptSlot DEF IInv, TypeOK, StateOK, SlotsGrow
  <2>2. CASE t \notin DOMAIN slots
    <3>1. DOMAIN slots' = DOMAIN slots \cup {t} /\ split' = split
      BY <2>2 DEF AllocateSlot, Put
    <3>2. Sound' \subseteq Sound \cup {t}
      BY <3>1 DEF Sound
    <3> QED
      BY <2>2, <3>2, NewSlot DEF IInv, TypeOK
  <2> QED
    BY <2>1, <2>2
<1>7. \A s : Keeps(s)
  BY <1>6, GrownKeeps DEF IInv
<1>8. StateOK'
  <2>1. doing' \in Doings
    BY <1>4, <1>5, DoingAdd
  <2>2. split' \subseteq Trees
    BY DEF IInv, TypeOK, StateOK
  <2> QED
    BY <1>6, <2>1, <2>2 DEF IInv, TypeOK, StateOK
<1>9. WorkOK' /\ TargetsDiffer'
  BY DEF IInv, TypeOK, WorkOK, TargetsDiffer
<1>10. AddIsNew'
  BY <1>1, <1>4, <1>5, <1>6 DEF AddIsNew, Collides
<1>11. QueueOK' /\ RunsOK'
  BY <1>7, KeptQueue, KeptRuns DEF IInv
<1> QED
  BY <1>6, <1>8, <1>9, <1>10, <1>11 DEF After

LEMMA TargetAddedStep ==
    ASSUME IInv, TargetAdded
    PROVE  After
<1> USE DEF TargetAdded, memory, history, ofSlots, ofEdits, userVars
<1>1. PICK x \in TargetRecords : x = doing.target /\ doing.op = "add"
  BY DEF IInv, TypeOK, StateOK, Doings, Idle
<1>2. targets' = targets \cup {x} /\ doing' = Idle
  BY <1>1
<1>3. /\ x.tree \in DOMAIN slots \cap DOMAIN repoIndex /\ repoIndex[x.tree] = x.repo
      /\ \A y \in targets : y.slug # x.slug /\ (y.tree # x.tree \/ y.playbook # x.playbook)
  BY <1>1 DEF IInv, AddIsNew
<1>4. \A s : Keeps(s)
  BY <1>2, <1>3 DEF Keeps, Same
<1>5. StateOK' /\ WorkOK'
  BY <1>2 DEF IInv, TypeOK, StateOK, WorkOK, Doings
<1>6. TargetsDiffer'
  BY <1>2, <1>3 DEF IInv, TargetsDiffer
<1>7. AddIsNew'
  BY <1>2 DEF AddIsNew, Idle
<1>8. SlotsOK'
  <2>1. \A t : Paths(t)' \subseteq Paths(t) /\ Paths(t) \subseteq Paths(t)'
    BY <1>2, <1>3, PathsAre, PathsAreThen
  <2>2. Sound' = Sound
    BY DEF Sound
  <2>3. ZeroIsMain' /\ Agree' /\ Apart'
    BY <2>1, <2>2, LeftApart DEF IInv, SlotsOK
  <2>4. SlotsKnown'
    BY <1>1, <1>2, <2>1 DEF IInv, SlotsOK, SlotsKnown, Idle
  <2>5. TargetsHaveSlots'
    BY <1>2, <1>3 DEF IInv, SlotsOK, TargetsHaveSlots
  <2> QED
    BY <2>3, <2>4, <2>5 DEF SlotsOK
<1>9. QueueOK' /\ RunsOK'
  BY <1>4, KeptQueue, KeptRuns DEF IInv
<1> QED
  BY <1>5, <1>6, <1>7, <1>8, <1>9 DEF After

LEMMA TargetUpdateStep ==
    ASSUME IInv, NEW x \in targets, TargetUpdate(x)
    PROVE  After
<1> USE DEF TargetUpdate, memory, history, ofSlots, ofEdits, userVars
<1>1. PICK z : z = [x EXCEPT !.autostart = ~@]
  OBVIOUS
<1>2. z \in TargetRecords /\ Same(x, z)
  BY <1>1 DEF IInv, TypeOK, StateOK, TargetRecords, Same
<1>3. targets' = {IF y.slug = x.slug THEN z ELSE y : y \in targets}
  BY <1>1
<1>4. \A y \in targets : y.slug = x.slug => y = x
  BY DEF IInv, TargetsDiffer
<1>5. ASSUME NEW w \in targets'
      PROVE  w = z \/ (w \in targets /\ w.slug # x.slug)
  BY <1>3
<1>6. z \in targets' /\ \A y \in targets : y.slug # x.slug => y \in targets'
  BY <1>3
<1> HIDE DEF TargetUpdate
<1>7. \A y \in targets : \E w \in targets' : Same(y, w)
  BY <1>2, <1>4, <1>6 DEF Same
<1>8. \A w \in targets' : \E y \in targets : Same(y, w)
  BY <1>2, <1>5 DEF Same
<1>9. targets' \subseteq TargetRecords
  BY <1>2, <1>5 DEF IInv, TypeOK, StateOK
<1>10. TargetsDiffer'
  <2>1. ASSUME NEW v \in targets', NEW w \in targets',
               v.slug = w.slug \/ (v.tree = w.tree /\ v.playbook = w.playbook)
        PROVE  v = w
    <3>1. CASE v = z /\ w = z
      BY <3>1
    <3>2. CASE v = z /\ w # z
      BY <1>2, <1>5, <2>1, <3>2 DEF Same, IInv, TargetsDiffer
    <3>3. CASE v # z /\ w = z
      BY <1>2, <1>5, <2>1, <3>3 DEF Same, IInv, TargetsDiffer
    <3>4. CASE v # z /\ w # z
      BY <1>5, <2>1, <3>4 DEF IInv, TargetsDiffer
    <3> QED
      BY <3>1, <3>2, <3>3, <3>4
  <2> QED
    BY <2>1 DEF TargetsDiffer
<1>11. UNCHANGED <<slots, repoIndex, queue, runs, boot, doing, ofSlots, ofEdits,
                   file, present, committed>>
  BY DEF TargetUpdate
<1>12. \A s : Keeps(s)
  BY <1>7, <1>8, <1>11 DEF Keeps
<1>13. StateOK' /\ WorkOK' /\ AddIsNew'
  BY <1>9, <1>11 DEF IInv, TypeOK, StateOK, WorkOK, AddIsNew, Idle, TargetUpdate
<1>14. SlotsOK'
  <2>1. \A t : Paths(t)' \subseteq Paths(t) /\ Paths(t) \subseteq Paths(t)'
    BY <1>7, <1>8, <1>11, PathsAre, PathsAreThen DEF Same
  <2>2. Sound' = Sound
    BY <1>11 DEF Sound
  <2>3. ZeroIsMain' /\ Agree' /\ Apart'
    BY <1>11, <2>1, <2>2, LeftApart DEF IInv, SlotsOK
  <2>4. SlotsKnown'
    BY <1>11, <2>1 DEF IInv, SlotsOK, SlotsKnown
  <2>5. TargetsHaveSlots'
    BY <1>8, <1>11 DEF IInv, SlotsOK, TargetsHaveSlots, Same
  <2> QED
    BY <2>3, <2>4, <2>5 DEF SlotsOK
<1>15. QueueOK' /\ RunsOK'
  BY <1>11, <1>12, KeptQueue, KeptRuns DEF IInv
<1> QED
  BY <1>10, <1>13, <1>14, <1>15 DEF After

LEMMA ReleaseSlotStep ==
    ASSUME IInv, ReleaseSlot
    PROVE  After
<1> USE DEF ReleaseSlot, memory, history, ofSlots, ofEdits, userVars
<1>1. Partial(slots, Trees, Nat) /\ \A u : Paths(u)' = Paths(u)
  BY DEF IInv, TypeOK, StateOK, Paths
<1>2. CASE HasTarget(doing.tree)
  <2>1. UNCHANGED <<slots, ofSlots>>
    BY <1>2
  <2>2. \A s : Keeps(s)
    BY <2>1, UnwrittenKeeps
  <2>3. ZeroIsMain' /\ Agree' /\ Apart'
    BY <1>1, <2>1, LeftApart DEF IInv, SlotsOK, Sound
  <2>4. SlotsKnown' /\ TargetsHaveSlots'
    <3>1. Paths(doing.tree) # {}
      BY <1>2, PathsAre DEF HasTarget
    <3> QED
      BY <1>1, <2>1, <3>1 DEF IInv, SlotsOK, SlotsKnown, TargetsHaveSlots
  <2> QED
    BY <2>1, <2>2, <2>3, <2>4, KeptQueue, KeptRuns
       DEF After, IInv, TypeOK, StateOK, WorkOK, Doings, TargetsDiffer, AddIsNew, SlotsOK, Idle
<1>3. CASE ~HasTarget(doing.tree)
  <2>1. PICK t : t = doing.tree
    OBVIOUS
  <2>2. slots' = Drop(slots, t) /\ strayed' = strayed \ {t} /\ split' = split \ {t}
    BY <1>3, <2>1
  <2>3. DOMAIN slots' = DOMAIN slots \ {t} /\ \A u \in DOMAIN slots' : slots'[u] = slots[u]
    BY <2>2 DEF Drop
  <2>4. Partial(slots', Trees, Nat)
    BY <1>1, <2>2, DropPartial
  <2>5. \A x \in targets : x.tree # t
    BY <1>3, <2>1 DEF HasTarget
  <2>6. \A x \in targets : x.tree \in DOMAIN slots' /\ slots'[x.tree] = slots[x.tree]
    BY <2>3, <2>5 DEF IInv, SlotsOK, TargetsHaveSlots
  <2>7. \A s : Keeps(s)
    BY <2>6 DEF Keeps, Same
  <2>8. SlotsOK'
    <3>1. ASSUME NEW u \in Sound' PROVE u \in Sound /\ slots'[u] = slots[u]
      BY <2>2, <2>3, <3>1 DEF Sound
    <3>2. ZeroIsMain' /\ Agree' /\ Apart'
      BY <1>1, <3>1, LeftApart DEF IInv, SlotsOK
    <3>3. SlotsKnown' /\ TargetsHaveSlots'
      BY <1>1, <2>1, <2>2, <2>3, <2>6 DEF IInv, SlotsOK, SlotsKnown, TargetsHaveSlots
    <3> QED
      BY <3>2, <3>3 DEF SlotsOK
  <2>9. StateOK' /\ WorkOK' /\ TargetsDiffer' /\ AddIsNew'
    BY <2>2, <2>4 DEF IInv, TypeOK, StateOK, WorkOK, Doings, TargetsDiffer, AddIsNew, Idle
  <2> QED
    BY <2>7, <2>8, <2>9, KeptQueue, KeptRuns DEF After, IInv
<1> QED
  BY <1>2, <1>3

-----------------------------------------------------------------------------
(* The user's edits, the configuration, and the daemon's end. *)

\* Edits, and the daemon's own writes of the config.
LEMMA EditedStep ==
    ASSUME IInv, UNCHANGED <<stateFile, repoIndex, runs, queue, boot, doing, ofSlots>>,
           edited' = TRUE, unread' \in BOOLEAN, mine' \in Written
    PROVE  After
<1> USE DEF stateFile, ofSlots
<1>1. \A s : Keeps(s)
  BY UnwrittenKeeps
<1>2. StateOK' /\ WorkOK' /\ TargetsDiffer' /\ AddIsNew'
  BY DEF IInv, TypeOK, StateOK, WorkOK, TargetsDiffer, AddIsNew
<1>3. SlotsOK'
  BY UntouchedSlots DEF IInv
<1> QED
  BY <1>1, <1>2, <1>3, KeptQueue, KeptRuns DEF After, IInv

\* What a user writes.
LEMMA WrittenType ==
    ASSUME IInv, EditConfig \/ \E r \in Repos : RepoAdd(r) \/ RepoRemove(r)
    PROVE  unread' \in BOOLEAN /\ mine' \in Written
<1>1. mine \in Written /\ Nothing \in Written
  BY DEF IInv, TypeOK, StateOK, Written
<1>2. CASE \E r \in Repos : RepoAdd(r) \/ RepoRemove(r)
  BY <1>1, <1>2 DEF RepoAdd, RepoRemove, WriteRepos
<1>3. CASE EditConfig
  <2>1. ASSUME NEW r \in DOMAIN file.repos, NEW p \in Playbooks, NEW d \in Definitions
        PROVE  [kind |-> "playbook", repo |-> r, playbook |-> p, def |-> d] \in Written
    <3>1. r \in Repos
      BY RegistrationsAre DEF IInv, TypeOK, FilesOK, Files, Partial
    <3> QED
      BY <3>1 DEF Written
  <2>2. ASSUME NEW e \in TargetEnvs PROVE [kind |-> "env", env |-> e] \in Written
    BY DEF Written
  <2> QED
    BY <1>1, <1>3, <2>1, <2>2 DEF EditConfig
<1> QED
  BY <1>2, <1>3

LEMMA RestartStep ==
    ASSUME IInv, Restart
    PROVE  After
<1> USE DEF Restart, stateFile, userVars
<1>1. DOMAIN queue' = {} /\ DOMAIN runs' = {}
  OBVIOUS
<1>2. WorkOK' /\ QueueOK' /\ RunsOK'
  BY <1>1, EmptyPartial DEF WorkOK, QueueOK, RunsOK
<1>3. StateOK'
  <2>1. Partial(repoIndex', Trees, Repos)
    BY EmptyPartial
  <2> QED
    BY <2>1 DEF IInv, TypeOK, StateOK, Doings, Partial
<1>4. TargetsDiffer' /\ AddIsNew'
  BY DEF IInv, TargetsDiffer, AddIsNew, Idle
<1>5. \A t : Paths(t)' \subseteq Paths(t) /\ (HasTarget(t) => Paths(t)' # {})
  <2>1. DOMAIN repoIndex' = {} /\ targets' = targets
    OBVIOUS
  <2> HIDE DEF Restart
  <2> QED
    BY <2>1, PathsAre, PathsAreThen DEF HasTarget
<1>6. Sound' \subseteq Sound
  BY DEF Sound
<1>7. ZeroIsMain' /\ Agree' /\ Apart'
  BY <1>5, <1>6, LeftApart DEF IInv, SlotsOK
<1>8. SlotsKnown' /\ TargetsHaveSlots'
  BY <1>5 DEF IInv, SlotsOK, SlotsKnown, TargetsHaveSlots
<1> QED
  BY <1>2, <1>3, <1>4, <1>7, <1>8 DEF After, SlotsOK

-----------------------------------------------------------------------------
(* Marks are put on what waits and on what runs.                              *)

LEMMA MappedWait ==
    ASSUME NEW q \in Waits, NEW w \in [1..Len(q) -> Operations]
    PROVE  w \in Waits /\ Len(w) = Len(q)
BY DEF Waits

LEMMA MarkedAcross ==
    ASSUME NEW o \in Operations, o.op = "start", NEW b \in BOOLEAN
    PROVE  /\ [o EXCEPT !.across = b] \in Operations
           /\ [o EXCEPT !.across = b].op = "start"
           /\ [o EXCEPT !.across = b].repo = o.repo
           /\ [o EXCEPT !.across = b].tree = o.tree
           /\ [o EXCEPT !.across = b].playbook = o.playbook
           /\ [o EXCEPT !.across = b].def = o.def
           /\ [o EXCEPT !.across = b].slot = o.slot
           /\ [o EXCEPT !.across = b].lost = o.lost
           /\ [o EXCEPT !.across = b].across = b
BY DEF Operations, Starts, Others

LEMMA MarkedLost ==
    ASSUME NEW o \in Operations, o.op = "start"
    PROVE  /\ [o EXCEPT !.lost = TRUE] \in Operations
           /\ [o EXCEPT !.lost = TRUE].op = "start"
           /\ [o EXCEPT !.lost = TRUE].lost
BY DEF Operations, Starts, Others

LEMMA MarkedStale ==
    ASSUME NEW o \in RunRecords, NEW b \in BOOLEAN
    PROVE  LET v == [o EXCEPT !.across = FALSE, !.stale = b]
           IN  /\ v \in RunRecords
               /\ v.repo = o.repo /\ v.tree = o.tree /\ v.playbook = o.playbook /\ v.def = o.def
               /\ v.slot = o.slot /\ v.lost = o.lost /\ v.across = FALSE /\ v.stale = b
BY DEF RunRecords

\* What a reload does to an operation.
Reloaded(o) == IF o.op = "start" THEN [o EXCEPT !.across = Outdated(o)] ELSE o

LEMMA ReloadedOperation ==
    ASSUME NEW o \in Operations, NEW s, OperationOK(s, o), ConfigReload,
           NEW v, v = Reloaded(o)
    PROVE  v \in Operations /\ OperationOK(s, v)'
<1>1. UNCHANGED <<targets, slots, repoIndex, file, present, committed>>
  BY DEF ConfigReload, userVars, stateFile
<1>2. CASE o.op = "start"
  <2>1. PICK b \in BOOLEAN : b = Outdated(o)
    BY DEF Outdated
  <2>2. v = [o EXCEPT !.across = b]
    BY <1>2, <2>1 DEF Reloaded
  <2>3. /\ v \in Operations /\ v.op = "start" /\ v.repo = o.repo /\ v.tree = o.tree
        /\ v.playbook = o.playbook
        /\ v.def = o.def /\ v.slot = o.slot /\ v.lost = o.lost /\ v.across = b
    BY <1>2, <2>2, MarkedAcross
  <2>4. OperationOK(s, v)'
    <3>1. ~v.lost => Configured(s, v)' /\ v.slot = slots'[v.tree]
      BY <1>1, <1>2, <2>3 DEF OperationOK, Configured
    <3>2. v.across \/ ~Outdated(v)'
      BY <1>1, <2>1, <2>3 DEF Outdated, Resolved
    <3> QED
      BY <2>3, <3>1, <3>2 DEF OperationOK
  <2> QED
    BY <2>3, <2>4
<1>3. CASE o.op # "start"
  BY <1>1, <1>3 DEF Reloaded, OperationOK
<1> QED
  BY <1>2, <1>3

\* And to a run: a target of its slug runs another definition.
Redefined(s, o) == \E x \in targets :
    x.slug = s /\ DefinitionChanged(o.def, Resolved(x.repo, x.tree, x.playbook))

LEMMA ReloadedRun ==
    ASSUME NEW o \in RunRecords, NEW s, RunOK(s, o), ConfigReload,
           NEW b \in BOOLEAN, b <=> o.stale \/ Redefined(s, o),
           NEW v, v = [o EXCEPT !.across = FALSE, !.stale = b]
    PROVE  v \in RunRecords /\ RunOK(s, v)'
<1>1. UNCHANGED <<targets, slots, repoIndex, file, present, committed>>
  BY DEF ConfigReload, userVars, stateFile
<1>2. /\ v \in RunRecords
      /\ v.repo = o.repo /\ v.tree = o.tree /\ v.playbook = o.playbook /\ v.def = o.def
      /\ v.slot = o.slot /\ v.lost = o.lost /\ v.across = FALSE /\ v.stale = b
  BY MarkedStale
<1>3. ~v.lost => Configured(s, v)' /\ v.slot = slots'[v.tree]
  BY <1>1, <1>2 DEF RunOK, Configured
<1>4. v.lost \/ v.stale \/ ~Outdated(v)'
  <2>1. Outdated(v)' <=> Outdated(o)
    BY <1>1, <1>2 DEF Outdated, Resolved
  <2>2. CASE ~o.lost
    BY <1>2, <2>1, <2>2 DEF RunOK, Configured, Outdated, DefinitionChanged, Redefined
  <2> QED
    BY <1>2, <2>2
<1> QED
  BY <1>2, <1>3, <1>4 DEF RunOK

\* Where an operation waits.
LEMMA WaitingIs ==
    ASSUME WorkOK, NEW s \in DOMAIN queue
    PROVE  /\ queue[s] \in Waits /\ DOMAIN queue[s] = 1..Len(queue[s])
           /\ \A i \in 1..Len(queue[s]) : queue[s][i] \in Operations
<1>1. queue[s] \in Waits
  BY DEF WorkOK, Partial
<1>2. PICK q \in Waits : q = queue[s]
  BY <1>1
<1>3. DOMAIN q = 1..Len(q) /\ \A i \in 1..Len(q) : q[i] \in Operations
  BY DEF Waits
<1> QED
  BY <1>1, <1>2, <1>3

LEMMA ConfigReloadStep ==
    ASSUME IInv, ConfigReload
    PROVE  After
<1>1. /\ UNCHANGED <<present, committed, file, targets, slots, repoIndex, boot, doing,
                     ofSlots, mine>>
      /\ edited' = FALSE /\ unread' = FALSE
  BY DEF ConfigReload, userVars, stateFile
<1>2. /\ DOMAIN queue' = DOMAIN queue
      /\ \A s \in DOMAIN queue :
            queue'[s] = [i \in DOMAIN queue[s] |-> Reloaded(queue[s][i])]
  BY DEF ConfigReload, Reloaded, Outdated
<1>3. ASSUME NEW s \in DOMAIN queue, NEW i \in 1..Len(queue[s])
      PROVE  queue'[s][i] \in Operations /\ OperationOK(s, queue[s][i])'
  <2>1. PICK o \in Operations : o = queue[s][i]
    BY <1>3, WaitingIs DEF IInv, TypeOK
  <2>2. OperationOK(s, o)
    BY <2>1 DEF IInv, QueueOK
  <2>3. PICK v : v = Reloaded(o)
    OBVIOUS
  <2>4. v \in Operations /\ OperationOK(s, v)'
    BY <2>2, <2>3, ReloadedOperation
  <2>5. queue'[s][i] = v
    BY <1>2, <2>1, <2>3, WaitingIs DEF IInv, TypeOK
  <2> QED
    BY <2>4, <2>5 DEF OperationOK, Configured, Outdated, Resolved
<1>4. ASSUME NEW s \in DOMAIN queue PROVE queue'[s] \in Waits /\ Len(queue'[s]) = Len(queue[s])
  <2>1. queue[s] \in Waits /\ DOMAIN queue[s] = 1..Len(queue[s])
    BY WaitingIs DEF IInv, TypeOK
  <2>2. queue'[s] \in [1..Len(queue[s]) -> Operations]
    BY <1>2, <1>3, <2>1
  <2> QED
    BY <2>1, <2>2, MappedWait
<1>5. Partial(queue', Slugs, Waits)
  <2>1. queue' = [s \in DOMAIN queue |-> queue'[s]]
    BY DEF ConfigReload
  <2> QED
    BY <1>2, <1>4, <2>1 DEF IInv, TypeOK, WorkOK, Partial
<1>6. QueueOK'
  BY <1>2, <1>3, <1>4 DEF QueueOK
<1>7. ASSUME NEW s \in DOMAIN runs PROVE runs'[s] \in RunRecords /\ RunOK(s, runs[s])'
  <2>1. PICK o \in RunRecords : o = runs[s]
    BY DEF IInv, TypeOK, WorkOK, Partial
  <2>2. PICK b \in BOOLEAN : b <=> o.stale \/ Redefined(s, o)
    OBVIOUS
  <2>3. PICK v : v = [o EXCEPT !.across = FALSE, !.stale = b]
    OBVIOUS
  <2>4. v \in RunRecords /\ RunOK(s, v)'
    BY <2>1, <2>2, <2>3, ReloadedRun DEF IInv, RunsOK
  <2>5. runs'[s] = v
    <3>1. (o.stale \/ Redefined(s, o)) = b
      BY <2>2 DEF RunRecords, Redefined
    <3>2. runs'[s] = [o EXCEPT !.across = FALSE, !.stale = @ \/ Redefined(s, o)]
      BY <2>1 DEF ConfigReload, Redefined
    <3> QED
      BY <2>3, <3>1, <3>2
  <2> QED
    BY <2>4, <2>5 DEF RunOK, Configured, Outdated, Resolved
<1>8. DOMAIN runs' = DOMAIN runs /\ runs' = [s \in DOMAIN runs |-> runs'[s]]
  BY DEF ConfigReload
<1>9. Partial(runs', Slugs, RunRecords) /\ RunsOK'
  BY <1>7, <1>8 DEF IInv, TypeOK, WorkOK, Partial, RunsOK
<1>10. StateOK' /\ TargetsDiffer' /\ AddIsNew'
  BY <1>1 DEF IInv, TypeOK, StateOK, TargetsDiffer, AddIsNew, ofSlots
<1>11. SlotsOK'
  BY <1>1, UntouchedSlots DEF IInv, ofSlots
<1> QED
  BY <1>5, <1>6, <1>9, <1>10, <1>11 DEF After, WorkOK

-----------------------------------------------------------------------------
(* What is queued, and what is done. *)

LEMMA StartRecord ==
    ASSUME NEW r \in Repos, NEW t \in Trees, NEW p \in Playbooks, NEW d \in Definitions,
           NEW n \in Nat, NEW b \in BOOLEAN, NEW l \in BOOLEAN,
           NEW o, o = [op |-> "start", repo |-> r, tree |-> t, playbook |-> p, def |-> d,
                       slot |-> n, boot |-> b, lost |-> l, across |-> FALSE]
    PROVE  /\ o \in Operations /\ o.op = "start" /\ o.repo = r /\ o.tree = t /\ o.playbook = p
           /\ o.def = d /\ o.slot = n /\ o.lost = l
BY DEF Operations, Starts

LEMMA OtherRecord ==
    ASSUME NEW r \in Repos, NEW t \in Trees, NEW op \in {"stop", "remove"},
           NEW o, o = [op |-> op, repo |-> r, tree |-> t, boot |-> FALSE]
    PROVE  o \in Operations /\ o.op = op
BY DEF Operations, Others

\* An operation that is right joins those that are.
LEMMA JoinedQueue ==
    ASSUME WorkOK, QueueOK, NEW s \in Slugs, NEW o \in Operations, Enqueue(s, o),
           OperationOK(s, o)', \A r : Keeps(r)
    PROVE  Partial(queue', Slugs, Waits) /\ QueueOK'
<1>1. /\ Partial(queue', Slugs, Waits)
      /\ \A r \in DOMAIN queue' : \A i \in 1..Len(queue'[r]) :
            \/ r = s /\ queue'[r][i] = o
            \/ r \in DOMAIN queue /\ \E j \in 1..Len(queue[r]) : queue'[r][i] = queue[r][j]
  BY EnqueuedIs
<1>2. ASSUME NEW r \in DOMAIN queue', NEW i \in 1..Len(queue'[r])
      PROVE  OperationOK(r, queue[r][i])'
  <2>1. CASE r = s /\ queue'[r][i] = o
    BY <2>1 DEF OperationOK, Configured, Outdated, Resolved
  <2>2. ASSUME r \in DOMAIN queue, NEW j \in 1..Len(queue[r]), queue'[r][i] = queue[r][j]
        PROVE  OperationOK(r, queue[r][i])'
    <3>1. PICK v : v = queue[r][j]
      OBVIOUS
    <3>2. OperationOK(r, v)
      BY <2>2, <3>1 DEF QueueOK
    <3>3. OperationOK(r, v)'
      BY <3>2, KeptOperation
    <3> QED
      BY <2>2, <3>1, <3>3 DEF OperationOK, Configured, Outdated, Resolved
  <2> QED
    BY <1>1, <2>1, <2>2
<1> QED
  BY <1>1, <1>2 DEF QueueOK

LEMMA RunStopStep ==
    ASSUME IInv, NEW x \in targets, NEW op \in {"stop", "remove"}, RunStop(x, op)
    PROVE  After
<1> USE DEF RunStop, stateFile, userVars, history, ofSlots, ofEdits
<1>1. \A s : Keeps(s)
  BY UnwrittenKeeps
<1>2. x \in TargetRecords /\ x.slug \in Slugs /\ x.tree \in Trees /\ x.repo \in Repos
  BY DEF IInv, TypeOK, StateOK, TargetRecords
<1>3. PICK o : o = [op |-> op, repo |-> x.repo, tree |-> x.tree, boot |-> FALSE]
  OBVIOUS
<1>4. o \in Operations /\ o.op = op
  BY <1>2, <1>3, OtherRecord
<1>5. Enqueue(x.slug, o)
  BY <1>3
<1>6. OperationOK(x.slug, o)'
  BY <1>4 DEF OperationOK
<1>7. Partial(queue', Slugs, Waits) /\ QueueOK'
  BY <1>1, <1>2, <1>4, <1>5, <1>6, JoinedQueue DEF IInv, TypeOK
<1>8. RunsOK'
  BY <1>1, KeptRuns DEF IInv
<1>9. StateOK' /\ TargetsDiffer' /\ AddIsNew'
  BY DEF IInv, TypeOK, StateOK, TargetsDiffer, AddIsNew
<1>10. SlotsOK'
  BY UntouchedSlots DEF IInv
<1> QED
  BY <1>7, <1>8, <1>9, <1>10 DEF After, IInv, TypeOK, WorkOK

\* A start knows the slot of its target's checkout and what is on disk; one that is
\* refused leaves the queues alone.
LEMMA StartTargetStep ==
    ASSUME IInv, NEW x \in TargetRecords, NEW atBoot \in BOOLEAN, StartTarget(x, atBoot),
           UNCHANGED <<userVars, targets, config, runs, doing, history>>
    PROVE  /\ \A s : Keeps(s)
           /\ Partial(queue', Slugs, Waits) /\ QueueOK'
           /\ Partial(slots', Trees, Nat) /\ Partial(repoIndex', Trees, Repos) /\ SlotsOK'
<1> USE DEF userVars, history, ofSlots, ofEdits
<1>1. /\ x.slug \in Slugs /\ x.repo \in Repos /\ x.tree \in Trees /\ x.playbook \in Playbooks
      /\ doing = Idle /\ PlanSlot(x.repo, x.tree)
  BY DEF TargetRecords, StartTarget
<1>2. /\ SlotsGrow /\ SlotsOK' /\ x.tree \in DOMAIN slots'
      /\ Partial(slots', Trees, Nat) /\ Partial(repoIndex', Trees, Repos)
  BY <1>1, Planned DEF IInv, TypeOK
<1>3. \A s : Keeps(s)
  BY <1>2, GrownKeeps DEF IInv
<1>4. PICK def \in MaybeDefined : def = Resolved(x.repo, x.tree, x.playbook)
  BY <1>1, ResolvedType DEF IInv, TypeOK
<1>5. CASE x.tree \notin present \/ def = NoDefinition
  <2>1. UNCHANGED queue
    BY <1>4, <1>5 DEF StartTarget
  <2>2. QueueOK'
    BY <1>3, <2>1, KeptQueue DEF IInv
  <2> QED
    BY <1>2, <1>3, <2>1, <2>2 DEF IInv, TypeOK, WorkOK
<1>6. CASE ~(x.tree \notin present \/ def = NoDefinition)
  <2>1. def \in Definitions
    BY <1>6 DEF MaybeDefined
  <2>2. PICK n \in Nat : n = slots'[x.tree]
    BY <1>2 DEF Partial
  <2>3. PICK lost \in BOOLEAN : lost = ~\E y \in targets : Same(x, y)
    OBVIOUS
  <2>4. PICK o : o = [op |-> "start", repo |-> x.repo, tree |-> x.tree, playbook |-> x.playbook,
                      def |-> def, slot |-> n, boot |-> atBoot, lost |-> lost, across |-> FALSE]
    OBVIOUS
  <2>5. /\ o \in Operations /\ o.op = "start"
        /\ o.repo = x.repo /\ o.tree = x.tree /\ o.playbook = x.playbook
        /\ o.def = def /\ o.slot = n /\ o.lost = lost
    BY <1>1, <2>1, <2>4, StartRecord
  <2>6. Enqueue(x.slug, o)
    <3>1. RunEnv(def, slots'[x.tree])["MUX_SLOT"] = n
      BY <2>2, SlotOfRun
    <3> QED
      BY <1>4, <1>6, <2>3, <2>4, <3>1 DEF StartTarget
  <2>7. OperationOK(x.slug, o)'
    <3>1. ~o.lost => Configured(x.slug, o)' /\ o.slot = slots'[o.tree]
      BY <2>2, <2>3, <2>5 DEF Configured, Same
    <3>2. ~Outdated(o)'
      BY <1>4, <2>5 DEF Outdated, Resolved
    <3> QED
      BY <2>5, <3>1, <3>2 DEF OperationOK
  <2>8. Partial(queue', Slugs, Waits) /\ QueueOK'
    BY <1>1, <1>3, <2>5, <2>6, <2>7, JoinedQueue DEF IInv, TypeOK
  <2> QED
    BY <1>2, <1>3, <2>8
<1> QED
  BY <1>5, <1>6

\* A start, whether a client or the daemon itself asks for it.
LEMMA StartStep ==
    ASSUME IInv, NEW x \in TargetRecords, NEW atBoot \in BOOLEAN, StartTarget(x, atBoot),
           UNCHANGED <<userVars, targets, config, runs, doing, history>>, boot' \subseteq boot
    PROVE  After
<1>1. /\ \A s : Keeps(s)
      /\ Partial(queue', Slugs, Waits) /\ QueueOK'
      /\ Partial(slots', Trees, Nat) /\ Partial(repoIndex', Trees, Repos) /\ SlotsOK'
  BY StartTargetStep
<1>2. RunsOK'
  BY <1>1, KeptRuns DEF IInv
<1>3. StateOK' /\ WorkOK'
  BY <1>1 DEF IInv, TypeOK, StateOK, WorkOK, history, ofSlots, ofEdits
<1>4. TargetsDiffer' /\ AddIsNew'
  BY DEF IInv, TargetsDiffer, AddIsNew, StartTarget, Idle
<1> QED
  BY <1>1, <1>2, <1>3, <1>4 DEF After

LEMMA RunStartStep ==
    ASSUME IInv, NEW x \in targets, RunStart(x)
    PROVE  After
<1>1. x \in TargetRecords /\ StartTarget(x, FALSE)
  BY DEF IInv, TypeOK, StateOK, RunStart
<1> QED
  BY <1>1, StartStep DEF RunStart

LEMMA AutostartStep ==
    ASSUME IInv, NEW x \in boot, Autostart(x)
    PROVE  After
<1>1. x \in TargetRecords /\ StartTarget(x, TRUE) /\ boot' \subseteq boot
  BY DEF IInv, TypeOK, StateOK, Autostart
<1> QED
  BY <1>1, StartStep DEF Autostart

\* The end of an operation that does not remove.
LEMMA DoneStep ==
    ASSUME IInv, NEW s \in DOMAIN queue, Started(s) \/ Stopped(s)
    PROVE  /\ \A r : Keeps(r)
           /\ StateOK' /\ TargetsDiffer' /\ AddIsNew' /\ SlotsOK'
           /\ Partial(queue', Slugs, Waits) /\ QueueOK'
<1>1. PICK o \in Operations : o = Head(queue[s])
  BY HeadIs DEF IInv, TypeOK
<1>2. /\ doing = Idle /\ queue' = Rest(s) /\ PlanSlot(o.repo, o.tree)
      /\ UNCHANGED <<file, present, committed, targets, boot, doing,
                     strayed, split, edited, unread, mine>>
  BY <1>1 DEF Started, Stopped, userVars, history, ofSlots, ofEdits
<1>3. o.repo \in Repos /\ o.tree \in Trees
  BY DEF Operations, Starts, Others
<1>4. /\ \A r : Keeps(r)
      /\ SlotsOK' /\ Partial(slots', Trees, Nat) /\ Partial(repoIndex', Trees, Repos)
  <2>1. /\ SlotsGrow /\ SlotsOK'
        /\ Partial(slots', Trees, Nat) /\ Partial(repoIndex', Trees, Repos)
    BY <1>2, <1>3, Planned DEF IInv, TypeOK
  <2> QED
    BY <1>2, <2>1, GrownKeeps DEF IInv
<1>5. StateOK'
  BY <1>2, <1>4 DEF IInv, TypeOK, StateOK
<1>6. TargetsDiffer' /\ AddIsNew'
  BY <1>2 DEF IInv, TargetsDiffer, AddIsNew, Idle
<1>7. /\ Partial(queue', Slugs, Waits)
      /\ \A r \in DOMAIN queue' : \A i \in 1..Len(queue'[r]) :
            r \in DOMAIN queue /\ \E j \in 1..Len(queue[r]) : queue'[r][i] = queue[r][j]
  BY <1>2, RestIs DEF IInv, TypeOK
<1>8. QueueOK'
  BY <1>4, <1>7, KeptQueue DEF IInv
<1> QED
  BY <1>4, <1>5, <1>6, <1>7, <1>8

LEMMA RunRecord ==
    ASSUME NEW o \in Operations, o.op = "start",
           NEW r, r = [repo |-> o.repo, tree |-> o.tree, playbook |-> o.playbook, def |-> o.def,
                       slot |-> o.slot, lost |-> o.lost, across |-> o.across, stale |-> FALSE]
    PROVE  /\ r \in RunRecords /\ r.repo = o.repo /\ r.tree = o.tree
           /\ r.playbook = o.playbook /\ r.def = o.def
           /\ r.slot = o.slot /\ r.lost = o.lost /\ r.across = o.across
<1>1. o \in Starts
  BY DEF Operations, Others
<1> QED
  BY <1>1 DEF Starts, RunRecords

LEMMA StartedStep ==
    ASSUME IInv, NEW s \in DOMAIN queue, Started(s)
    PROVE  After
<1>1. PICK o \in Operations : o = Head(queue[s]) /\ o = queue[s][1] /\ s \in Slugs
  BY HeadIs DEF IInv, TypeOK
<1>2. PICK r : r = [repo |-> o.repo, tree |-> o.tree, playbook |-> o.playbook, def |-> o.def,
                    slot |-> o.slot, lost |-> o.lost, across |-> o.across, stale |-> FALSE]
  OBVIOUS
<1>3. o.op = "start" /\ runs' = Put(runs, s, r)
  BY <1>1, <1>2 DEF Started
<1>4. /\ r \in RunRecords /\ r.repo = o.repo /\ r.tree = o.tree
      /\ r.playbook = o.playbook /\ r.def = o.def
      /\ r.slot = o.slot /\ r.lost = o.lost /\ r.across = o.across
  BY <1>2, <1>3, RunRecord
<1>5. /\ \A v : Keeps(v)
      /\ StateOK' /\ TargetsDiffer' /\ AddIsNew' /\ SlotsOK'
      /\ Partial(queue', Slugs, Waits) /\ QueueOK'
  BY DoneStep
<1>6. Partial(runs', Slugs, RunRecords)
  BY <1>1, <1>3, <1>4, PutPartial DEF IInv, TypeOK, WorkOK
<1>7. OperationOK(s, o)'
  <2>1. OperationOK(s, o)
    BY <1>1, HeadIs DEF IInv, TypeOK, QueueOK
  <2> QED
    BY <1>5, <2>1, KeptOperation
<1>8. RunOK(s, r)'
  BY <1>3, <1>4, <1>7 DEF OperationOK, RunOK, Configured, Outdated, Resolved
<1>9. ASSUME NEW v \in DOMAIN runs' PROVE RunOK(v, runs[v])'
  <2>1. CASE v = s
    <3>1. runs'[v] = r
      BY <1>3, <2>1 DEF Put
    <3> QED
      BY <1>8, <2>1, <3>1 DEF RunOK, Configured, Outdated, Resolved
  <2>2. CASE v # s
    <3>1. PICK w : w = runs[v]
      OBVIOUS
    <3>2. v \in DOMAIN runs /\ runs'[v] = w
      BY <1>3, <2>2, <3>1 DEF Put
    <3>3. RunOK(v, w)
      BY <3>1, <3>2 DEF IInv, RunsOK
    <3>4. RunOK(v, w)'
      BY <1>5, <3>3, KeptRun
    <3> QED
      BY <3>2, <3>4 DEF RunOK, Configured, Outdated, Resolved
  <2> QED
    BY <2>1, <2>2
<1> QED
  BY <1>5, <1>6, <1>9 DEF After, WorkOK, RunsOK

\* Runs that are dropped leave the others right.
LEMMA DroppedRuns ==
    ASSUME RunsOK, Partial(runs, Slugs, RunRecords), NEW s, runs' = Drop(runs, s),
           \A r : r # s => Keeps(r)
    PROVE  Partial(runs', Slugs, RunRecords) /\ RunsOK'
<1>1. ASSUME NEW v \in DOMAIN runs' PROVE RunOK(v, runs[v])'
  <2>1. PICK w : w = runs[v]
    OBVIOUS
  <2>2. v \in DOMAIN runs /\ v # s /\ runs'[v] = w
    BY <2>1 DEF Drop
  <2>3. RunOK(v, w)
    BY <2>1, <2>2 DEF RunsOK
  <2>4. RunOK(v, w)'
    BY <2>2, <2>3, KeptRun
  <2> QED
    BY <2>2, <2>4 DEF RunOK, Configured, Outdated, Resolved
<1> QED
  BY <1>1, DropPartial DEF RunsOK

LEMMA StoppedStep ==
    ASSUME IInv, NEW s \in DOMAIN queue, Stopped(s)
    PROVE  After
<1>1. /\ \A v : Keeps(v)
      /\ StateOK' /\ TargetsDiffer' /\ AddIsNew' /\ SlotsOK'
      /\ Partial(queue', Slugs, Waits) /\ QueueOK'
  BY DoneStep
<1>2. Partial(runs', Slugs, RunRecords) /\ RunsOK'
  BY <1>1, DroppedRuns DEF Stopped, IInv, TypeOK, WorkOK
<1> QED
  BY <1>1, <1>2 DEF After, WorkOK

\* What a removal does to what still waits for its target.
MarkLost(o) == IF o.op = "start" THEN [o EXCEPT !.lost = TRUE] ELSE o

LEMMA LostOperation ==
    ASSUME NEW o \in Operations, NEW s, \A x \in targets' : x.slug # s,
           NEW v, v = MarkLost(o)
    PROVE  v \in Operations /\ OperationOK(s, v)'
<1>1. CASE o.op = "start"
  BY <1>1, MarkedLost DEF MarkLost, OperationOK
<1>2. CASE o.op # "start"
  BY <1>2 DEF MarkLost, OperationOK
<1> QED
  BY <1>1, <1>2

LEMMA RemovedStep ==
    ASSUME IInv, NEW s \in DOMAIN queue, Removed(s)
    PROVE  After
<1>1. PICK o \in Operations : o = Head(queue[s]) /\ o = queue[s][1] /\ s \in Slugs
  BY HeadIs DEF IInv, TypeOK
<1>2. /\ doing = Idle /\ o.op = "remove" /\ runs' = Drop(runs, s)
      /\ targets' = {x \in targets : x.slug # s}
      /\ \/ (\A x \in targets : x.slug # s) /\ doing' = Idle
         \/ \E x \in targets : x.slug = s /\ doing' = [op |-> "release", tree |-> x.tree]
      /\ UNCHANGED <<file, present, committed, slots, repoIndex, boot,
                     strayed, split, edited, unread, mine>>
  BY <1>1 DEF Removed, Collides, userVars, history, ofSlots, ofEdits
<1>3. /\ DOMAIN queue' = DOMAIN Rest(s)
      /\ \A r \in DOMAIN queue' \ {s} : queue'[r] = queue[r]
      /\ s \in DOMAIN queue' =>
            queue'[s] = [i \in DOMAIN Rest(s)[s] |-> MarkLost(Rest(s)[s][i])]
      /\ queue' = [r \in DOMAIN queue' |-> queue'[r]]
  BY DEF Removed, MarkLost
<1>4. /\ Partial(Rest(s), Slugs, Waits)
      /\ DOMAIN Rest(s) \subseteq DOMAIN queue
      /\ \A r \in DOMAIN Rest(s) \ {s} : Rest(s)[r] = queue[r]
  BY RestIs DEF IInv, TypeOK
<1>5. \A r : r # s => Keeps(r)
  BY <1>2 DEF Keeps, Same
<1>6. \A x \in targets' : x.slug # s
  BY <1>2
<1>7. ASSUME s \in DOMAIN queue'
      PROVE  /\ queue'[s] \in Waits
             /\ \A i \in 1..Len(queue'[s]) : OperationOK(s, queue[s][i])'
  <2>1. PICK q \in Waits : q = Rest(s)[s]
    BY <1>3, <1>4, <1>7 DEF Partial
  <2>2. DOMAIN q = 1..Len(q) /\ \A i \in 1..Len(q) : q[i] \in Operations
    BY DEF Waits
  <2>3. queue'[s] = [i \in 1..Len(q) |-> MarkLost(q[i])]
    BY <1>3, <1>7, <2>1, <2>2
  <2>4. ASSUME NEW i \in 1..Len(q)
        PROVE  queue'[s][i] \in Operations /\ OperationOK(s, queue[s][i])'
    <3>1. PICK v : v = MarkLost(q[i])
      OBVIOUS
    <3>2. v \in Operations /\ OperationOK(s, v)'
      BY <1>6, <2>2, <3>1, LostOperation
    <3>3. queue'[s][i] = v
      BY <2>3, <3>1
    <3> QED
      BY <3>2, <3>3 DEF OperationOK, Configured, Outdated, Resolved
  <2>5. queue'[s] \in [1..Len(q) -> Operations]
    BY <2>3, <2>4
  <2>6. queue'[s] \in Waits /\ Len(queue'[s]) = Len(q)
    BY <2>5, MappedWait
  <2> QED
    BY <2>4, <2>6
<1>8. ASSUME NEW r \in DOMAIN queue', r # s
      PROVE  /\ queue'[r] \in Waits
             /\ \A i \in 1..Len(queue'[r]) : OperationOK(r, queue[r][i])'
  <2>1. r \in DOMAIN queue /\ queue'[r] = queue[r] /\ queue'[r] \in Waits
    BY <1>3, <1>4, <1>8 DEF IInv, TypeOK, WorkOK, Partial
  <2>2. ASSUME NEW i \in 1..Len(queue'[r]) PROVE OperationOK(r, queue[r][i])'
    <3>1. PICK v : v = queue[r][i]
      OBVIOUS
    <3>2. OperationOK(r, v)
      BY <2>1, <3>1 DEF IInv, QueueOK
    <3>3. OperationOK(r, v)'
      BY <1>5, <1>8, <3>2, KeptOperation
    <3> QED
      BY <2>1, <3>1, <3>3 DEF OperationOK, Configured, Outdated, Resolved
  <2> QED
    BY <2>1, <2>2
<1>9. Partial(queue', Slugs, Waits)
  BY <1>3, <1>4, <1>7, <1>8 DEF Partial
<1>10. QueueOK'
  BY <1>7, <1>8 DEF QueueOK
<1>11. Partial(runs', Slugs, RunRecords) /\ RunsOK'
  BY <1>2, <1>5, DroppedRuns DEF IInv, TypeOK, WorkOK
<1>12. StateOK'
  <2>1. doing' \in Doings
    BY <1>2, DoingRelease DEF IInv, TypeOK, StateOK, TargetRecords, Doings
  <2> QED
    BY <1>2, <2>1 DEF IInv, TypeOK, StateOK
<1>13. TargetsDiffer' /\ AddIsNew'
  BY <1>2 DEF IInv, TargetsDiffer, AddIsNew, Idle
<1>14. SlotsOK'
  <2>1. \A t : Paths(t)' \subseteq Paths(t)
    BY <1>2, PathsAre, PathsAreThen
  <2>2. Sound' = Sound
    BY <1>2 DEF Sound
  <2>3. ZeroIsMain' /\ Agree' /\ Apart'
    BY <1>2, <2>1, <2>2, LeftApart DEF IInv, SlotsOK
  <2>4. TargetsHaveSlots'
    BY <1>2 DEF IInv, SlotsOK, TargetsHaveSlots
  <2>5. ASSUME NEW t \in DOMAIN slots \ strayed
        PROVE  Paths(t)' # {} \/ (doing'.op = "release" /\ doing'.tree = t)
    <3>1. PICK r : r \in Paths(t)
      BY <1>2 DEF IInv, SlotsOK, SlotsKnown, Idle
    <3>2. CASE r \in Paths(t)'
      BY <3>2
    <3>3. CASE r \notin Paths(t)'
      <4>1. PICK x \in targets : x.tree = t /\ x.slug = s
        BY <1>2, <3>1, <3>3, PathsAre, PathsAreThen
      <4>2. PICK y \in targets : y.slug = s /\ doing' = [op |-> "release", tree |-> y.tree]
        BY <1>2, <4>1
      <4>3. y = x
        BY <4>1, <4>2 DEF IInv, TargetsDiffer
      <4> QED
        BY <4>1, <4>2, <4>3
    <3> QED
      BY <3>2, <3>3
  <2> QED
    BY <1>2, <2>3, <2>4, <2>5 DEF SlotsOK, SlotsKnown
<1> QED
  BY <1>9, <1>10, <1>11, <1>12, <1>13, <1>14 DEF After, WorkOK

-----------------------------------------------------------------------------
(* The theorems. *)

LEMMA InitIInv == Init => IInv
<1> SUFFICES ASSUME Init PROVE IInv
  OBVIOUS
<1> USE DEF Init
<1>1. FilesOK
  BY FilesInit
<1>2. StateOK
  BY EmptyPartial DEF StateOK, Doings, Written
<1>3. WorkOK
  BY EmptyPartial DEF WorkOK
<1>4. TargetsDiffer /\ AddIsNew
  BY DEF TargetsDiffer, AddIsNew, Idle
<1>5. DOMAIN slots = {} /\ DOMAIN queue = {} /\ DOMAIN runs = {}
  OBVIOUS
<1>6. SlotsOK
  BY <1>5 DEF SlotsOK, Sound, ZeroIsMain, Agree, Apart, SlotsKnown, TargetsHaveSlots
<1>7. QueueOK /\ RunsOK
  BY <1>5 DEF QueueOK, RunsOK
<1> QED
  BY <1>1, <1>2, <1>3, <1>4, <1>6, <1>7 DEF IInv, TypeOK

LEMMA StepAfter ==
    ASSUME IInv, Next
    PROVE  After
<1> USE DEF memory, userVars
<1>1. ASSUME NEW r \in Repos, NEW t \in Trees, NEW p \in Playbooks, TargetAdd(r, t, p) PROVE After
  BY <1>1, TargetAddStep
<1>2. ASSUME NEW x \in targets, TargetUpdate(x) PROVE After
  BY <1>2, TargetUpdateStep
<1>3. ASSUME NEW x \in targets, RunStart(x) PROVE After
  BY <1>3, RunStartStep
<1>4. ASSUME NEW x \in targets, RunStop(x, "stop") \/ RunStop(x, "remove") PROVE After
  BY <1>4, RunStopStep
<1>5. ASSUME NEW x \in boot, Autostart(x) PROVE After
  BY <1>5, AutostartStep
<1>6. ASSUME NEW s \in DOMAIN queue, Started(s) \/ Stopped(s) \/ Removed(s) PROVE After
  BY <1>6, StartedStep, StoppedStep, RemovedStep
<1>7. ASSUME NEW r \in Repos, RepoAdd(r) \/ RepoRemove(r) PROVE After
  BY <1>7, EditedStep, WrittenType DEF RepoAdd, RepoRemove, WriteRepos
<1>8. CASE EditConfig \/ EditCommitted \/ SwitchBranch \/ MoveTree
  <2>1. unread' \in BOOLEAN /\ mine' \in Written
    BY <1>8, WrittenType DEF EditCommitted, SwitchBranch, MoveTree, IInv, TypeOK, StateOK
  <2> QED
    BY <1>8, <2>1, EditedStep DEF EditConfig, EditCommitted, SwitchBranch, MoveTree, Edit
<1>9. CASE TargetAdded \/ ReleaseSlot \/ ConfigReload \/ Restart
  BY <1>9, TargetAddedStep, ReleaseSlotStep, ConfigReloadStep, RestartStep
<1> QED
  BY <1>1, <1>2, <1>3, <1>4, <1>5, <1>6, <1>7, <1>8, <1>9 DEF Next

LEMMA StepIInv == IInv /\ [Next]_vars => IInv'
<1> SUFFICES ASSUME IInv, [Next]_vars PROVE IInv'
  OBVIOUS
<1>1. CASE Next
  BY <1>1, StepAfter, FilesStep DEF After, IInv, TypeOK
<1>2. CASE UNCHANGED vars
  <2> USE <1>2 DEF vars, userVars, stateFile, memory, history, ofSlots, ofEdits
  <2>1. TypeOK' /\ TargetsDiffer' /\ AddIsNew'
    BY DEF IInv, TypeOK, FilesOK, StateOK, WorkOK, TargetsDiffer, AddIsNew
  <2>2. SlotsOK'
    BY UntouchedSlots DEF IInv
  <2>3. \A s : Keeps(s)
    BY UnwrittenKeeps
  <2>4. QueueOK' /\ RunsOK'
    BY <2>3, KeptQueue, KeptRuns DEF IInv
  <2> QED
    BY <2>1, <2>2, <2>3, <2>4 DEF IInv
<1> QED
  BY <1>1, <1>2

\* The state file, the memory of repositories, the queues and the runs agree, at
\* whatever moment the daemon is between the writes of src/daemon/methods.ts.
THEOREM Invariance == Spec => []IInv
BY InitIInv, StepIInv, PTL DEF Spec

\* No slug and no playbook of a checkout is given twice, and no two checkouts that
\* are known by one path of a repository share a slot, on record or in their runs,
\* whatever paths clients send (allocateSlot of src/state/slots.ts, target.add and
\* target.remove), but for those excepted in SlotsApart.
THEOREM SlotsNeverMeet == Spec => []SlotsApart
<1>1. IInv => SlotsApart
  <2> SUFFICES ASSUME IInv PROVE SlotsApart
    OBVIOUS
  <2>1. ASSUME NEW t \in Sound, NEW u \in Sound, t # u, slots[t] = slots[u],
               NEW r \in Paths(t) \cap Paths(u)
        PROVE  slots[t] = 0 /\ {t, u} \subseteq MainFor(r)
    <3>1. slots[t] = 0
      BY <2>1 DEF IInv, SlotsOK, Apart
    <3> QED
      BY <2>1, <3>1 DEF IInv, SlotsOK, ZeroIsMain
  <2> QED
    BY <2>1 DEF IInv, TargetsDiffer, Sound, RunsOK, RunOK, SlotsApart
<1> QED
  BY <1>1, Invariance, PTL

\* Once the daemon has reloaded, whatever runs other than what is on disk says so
\* (configReload of src/daemon/methods.ts).
THEOREM ReloadsMarkWhatIsOld == Spec => []OutdatedIsMarked
<1>1. IInv => OutdatedIsMarked
  BY DEF IInv, RunsOK, RunOK, Outdated, OutdatedIsMarked
<1> QED
  BY <1>1, Invariance, PTL

\* Neither a repository's registration nor its removal, made from however old a
\* config in memory, costs the user what was last written into the config, and the
\* daemon goes by the file it has read (mutateGlobalConfig and reloadConfig of
\* src/daemon/methods.ts).
THEOREM WritesKeepTheRest == Spec => []EditsSurvive
<1>1. Init => EditsSurvive
  BY DEF Init, EditsSurvive, Nothing
<1>2. IInv /\ EditsSurvive /\ [Next]_vars => EditsSurvive'
  <2> SUFFICES ASSUME IInv, EditsSurvive, [Next]_vars PROVE EditsSurvive'
    OBVIOUS
  <2> USE DEF EditsSurvive
  <2>1. file \in Files /\ Partial(file.repos, Repos, [Playbooks -> MaybeDefined])
    BY RegistrationsAre DEF IInv, TypeOK, FilesOK, Files
  <2>2. ASSUME NEW r \in Repos, RepoAdd(r) \/ RepoRemove(r) PROVE EditsSurvive'
    <3>1. config' = Loaded(file')
      BY <2>2 DEF RepoAdd, RepoRemove, WriteRepos
    <3>2. CASE ~file.json
      BY <2>2, <3>1, <3>2 DEF RepoAdd, RepoRemove, Nothing
    <3>3. CASE file.json
      <4>1. Raw = file
        BY <3>3 DEF Raw
      <4>2. CASE RepoAdd(r)
        <5>1. /\ mine' = mine
              /\ file' = [file EXCEPT !.repos =
                            IF r \in DOMAIN file.repos THEN file.repos
                            ELSE Put(file.repos, r, [p \in Playbooks |-> NoDefinition])]
          BY <3>3, <4>1, <4>2 DEF RepoAdd, WriteRepos
        <5>2. /\ file'.env = file.env
              /\ \A q \in DOMAIN file.repos :
                    q \in DOMAIN file'.repos /\ file'.repos[q] = file.repos[q]
          BY <2>1, <5>1 DEF Files, Put
        <5> QED
          BY <3>1, <5>1, <5>2
      <4>3. CASE RepoRemove(r)
        <5>1. /\ mine' = IF ~(mine.kind = "playbook" /\ mine.repo = r) THEN mine ELSE Nothing
              /\ file' = [file EXCEPT !.repos = Drop(file.repos, r)]
          BY <3>3, <4>1, <4>3 DEF RepoRemove, WriteRepos
        <5>2. /\ file'.env = file.env
              /\ \A q \in DOMAIN file.repos \ {r} :
                    q \in DOMAIN file'.repos /\ file'.repos[q] = file.repos[q]
          BY <2>1, <5>1 DEF Files, Drop
        <5> QED
          BY <3>1, <5>1, <5>2 DEF Nothing
      <4> QED
        BY <2>2, <4>2, <4>3
    <3> QED
      BY <3>2, <3>3
  <2>3. CASE EditConfig
    <3>1. unread'
      BY <2>3 DEF EditConfig
    <3>2. ASSUME NEW r \in DOMAIN file.repos, NEW p \in Playbooks, NEW d \in Definitions,
                 file' = [file EXCEPT !.repos[r][p] = d],
                 mine' = [kind |-> "playbook", repo |-> r, playbook |-> p, def |-> d]
          PROVE  EditsSurvive'
      <4>1. file'.repos = [file.repos EXCEPT ![r][p] = d]
        BY <2>1, <3>2 DEF Files
      <4>2. r \in DOMAIN file'.repos /\ file'.repos[r][p] = d
        BY <2>1, <4>1 DEF Partial
      <4> QED
        BY <3>1, <3>2, <4>2
    <3>3. ASSUME NEW e \in TargetEnvs, file' = [file EXCEPT !.env = e],
                 mine' = [kind |-> "env", env |-> e]
          PROVE  EditsSurvive'
      BY <2>1, <3>1, <3>3 DEF Files
    <3>4. ASSUME file' = [file EXCEPT !.json = ~@] \/ file' = [file EXCEPT !.valid = ~@],
                 mine' = mine
          PROVE  EditsSurvive'
      <4>1. file'.repos = file.repos /\ file'.env = file.env
        BY <2>1, <3>4 DEF Files
      <4> QED
        BY <3>1, <3>4, <4>1
    <3> QED
      BY <2>3, <3>2, <3>3, <3>4 DEF EditConfig
  <2>4. CASE ConfigReload \/ Restart
    BY <2>4 DEF ConfigReload, Restart, userVars
  <2>5. CASE UNCHANGED <<file, config, unread, mine>>
    BY <2>5
  <2>6. CASE EditCommitted \/ SwitchBranch \/ MoveTree
    BY <2>5, <2>6 DEF EditCommitted, SwitchBranch, MoveTree, Edit, memory
  <2>7. Next => \/ UNCHANGED <<file, config, unread, mine>> \/ ConfigReload \/ Restart \/ EditConfig
                \/ EditCommitted \/ SwitchBranch \/ MoveTree
                \/ \E r \in Repos : RepoAdd(r) \/ RepoRemove(r)
    BY DEF Next, TargetAdd, TargetAdded, ReleaseSlot, TargetUpdate, RunStart, RunStop, Autostart,
           Started, Stopped, Removed, memory, userVars, history, ofEdits
  <2> QED
    BY <2>2, <2>3, <2>4, <2>5, <2>6, <2>7 DEF vars, userVars, memory, history, ofEdits
<1> QED
  BY <1>1, <1>2, Invariance, PTL DEF Spec

=============================================================================
