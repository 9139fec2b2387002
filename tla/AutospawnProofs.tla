-------------------------- MODULE AutospawnProofs --------------------------
(***************************************************************************)
(* One daemon, and no lost orphan, for every number of clients, daemons,    *)
(* attempts at the lock, crashes and requests to stop.                      *)
(*                                                                          *)
(* The two properties rest on invariants that do not need one another:      *)
(* OrphanInv follows a child from its daemon's death through the next       *)
(* daemon's reap, and CalmInv says that the lock file is a mutual exclusion *)
(* whose owner guards the boot of the daemon it spawned.                    *)
(***************************************************************************)
EXTENDS Autospawn, FiniteSetTheorems, TLAPS

\* The places a client can be at.
Places ==
    {"start", "acquire", "inspect", "remove", "wait", "waitLock", "connected", "failed",
     "awaitExit", "killed"} \cup Holding

Locks == [owner : Clients \cup {"nobody", "past"}, pid : BOOLEAN, aged : BOOLEAN]

TypeOK ==
    /\ windows \in BOOLEAN
    /\ phase \in [Daemons -> Phases]
    /\ file \in Daemons \cup {NoFile}
    /\ kid \in [Daemons -> {"none", "up", "gone"}]
    /\ records \in SUBSET Daemons
    /\ doomed \in [Daemons -> SUBSET Daemons]
    /\ spared \in SUBSET Daemons
    /\ overlap \in BOOLEAN
    /\ crashes \in 0..MaxCrashes
    /\ stops \in 0..MaxStops
    /\ at \in [Clients -> Places]
    /\ lock \in Locks
    /\ tries \in [Clients -> 1..LockAttempts]
    /\ calm \in BOOLEAN

-----------------------------------------------------------------------------
(* What OrphansStayOnRecord needs. *)

\* Without an overlap one daemon runs, or none.
Alone == \A d, e \in Running : d = e

\* A child that is up is on record or known to be lost, whether or not its daemon
\* lives; the reaper that is about to forget the records has seen to all of them.
ChildrenKnown == \A k \in Daemons : kid[k] = "up" => k \in records \cup spared

ReaperKnows(d) ==
    /\ phase[d] = "kill" => \A k \in Daemons : kid[k] = "up" => k \in doomed[d] \cup spared
    /\ phase[d] = "clear" => \A k \in Daemons : kid[k] = "up" => k \in spared

OrphanInv == ~overlap => Alone /\ ChildrenKnown /\ \A d \in Daemons : ReaperKnows(d)

-----------------------------------------------------------------------------
(* What OneDaemonWhenCalm needs. *)

\* Nobody has been killed, is late or is stopping.
AllWell == \A c \in Clients : at[c] \notin {"killed", "pollFailed", "releaseFailed", "remove"}

\* Whoever is between opening the lock and releasing it owns the lock, which is
\* never taken for a stale one.
LockIsExclusive ==
    /\ \A c \in Clients : at[c] \in Holding => lock.owner = c
    /\ lock # NoLock => lock.owner \in Clients /\ ~lock.aged

\* The daemons spawned so far are one that boots, guarded by the owner of the
\* lock, or one that answers.
BootGuarded ==
    /\ Alone
    /\ \A d \in Daemons : phase[d] \notin {"stopping", "closing"}
    /\ \A d \in Daemons : phase[d] \in Booting => \E c \in Clients : at[c] = "poll"
    /\ \A d \in Daemons : phase[d] = "up" => file = d
    /\ \A d \in Daemons : phase[d] = "dead" => d = 1

\* The socket path is as the daemon that boots has found it.
PathIsSteady ==
    /\ windows /\ file # NoFile => phase[file] = "up"
    /\ \A d \in Daemons : phase[d] = "unlink" => file # NoFile
    /\ \A d \in Daemons : phase[d] = "bind" => file = NoFile

CalmParts == AllWell /\ LockIsExclusive /\ BootGuarded /\ PathIsSteady

CalmInv == calm => CalmParts

IInv == TypeOK /\ OrphanInv /\ CalmInv
-----------------------------------------------------------------------------

LEMMA DaemonNumbers == Daemons \subseteq Nat \ {0} /\ 1 \in Daemons /\ IsFiniteSet(Daemons)
<1>1. IsFiniteSet(Daemons) /\ Daemons # {} /\ Daemons = 1..Cardinality(Daemons)
  BY DaemonBootAssumption
<1>2. Cardinality(Daemons) \in Nat
  BY <1>1, FS_CardinalityType
<1> QED
  BY <1>1, <1>2

\* The counters stay within their bounds.
LEMMA CountsUp ==
    /\ crashes \in 0..MaxCrashes /\ crashes < MaxCrashes => crashes + 1 \in 0..MaxCrashes
    /\ stops \in 0..MaxStops /\ stops < MaxStops => stops + 1 \in 0..MaxStops
BY DaemonBootAssumption

LEMMA LockType ==
    ASSUME NEW o \in Clients \cup {"nobody", "past"}, NEW p \in BOOLEAN, NEW a \in BOOLEAN
    PROVE  [owner |-> o, pid |-> p, aged |-> a] \in Locks
BY DEF Locks

LEMMA TypeInit == Init => TypeOK
<1> SUFFICES ASSUME Init PROVE TypeOK
  OBVIOUS
<1>1. lock \in Locks
  <2>1. NoLock \in Locks
    BY LockType DEF NoLock
  <2> QED
    BY <2>1 DEF Init, Locks
<1>6. calm \in BOOLEAN
  BY DEF Init
<1>2. at \in [Clients -> Places] /\ tries \in [Clients -> 1..LockAttempts]
  BY AutospawnAssumption DEF Init, Places
<1>3. /\ windows \in BOOLEAN /\ overlap \in BOOLEAN
      /\ phase \in [Daemons -> Phases] /\ doomed \in [Daemons -> SUBSET Daemons]
      /\ kid \in [Daemons -> {"none", "up", "gone"}]
  BY DEF Init, DaemonInit, Phases
<1>4. /\ file \in Daemons \cup {NoFile}
      /\ records \in SUBSET Daemons /\ spared \in SUBSET Daemons
  BY DaemonNumbers DEF Init, DaemonInit
<1>5. crashes \in 0..MaxCrashes /\ stops \in 0..MaxStops
  BY DaemonBootAssumption DEF Init, DaemonInit
<1> QED
  BY <1>1, <1>2, <1>3, <1>4, <1>5, <1>6 DEF TypeOK

\* What a daemon does keeps the types of the daemons' variables.
LEMMA TypeDaemon ==
    ASSUME TypeOK, NEW d \in Daemons, DaemonStep(d) \/ StartChild(d) \/ ChildEnds(d),
           UNCHANGED <<crashes, clientVars>>
    PROVE  TypeOK'
<1> USE DEF TypeOK, clientVars, Phases, Booting, Serving, Goes, Places, Locks
<1>1. ASSUME FindOrphans(d) PROVE TypeOK'
  BY <1>1 DEF FindOrphans, Told
<1>2. ASSUME KillOrphans(d) PROVE TypeOK'
  BY <1>2 DEF KillOrphans
<1>3. ASSUME ClearChildren(d) PROVE TypeOK'
  BY <1>3 DEF ClearChildren
<1>4. ASSUME Probe(d) PROVE TypeOK'
  BY <1>4 DEF Probe
<1>5. ASSUME Unlink(d) PROVE TypeOK'
  BY <1>5 DEF Unlink
<1>6. ASSUME Bind(d) PROVE TypeOK'
  BY <1>6 DEF Bind
<1>7. ASSUME CloseServer(d) PROVE TypeOK'
  BY <1>7 DEF CloseServer, Released
<1>8. ASSUME Exit(d) PROVE TypeOK'
  BY <1>8 DEF Exit
<1>9. ASSUME StartChild(d) PROVE TypeOK'
  BY <1>9 DEF StartChild
<1>10. ASSUME ChildEnds(d) PROVE TypeOK'
  BY <1>10 DEF ChildEnds
<1> QED
  BY <1>1, <1>2, <1>3, <1>4, <1>5, <1>6, <1>7, <1>8, <1>9, <1>10 DEF DaemonStep, Reap

\* What a client does keeps the types.
LEMMA TypeClient ==
    ASSUME TypeOK, NEW c \in Clients,
           ClientStep(c) \/ HolderLate(c) \/ WaiterLate(c) \/ AskStop(c) \/ ClientKilled(c)
    PROVE  TypeOK'
<1>0. [owner |-> c, pid |-> FALSE, aged |-> FALSE] \in Locks
  BY LockType
<1> USE DEF TypeOK, daemonVars, Phases, Booting, Serving, Goes, Places, Holding, Locks,
            Moves, NoLock
<1>1. ASSUME TryConnect(c) PROVE TypeOK'
  BY <1>1 DEF TryConnect
<1>2. ASSUME OpenLock(c) PROVE TypeOK'
  <2>1. tries' \in [Clients -> 1..LockAttempts]
    BY <1>2, AutospawnAssumption DEF OpenLock
  <2>2. at' \in [Clients -> Places]
    BY <1>2 DEF OpenLock
  <2>3. lock' = lock \/ lock' = [owner |-> c, pid |-> FALSE, aged |-> FALSE]
    BY <1>2 DEF OpenLock
  <2>4. lock' \in Locks
    BY <2>3, <1>0
  <2> QED
    BY <1>2, <2>1, <2>2, <2>4 DEF OpenLock
<1>3. ASSUME WritePid(c) PROVE TypeOK'
  BY <1>3 DEF WritePid
<1>4. ASSUME InspectLock(c) PROVE TypeOK'
  BY <1>4, AutospawnAssumption DEF InspectLock, Stale
<1>5. ASSUME RemoveStale(c) PROVE TypeOK'
  BY <1>5, AutospawnAssumption DEF RemoveStale
<1>6. ASSUME RecheckFindsDaemon(c) PROVE TypeOK'
  BY <1>6 DEF RecheckFindsDaemon
<1>7. ASSUME SpawnDaemon(c) PROVE TypeOK'
  BY <1>7 DEF SpawnDaemon, Spawned, Unborn, Running
<1>8. ASSUME SpawnFails(c) PROVE TypeOK'
  BY <1>8 DEF SpawnFails
<1>9. ASSUME PollHolder(c) PROVE TypeOK'
  BY <1>9 DEF PollHolder
<1>10. ASSUME Release(c) PROVE TypeOK'
  BY <1>10 DEF Release
<1>11. ASSUME PollWaiter(c) PROVE TypeOK'
  BY <1>11 DEF PollWaiter
<1>12. ASSUME CheckLock(c) PROVE TypeOK'
  BY <1>12 DEF CheckLock
<1>13. ASSUME AwaitExit(c) PROVE TypeOK'
  BY <1>13 DEF AwaitExit
<1>14. ASSUME HolderLate(c) PROVE TypeOK'
  BY <1>14 DEF HolderLate
<1>15. ASSUME WaiterLate(c) PROVE TypeOK'
  BY <1>15 DEF WaiterLate
<1>16. ASSUME AskStop(c) PROVE TypeOK'
  <2>1. stops' \in 0..MaxStops /\ file \in Daemons
    BY <1>16, CountsUp DEF AskStop, AskedToStop, Up
  <2> QED
    BY <1>16, <2>1 DEF AskStop, AskedToStop
<1>17. ASSUME ClientKilled(c) PROVE TypeOK'
  BY <1>17, CountsUp DEF ClientKilled
<1> QED
  BY <1>1, <1>2, <1>3, <1>4, <1>5, <1>6, <1>7, <1>8, <1>9,
     <1>10, <1>11, <1>12, <1>13, <1>14, <1>15, <1>16, <1>17 DEF ClientStep

LEMMA TypeStep == TypeOK /\ [Next]_vars => TypeOK'
<1> SUFFICES ASSUME TypeOK, [Next]_vars PROVE TypeOK'
  OBVIOUS
<1>1. ASSUME NEW d \in Daemons, Crash(d) PROVE TypeOK'
  BY <1>1, CountsUp DEF Crash, DaemonKilled, Released, TypeOK, Phases, Goes
<1>2. ASSUME LockAges PROVE TypeOK'
  BY <1>2 DEF LockAges, TypeOK, daemonVars, Locks
<1>3. ASSUME UNCHANGED vars PROVE TypeOK'
  BY <1>3 DEF vars, daemonVars, clientVars, TypeOK
<1> QED
  BY <1>1, <1>2, <1>3, TypeClient, TypeDaemon DEF Next
-----------------------------------------------------------------------------
(* No orphan is lost. *)

LEMMA OrphanStart == Init => OrphanInv
BY DEF Init, DaemonInit, OrphanInv, Alone, Running, ChildrenKnown, ReaperKnows

\* A daemon that leaves its place for another one, without touching the children
\* and the records.
LEMMA OrphanMoves ==
    ASSUME TypeOK, OrphanInv, NEW d \in Running, NEW p \in Phases \ {"kill", "clear"},
           Goes(d, p), UNCHANGED <<kid, records, doomed, spared, overlap>>
    PROVE  OrphanInv'
<1> SUFFICES ASSUME ~overlap PROVE Alone' /\ ChildrenKnown' /\ \A e \in Daemons : ReaperKnows(e)'
  BY DEF OrphanInv
<1>1. Running' \subseteq Running
  BY DEF TypeOK, Goes, Running
<1>2. Alone'
  BY <1>1 DEF OrphanInv, Alone
<1>3. ChildrenKnown'
  BY DEF OrphanInv, ChildrenKnown
<1>4. ASSUME NEW e \in Daemons PROVE ReaperKnows(e)'
  BY DEF OrphanInv, ReaperKnows, TypeOK, Goes, Running
<1> QED
  BY <1>2, <1>3, <1>4

LEMMA OrphanDaemon ==
    ASSUME TypeOK, OrphanInv, NEW d \in Daemons, DaemonStep(d) \/ StartChild(d) \/ ChildEnds(d)
    PROVE  OrphanInv'
<1> USE DEF TypeOK, Goes, Running
<1>1. ASSUME FindOrphans(d) PROVE OrphanInv'
  <2> SUFFICES ASSUME ~overlap
               PROVE  Alone' /\ ChildrenKnown' /\ \A e \in Daemons : ReaperKnows(e)'
    BY <1>1 DEF OrphanInv, FindOrphans
  <2>1. PICK told \in SUBSET {k \in records : kid[k] = "up"} :
            /\ doomed' = [doomed EXCEPT ![d] = told]
            /\ spared' = spared \cup ({k \in records : kid[k] = "up"} \ told)
    BY <1>1 DEF FindOrphans, Told
  <2>2. \A k \in Daemons : kid'[k] = "up" => k \in doomed'[d] \cup spared'
    BY <1>1, <2>1 DEF OrphanInv, ChildrenKnown, FindOrphans
  <2>3. Alone'
    BY <1>1 DEF OrphanInv, Alone, FindOrphans
  <2>4. ChildrenKnown'
    BY <1>1, <2>1 DEF OrphanInv, ChildrenKnown, FindOrphans
  <2>5. ASSUME NEW e \in Daemons PROVE ReaperKnows(e)'
    <3>1. phase'[e] \notin {"unborn", "dead"} => e = d
      BY <1>1 DEF OrphanInv, Alone, FindOrphans
    <3> QED
      BY <1>1, <2>2, <3>1 DEF ReaperKnows, FindOrphans
  <2> QED
    BY <2>3, <2>4, <2>5
<1>2. ASSUME KillOrphans(d) PROVE OrphanInv'
  <2> SUFFICES ASSUME ~overlap
               PROVE  Alone' /\ ChildrenKnown' /\ \A e \in Daemons : ReaperKnows(e)'
    BY <1>2 DEF OrphanInv, KillOrphans
  <2>1. PICK survivors \in SUBSET {k \in doomed[d] : kid[k] = "up"} :
            /\ kid' = [k \in Daemons |->
                           IF k \in doomed[d] \ survivors THEN "gone" ELSE kid[k]]
            /\ spared' = (spared \ doomed[d]) \cup survivors
    BY <1>2 DEF KillOrphans
  <2>2. \A k \in Daemons : kid'[k] = "up" => k \in spared'
    BY <1>2, <2>1 DEF OrphanInv, ReaperKnows, KillOrphans
  <2>3. Alone'
    BY <1>2 DEF OrphanInv, Alone, KillOrphans
  <2>4. ChildrenKnown'
    BY <2>2 DEF ChildrenKnown
  <2>5. ASSUME NEW e \in Daemons PROVE ReaperKnows(e)'
    <3>1. phase'[e] \notin {"unborn", "dead"} => e = d
      BY <1>2 DEF OrphanInv, Alone, KillOrphans
    <3> QED
      BY <1>2, <2>2, <3>1 DEF ReaperKnows, KillOrphans
  <2> QED
    BY <2>3, <2>4, <2>5
<1>3. ASSUME ClearChildren(d) PROVE OrphanInv'
  <2> SUFFICES ASSUME ~overlap
               PROVE  Alone' /\ ChildrenKnown' /\ \A e \in Daemons : ReaperKnows(e)'
    BY <1>3 DEF OrphanInv, ClearChildren
  <2>1. \A k \in Daemons : kid[k] = "up" => k \in spared
    BY <1>3 DEF OrphanInv, ReaperKnows, ClearChildren
  <2>2. Alone'
    BY <1>3 DEF OrphanInv, Alone, ClearChildren
  <2>3. ChildrenKnown'
    BY <1>3, <2>1 DEF ChildrenKnown, ClearChildren
  <2>4. ASSUME NEW e \in Daemons PROVE ReaperKnows(e)'
    <3>1. phase'[e] \notin {"unborn", "dead"} => e = d
      BY <1>3 DEF OrphanInv, Alone, ClearChildren
    <3> QED
      BY <1>3, <3>1 DEF ReaperKnows, ClearChildren
  <2> QED
    BY <2>2, <2>3, <2>4
<1>4. ASSUME Probe(d) PROVE OrphanInv'
  <2>1. PICK p \in {"bind", "dead", "unlink"} : Goes(d, p)
    BY <1>4 DEF Probe
  <2>2. p \in Phases \ {"kill", "clear"} /\ d \in Running
    BY <1>4 DEF Probe, Phases, Booting
  <2> QED
    BY <1>4, <2>1, <2>2, OrphanMoves DEF Probe
<1>5. ASSUME Unlink(d) PROVE OrphanInv'
  <2>1. PICK p \in {"bind", "dead"} : Goes(d, p)
    BY <1>5 DEF Unlink
  <2>2. p \in Phases \ {"kill", "clear"} /\ d \in Running
    BY <1>5 DEF Unlink, Phases, Booting
  <2> QED
    BY <1>5, <2>1, <2>2, OrphanMoves DEF Unlink
<1>6. ASSUME Bind(d) PROVE OrphanInv'
  <2>1. PICK p \in {"up", "dead"} : Goes(d, p)
    BY <1>6 DEF Bind
  <2>2. p \in Phases \ {"kill", "clear"} /\ d \in Running
    BY <1>6 DEF Bind, Phases, Serving
  <2> QED
    BY <1>6, <2>1, <2>2, OrphanMoves DEF Bind
<1>7. ASSUME Exit(d) PROVE OrphanInv'
  <2>1. Goes(d, "dead") /\ "dead" \in Phases \ {"kill", "clear"} /\ d \in Running
    BY <1>7 DEF Exit, Phases
  <2> QED
    BY <1>7, <2>1, OrphanMoves DEF Exit
<1>8. ASSUME CloseServer(d) PROVE OrphanInv'
  BY <1>8 DEF OrphanInv, Alone, ChildrenKnown, ReaperKnows, CloseServer
<1>9. ASSUME StartChild(d) PROVE OrphanInv'
  BY <1>9 DEF OrphanInv, Alone, ChildrenKnown, ReaperKnows, StartChild
<1>10. ASSUME ChildEnds(d) PROVE OrphanInv'
  BY <1>10 DEF OrphanInv, Alone, ChildrenKnown, ReaperKnows, ChildEnds
<1> QED
  BY <1>1, <1>2, <1>3, <1>4, <1>5, <1>6, <1>7, <1>8, <1>9, <1>10 DEF DaemonStep, Reap

\* A crash leaves the records to the next reaper.
LEMMA OrphanCrash ==
    ASSUME TypeOK, OrphanInv, NEW d \in Daemons, DaemonKilled(d)
    PROVE  OrphanInv'
BY DEF OrphanInv, Alone, ChildrenKnown, ReaperKnows, DaemonKilled, TypeOK, Goes, Running

\* Of a client's steps, only a spawn and a request to stop touch the daemons.
LEMMA ClientsLeaveDaemons ==
    ASSUME NEW c \in Clients,
           ClientStep(c) \/ HolderLate(c) \/ WaiterLate(c) \/ AskStop(c) \/ ClientKilled(c)
    PROVE  SpawnDaemon(c) \/ AskStop(c) \/ UNCHANGED daemonVars
BY DEF ClientStep, TryConnect, OpenLock, WritePid, InspectLock, RemoveStale,
       RecheckFindsDaemon, SpawnFails, PollHolder, Release, PollWaiter, CheckLock, AwaitExit,
       HolderLate, WaiterLate, ClientKilled

LEMMA OrphanStep == TypeOK /\ OrphanInv /\ [Next]_vars => OrphanInv'
<1> SUFFICES ASSUME TypeOK, OrphanInv, [Next]_vars PROVE OrphanInv'
  OBVIOUS
<1>1. ASSUME UNCHANGED daemonVars PROVE OrphanInv'
  BY <1>1 DEF daemonVars, OrphanInv, Alone, Running, ChildrenKnown, ReaperKnows
<1>2. ASSUME NEW c \in Clients, SpawnDaemon(c) PROVE OrphanInv'
  <2>1. PICK d \in Daemons : Spawned(d)
    BY <1>2 DEF SpawnDaemon
  <2>2. UNCHANGED <<kid, records, doomed, spared>>
    BY <1>2 DEF SpawnDaemon
  <2>3. overlap' \/ Running = {}
    BY <2>1 DEF Spawned
  <2>4. ASSUME Running = {}, ~overlap PROVE Alone' /\ \A e \in Daemons : ReaperKnows(e)'
    BY <2>1, <2>2, <2>4 DEF Spawned, Unborn, Goes, TypeOK, Alone, Running, ReaperKnows
  <2> QED
    BY <2>1, <2>2, <2>3, <2>4 DEF OrphanInv, ChildrenKnown, Spawned
<1>3. ASSUME NEW c \in Clients, AskStop(c) PROVE OrphanInv'
  <2>1. file \in Daemons /\ Goes(file, "stopping") /\ file \in Running
    BY <1>3 DEF AskStop, AskedToStop, Up, TypeOK, Running
  <2>2. "stopping" \in Phases \ {"kill", "clear"}
    BY DEF Phases, Serving
  <2> QED
    BY <1>3, <2>1, <2>2, OrphanMoves DEF AskStop
<1>4. ASSUME NEW d \in Daemons, Crash(d) PROVE OrphanInv'
  BY <1>4, OrphanCrash DEF Crash
<1>5. LockAges \/ UNCHANGED vars => UNCHANGED daemonVars
  BY DEF LockAges, vars
<1> QED
  BY <1>1, <1>2, <1>3, <1>4, <1>5, OrphanDaemon, ClientsLeaveDaemons DEF Next
-----------------------------------------------------------------------------
(* One daemon as long as all is calm. *)

LEMMA CalmStart == Init => CalmInv
<1> SUFFICES ASSUME Init, calm PROVE CalmParts
  BY DEF CalmInv
<1>1. lock = NoLock
  BY DEF Init
<1>2. AllWell /\ LockIsExclusive
  BY <1>1 DEF Init, AllWell, LockIsExclusive, Holding
<1>3. BootGuarded
  BY DEF Init, DaemonInit, BootGuarded, Alone, Running, Booting
<1>4. PathIsSteady
  BY DEF Init, DaemonInit, PathIsSteady
<1> QED
  BY <1>2, <1>3, <1>4 DEF CalmParts

\* A lock whose owner lives is not stale, so none is ever removed.
LEMMA NeverStale == TypeOK /\ calm /\ CalmInv => ~Stale
BY AutospawnAssumption DEF TypeOK, Locks, CalmInv, CalmParts, AllWell, LockIsExclusive,
   Stale, Dead

\* The owner of the lock excludes every other, and its own spawned daemon shows
\* in where it is.
LEMMA NobodyBoots ==
    ASSUME TypeOK, calm, CalmInv, NEW c \in Clients, at[c] \in Holding \ {"poll"}
    PROVE  \A d \in Daemons : phase[d] \notin Booting
BY DEF CalmInv, CalmParts, LockIsExclusive, BootGuarded, Holding, TypeOK

\* Somebody answers exactly when a daemon is up.
LEMMA UpMeans ==
    ASSUME TypeOK, calm, CalmInv
    PROVE  Up <=> \E d \in Daemons : phase[d] = "up"
<1>1. NoFile \notin Daemons
  BY DaemonNumbers DEF NoFile
<1> QED
  BY <1>1 DEF CalmInv, CalmParts, BootGuarded, TypeOK, Up, Serving

\* A client that moves between places that are neither the holder's poll nor one
\* of those AllWell rules out, and takes the lock or gives it back on its way.
LEMMA CalmMoves ==
    ASSUME TypeOK, calm, CalmInv, NEW c \in Clients,
           NEW p \in Places \ {"killed", "pollFailed", "releaseFailed", "remove", "poll"},
           at[c] # "poll" \/ \A d \in Daemons : phase[d] \notin Booting,
           Moves(c, p), UNCHANGED daemonVars,
           \/ UNCHANGED lock /\ (p \in Holding => at[c] \in Holding)
           \/ lock' = [lock EXCEPT !.pid = TRUE] /\ at[c] \in Holding
           \/ lock = NoLock /\ lock' = [owner |-> c, pid |-> FALSE, aged |-> FALSE]
           \/ lock' = NoLock /\ at[c] \in Holding /\ p \notin Holding
    PROVE  CalmInv'
<1> SUFFICES ASSUME CalmParts PROVE CalmParts'
  BY DEF CalmInv
<1>1. AllWell'
  BY DEF CalmParts, AllWell, Moves, TypeOK
<1>2. LockIsExclusive'
  BY AutospawnAssumption DEF CalmParts, LockIsExclusive, Moves, TypeOK, NoLock, Locks
<1>3. BootGuarded'
  BY DEF CalmParts, BootGuarded, Moves, TypeOK, daemonVars, Alone, Running
<1>4. PathIsSteady'
  BY DEF CalmParts, PathIsSteady, daemonVars
<1> QED
  BY <1>1, <1>2, <1>3, <1>4 DEF CalmParts

LEMMA CalmClient ==
    ASSUME TypeOK, CalmInv, calm', NEW c \in Clients,
           ClientStep(c) \/ HolderLate(c) \/ WaiterLate(c) \/ AskStop(c) \/ ClientKilled(c)
    PROVE  CalmInv'
<1> SUFFICES ASSUME calm PROVE CalmInv'
  BY DEF ClientStep, TryConnect, OpenLock, WritePid, InspectLock, RemoveStale,
         RecheckFindsDaemon, SpawnDaemon, SpawnFails, PollHolder, Release, PollWaiter,
         CheckLock, AwaitExit, HolderLate, WaiterLate, AskStop, ClientKilled
<1>1. ASSUME TryConnect(c) PROVE CalmInv'
  BY <1>1, CalmMoves DEF TryConnect, Places, Holding
<1>2. ASSUME OpenLock(c) PROVE CalmInv'
  BY <1>2, CalmMoves DEF OpenLock, Places, Holding
<1>3. ASSUME WritePid(c) PROVE CalmInv'
  BY <1>3, CalmMoves DEF WritePid, Places, Holding
<1>4. ASSUME InspectLock(c) PROVE CalmInv'
  BY <1>4, NeverStale, CalmMoves DEF InspectLock, Places, Holding
<1>5. ~RemoveStale(c)
  BY DEF RemoveStale, CalmInv, CalmParts, AllWell
<1>6. ASSUME RecheckFindsDaemon(c) PROVE CalmInv'
  BY <1>6, CalmMoves DEF RecheckFindsDaemon, Places, Holding
<1>7. ASSUME SpawnDaemon(c) PROVE CalmInv'
  <2>1. PICK d \in Daemons : Spawned(d)
    BY <1>7 DEF SpawnDaemon
  <2>2. UNCHANGED <<windows, file, lock>> /\ Moves(c, "poll") /\ at[c] = "recheck"
    BY <1>7 DEF SpawnDaemon
  <2>3. phase[d] = "unborn" /\ phase' = [phase EXCEPT ![d] = "reap"]
    BY <2>1 DEF Spawned, Unborn, Goes
  <2>4. \A e \in Daemons : phase[e] \in {"unborn", "dead"}
    BY <1>7, <2>2, NobodyBoots, UpMeans
       DEF SpawnDaemon, Recheck, Holding, CalmInv, CalmParts, BootGuarded, TypeOK,
          Phases, Serving
  <2>5. AllWell' /\ LockIsExclusive'
    BY <2>2 DEF CalmInv, CalmParts, AllWell, LockIsExclusive, Moves, TypeOK, Holding
  <2>6. BootGuarded'
    BY <2>2, <2>3, <2>4
       DEF CalmInv, CalmParts, BootGuarded, Moves, TypeOK, Alone, Running, Booting
  <2>7. PathIsSteady'
    BY <2>2, <2>3, <2>4 DEF CalmInv, CalmParts, PathIsSteady, TypeOK
  <2> QED
    BY <2>5, <2>6, <2>7 DEF CalmInv, CalmParts
<1>8. ASSUME PollHolder(c) PROVE CalmInv'
  <2>1. at[c] = "poll" /\ Up /\ Moves(c, "releaseConnected") /\ UNCHANGED <<daemonVars, lock>>
    BY <1>8 DEF PollHolder, CalmInv, CalmParts, AllWell
  <2>2. \A d \in Daemons : phase[d] \notin Booting
    BY <2>1, UpMeans DEF CalmInv, CalmParts, BootGuarded, Alone, Running, Booting
  <2> QED
    BY <2>1, <2>2, CalmMoves DEF Places, Holding
<1>9. ASSUME Release(c) PROVE CalmInv'
  <2>1. at[c] = "releaseConnected"
    BY <1>9 DEF Release, CalmInv, CalmParts, AllWell
  <2> QED
    BY <1>9, <2>1, CalmMoves DEF Release, Places, Holding
<1>10. ASSUME PollWaiter(c) PROVE CalmInv'
  BY <1>10, CalmMoves DEF PollWaiter, Places, Holding
<1>11. ASSUME CheckLock(c) PROVE CalmInv'
  BY <1>11, CalmMoves DEF CheckLock, Places, Holding
<1>12. ASSUME AwaitExit(c) PROVE CalmInv'
  BY <1>12, CalmMoves DEF AwaitExit, Places, Holding
<1>13. ~(SpawnFails(c) \/ HolderLate(c) \/ WaiterLate(c) \/ AskStop(c) \/ ClientKilled(c))
  BY DEF SpawnFails, HolderLate, WaiterLate, AskStop, ClientKilled
<1> QED
  BY <1>1, <1>2, <1>3, <1>4, <1>5, <1>6, <1>7, <1>8, <1>9, <1>10, <1>11, <1>12, <1>13
     DEF ClientStep
\* A daemon on its way to the socket: nobody else runs, so what it has found
\* of the path still holds.
LEMMA CalmBoots ==
    ASSUME TypeOK, calm, CalmInv, UNCHANGED <<windows, at, lock>>,
           NEW d \in Daemons, phase[d] \in Booting,
           NEW p \in {"kill", "clear", "listen", "unlink", "bind", "up"}, Goes(d, p),
           p = "up" => file' = d,
           windows /\ file' # NoFile => p = "up",
           p = "unlink" => file' # NoFile,
           p = "bind" => file' = NoFile
    PROVE  CalmInv'
<1> SUFFICES ASSUME CalmParts PROVE CalmParts'
  BY DEF CalmInv
<1>1. \A e \in Daemons \ {d} : phase[e] \in {"unborn", "dead"} /\ phase'[e] = phase[e]
  BY DEF CalmParts, BootGuarded, Alone, Running, Booting, Goes, TypeOK
<1>2. phase'[d] = p
  BY DEF Goes, TypeOK
<1>3. AllWell' /\ LockIsExclusive'
  BY DEF CalmParts, AllWell, LockIsExclusive
<1>4. BootGuarded'
  <2>1. \E c \in Clients : at'[c] = "poll"
    BY DEF CalmParts, BootGuarded
  <2>2. Alone' /\ \A e \in Daemons : phase'[e] = "dead" => e = 1
    BY <1>1, <1>2 DEF CalmParts, BootGuarded, Alone, Running
  <2> QED
    BY <1>1, <1>2, <2>1, <2>2 DEF BootGuarded, Booting
<1>5. PathIsSteady'
  BY <1>1, <1>2 DEF CalmParts, PathIsSteady
<1> QED
  BY <1>3, <1>4, <1>5 DEF CalmParts

LEMMA CalmDaemon ==
    ASSUME TypeOK, CalmInv, calm, UNCHANGED <<crashes, clientVars>>,
           NEW d \in Daemons, DaemonStep(d) \/ StartChild(d) \/ ChildEnds(d)
    PROVE  CalmInv'
<1>1. UNCHANGED <<at, lock, calm>>
  BY DEF clientVars
<1>2. ASSUME phase[d] \in Booting PROVE ~Up /\ (windows => file = NoFile)
  <2>1. \A e \in Daemons : phase[e] # "up"
    BY <1>2 DEF CalmInv, CalmParts, BootGuarded, Alone, Running, Booting
  <2>2. ~Up
    BY <2>1, UpMeans
  <2>3. windows => file = NoFile
    BY <2>1 DEF CalmInv, CalmParts, PathIsSteady, TypeOK
  <2> QED
    BY <2>2, <2>3
<1>3. ASSUME FindOrphans(d) PROVE CalmInv'
  BY <1>1, <1>2, <1>3, CalmBoots, DaemonNumbers DEF FindOrphans, Booting, NoFile
<1>4. ASSUME KillOrphans(d) PROVE CalmInv'
  BY <1>1, <1>2, <1>4, CalmBoots, DaemonNumbers DEF KillOrphans, Booting, NoFile
<1>5. ASSUME ClearChildren(d) PROVE CalmInv'
  BY <1>1, <1>2, <1>5, CalmBoots, DaemonNumbers DEF ClearChildren, Booting, NoFile
<1>6. ASSUME Probe(d) PROVE CalmInv'
  BY <1>1, <1>2, <1>6, CalmBoots, DaemonNumbers DEF Probe, Booting, NoFile
<1>7. ASSUME Unlink(d) PROVE CalmInv'
  BY <1>1, <1>2, <1>7, CalmBoots, DaemonNumbers
     DEF Unlink, Booting, NoFile, CalmInv, CalmParts, PathIsSteady
<1>8. ASSUME Bind(d) PROVE CalmInv'
  BY <1>1, <1>2, <1>8, CalmBoots, DaemonNumbers
     DEF Bind, Booting, NoFile, CalmInv, CalmParts, PathIsSteady
<1>9. ~CloseServer(d) /\ ~Exit(d)
  BY DEF CloseServer, Exit, CalmInv, CalmParts, BootGuarded
<1>10. ASSUME StartChild(d) \/ ChildEnds(d) PROVE CalmInv'
  <2>1. UNCHANGED <<windows, phase, file>>
    BY <1>10 DEF StartChild, ChildEnds
  <2> QED
    BY <1>1, <2>1 DEF CalmInv, CalmParts, AllWell, LockIsExclusive, BootGuarded,
       PathIsSteady, Alone,
                      Running
<1> QED
  BY <1>3, <1>4, <1>5, <1>6, <1>7, <1>8, <1>9, <1>10 DEF DaemonStep, Reap

LEMMA CalmStep == TypeOK /\ CalmInv /\ [Next]_vars => CalmInv'
<1> SUFFICES ASSUME TypeOK, CalmInv, [Next]_vars, calm' PROVE CalmInv'
  BY DEF CalmInv
<1>1. ASSUME NEW d \in Daemons, Crash(d) PROVE FALSE
  BY <1>1 DEF Crash
<1>2. ASSUME LockAges PROVE FALSE
  <2>1. calm
    BY <1>2 DEF LockAges
  <2> QED
    BY <1>2, <2>1, AutospawnAssumption DEF LockAges, Dead, CalmInv, CalmParts, AllWell,
       LockIsExclusive
<1>3. ASSUME UNCHANGED vars PROVE CalmInv'
  <2>1. UNCHANGED <<windows, phase, file, at, lock, calm>>
    BY <1>3 DEF vars, daemonVars, clientVars
  <2> QED
    BY <2>1 DEF CalmInv, CalmParts, AllWell, LockIsExclusive, BootGuarded, PathIsSteady,
       Alone, Running
<1>4. UNCHANGED <<crashes, clientVars>> => calm
  BY DEF clientVars
<1> QED
  BY <1>1, <1>2, <1>3, <1>4, CalmClient, CalmDaemon DEF Next

-----------------------------------------------------------------------------

\* IInv is an inductive invariant of clients and daemons.
THEOREM Invariance == Spec => []IInv
<1>1. Init => IInv
  BY TypeInit, OrphanStart, CalmStart DEF IInv
<1>2. IInv /\ [Next]_vars => IInv'
  BY TypeStep, OrphanStep, CalmStep DEF IInv
<1> QED
  BY <1>1, <1>2, PTL DEF Spec

\* As long as daemons run one after the other, a child whose daemon is dead stays
\* on record, or is known to be lost, however often a reap is cut short (reap.ts).
THEOREM OrphansAreNeverForgotten == Spec => []OrphansStayOnRecord
<1>1. IInv => OrphansStayOnRecord
  BY DEF IInv, OrphanInv, ChildrenKnown, OrphansStayOnRecord
<1> QED
  BY <1>1, Invariance, PTL

\* While nothing is killed, late or left over, any number of clients that find no
\* daemon spawn exactly one, and no spawned daemon gives way (ensureDaemon).
THEOREM OneDaemonForAll == Spec => []OneDaemonWhenCalm
<1>1. IInv => OneDaemonWhenCalm
  <2> SUFFICES ASSUME IInv, calm
               PROVE  Cardinality(Running) <= 1 /\ \A d \in Daemons : phase[d] = "dead" => d = 1
    BY DEF OneDaemonWhenCalm
  <2>1. Alone /\ \A d \in Daemons : phase[d] = "dead" => d = 1
    BY DEF IInv, CalmInv, CalmParts, BootGuarded
  <2>2. CASE Running = {}
    BY <2>1, <2>2, FS_EmptySet
  <2>3. ASSUME NEW d \in Running PROVE Cardinality(Running) <= 1
    <3>1. Running = {d}
      BY <2>1, <2>3 DEF Alone
    <3> QED
      BY <3>1, FS_Singleton
  <2> QED
    BY <2>1, <2>2, <2>3
<1> QED
  BY <1>1, Invariance, PTL

=============================================================================
