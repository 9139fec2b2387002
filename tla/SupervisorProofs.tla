-------------------------- MODULE SupervisorProofs --------------------------
(***************************************************************************)
(* The dependency graph, and the safety of a run, for every set of labels   *)
(* and every playbook.                                                      *)
(*                                                                          *)
(* IInv says what the supervisor's five pieces of per-command state know    *)
(* about each other; the properties of Supervisor follow from it.           *)
(*                                                                          *)
(* Last, the loops over a playbook.  Each is a function defined by          *)
(* recursion: it exists because some weight lessens with every call         *)
(* (RecursionExists), and induction on that weight gives what it returns.   *)
(***************************************************************************)
EXTENDS Supervisor, PlaybookAlgorithms, FiniteSetTheorems, WellFoundedInduction, TLAPS

(* What the two graph closures of Playbook contain, for every playbook. *)

\* Reachable is inside every closed set: the induction principle of the loop.
LEMMA ReachableLeast ==
    ASSUME NEW b \in Books, NEW S \in SUBSET b.commands, ReachClosed(b, S)
    PROVE  Reachable(b) \subseteq S
BY DEF Reachable

\* A command is reachable exactly when each of its dependencies is a declared,
\* reachable task (the body of the loop in reachableLabels adds nothing more).
LEMMA ReachableFixpoint ==
    ASSUME NEW b \in Books, NEW c \in b.commands
    PROVE  c \in Reachable(b) <=> Satisfiable(b, c, Reachable(b))
<1> DEFINE R == Reachable(b)
           Q == {x \in b.commands : Satisfiable(b, x, R)}
<1>1. ASSUME NEW x \in b.commands, Satisfiable(b, x, R)
      PROVE  x \in R
  <2>1. SUFFICES ASSUME NEW S \in SUBSET b.commands, ReachClosed(b, S)
                 PROVE  x \in S
    BY DEF Reachable
  <2>2. R \subseteq S
    BY <2>1, ReachableLeast
  <2>3. Satisfiable(b, x, S)
    BY <1>1, <2>2 DEF Satisfiable
  <2>4. QED
    BY <2>1, <2>3 DEF ReachClosed
<1>2. Q \subseteq R
  BY <1>1
<1>3. ReachClosed(b, Q)
  <2>1. SUFFICES ASSUME NEW x \in b.commands, Satisfiable(b, x, Q)
                 PROVE  Satisfiable(b, x, R)
    BY DEF ReachClosed
  <2>2. QED
    BY <1>2, <2>1 DEF Satisfiable
<1>4. R \subseteq Q
  BY <1>3, ReachableLeast
<1>5. QED
  BY <1>1, <1>4

\* A playbook the config layer accepts has no blocked command: were some set
\* of commands unreachable, each of them would depend on another of the set.
LEMMA ValidIsReachable ==
    ASSUME NEW b \in Books, PlaybookValid(b)
    PROVE  Reachable(b) = b.commands
<1> DEFINE U == b.commands \ Reachable(b)
<1>1. SUFFICES ASSUME U # {} PROVE FALSE
  BY DEF Reachable
<1>2. ASSUME NEW c \in U
      PROVE  b.dependsOn[c] \cap U # {}
  <2>1. PICK d \in b.dependsOn[c] :
            ~(d \in b.commands /\ b.kind[d] = "task" /\ d \in Reachable(b))
    BY <1>2, ReachableFixpoint DEF Satisfiable
  <2>2. d \in b.commands
    BY <1>2 DEF PlaybookValid, UnknownDeps
  <2>3. b.kind[d] = "task"
    <3>1. b.kind[d] \in Kinds
      BY <2>2 DEF Books
    <3>2. c \in DirectDependents(b, d)
      BY <1>2 DEF DirectDependents
    <3>3. QED
      BY <2>2, <3>1, <3>2 DEF PlaybookValid, ServiceDeps, Kinds
  <2>4. QED
    BY <2>1, <2>2, <2>3
<1>3. U \in SUBSET b.commands
  OBVIOUS
<1>4. QED
  BY <1>1, <1>2, <1>3 DEF PlaybookValid, HasDependencyCycle

\* The config layer accepts exactly the playbooks in which the supervisor blocks
\* nothing: playbookProblems and reachableLabels draw the same line.
THEOREM ValidPlaybooksComeUp ==
    ASSUME NEW b \in Books
    PROVE  PlaybookValid(b) <=> Reachable(b) = b.commands
<1> SUFFICES ASSUME Reachable(b) = b.commands PROVE PlaybookValid(b)
  BY ValidIsReachable
<1>1. \A c \in b.commands : \A d \in b.dependsOn[c] : d \in b.commands /\ b.kind[d] = "task"
  BY ReachableFixpoint DEF Satisfiable
<1>2. UnknownDeps(b) = {}
  BY <1>1 DEF UnknownDeps
<1>3. ServiceDeps(b) = {}
  BY <1>1 DEF ServiceDeps, DirectDependents
<1>4. ASSUME NEW S \in SUBSET b.commands, S # {}, \A c \in S : b.dependsOn[c] \cap S # {}
      PROVE  FALSE
  <2>1. ReachClosed(b, b.commands \ S)
    BY <1>4 DEF ReachClosed, Satisfiable
  <2>2. Reachable(b) \subseteq b.commands \ S
    BY <2>1, ReachableLeast
  <2>3. QED
    BY <1>4, <2>2
<1>5. QED
  BY <1>2, <1>3, <1>4 DEF PlaybookValid, HasDependencyCycle

\* Direct dependents of l, and direct dependents of what is already downstream
\* of l, are downstream of l: the queue of cascade misses nobody.
LEMMA DownstreamDirect ==
    ASSUME NEW b \in Books, NEW l, NEW d \in DirectDependents(b, l), d # l
    PROVE  d \in Downstream(b, l)
BY DEF Downstream, DirectDependents, DependentsClosed

LEMMA DownstreamTransitive ==
    ASSUME NEW b \in Books, NEW l, NEW d \in Downstream(b, l),
           NEW e \in Downstream(b, d), e # l
    PROVE  e \in Downstream(b, l)
<1>1. SUFFICES ASSUME NEW S \in SUBSET b.commands, l \in S, DependentsClosed(b, S)
               PROVE  e \in S
  BY DEF Downstream
<1>2. d \in S
  BY <1>1 DEF Downstream
<1>3. QED
  BY <1>1, <1>2 DEF Downstream

LEMMA DownstreamIsCommands ==
    ASSUME NEW b \in Books, NEW l
    PROVE  Downstream(b, l) \subseteq b.commands \ {l}
BY DEF Downstream

-----------------------------------------------------------------------------
(* The invariant. *)

\* Slots exist for the commands of the playbook only.
OnlyCommandsRun == \A l \in Labels : child[l] # "none" => l \in book.commands

TypeInv == TypeOK /\ OnlyCommandsRun

\* A command still "pending" has no history at all.
PendingIsFresh(l) ==
    status[l] = "pending" =>
        child[l] = "none" /\ l \notin timer \cup inFlight \cup succeeded

\* How status, child and intent constrain each other.
SlotAgrees(l) ==
    /\ status[l] # "pending" => started
    /\ child[l] # "none" => status[l] \in {"running", "restarting"}
    /\ status[l] = "running" => child[l] # "none"
    /\ status[l] = "exited" => l \in succeeded
    /\ status[l] = "stopped" => Stopped
    /\ intent[l] # "none" => child[l] # "none"
    /\ intent[l] = "restart" => l \in inFlight /\ ~Stopped
    /\ intent[l] = "stop" => Stopped

\* GateRespected, for one command.
GatePassed(l) ==
    (child[l] # "none" \/ l \in timer \cup inFlight \cup succeeded)
        => GateOpen(l, succeeded)

\* RestartHasOneOwner, for one command; moreover a suspended restart whose child
\* still exists owns that child's exit.
RestartOwned(l) ==
    ~Stopped =>
        /\ status[l] = "restarting" <=> l \in timer \cup inFlight
        /\ l \in timer => l \notin inFlight /\ child[l] = "none"
        /\ l \in inFlight /\ child[l] # "none" => intent[l] = "restart"

\* A stopping run has no timer, has marked and awaits every child, and has
\* settled every command without one.
StopTakesHold(l) ==
    Stopped =>
        /\ started
        /\ l \notin timer
        /\ \/ child[l] = "none" /\ status[l] \in {"exited", "errored", "stopped"}
           \/ l \in settling /\ intent[l] = "stop" /\ stop = "awaiting"

SlotOK(l) ==
    PendingIsFresh(l) /\ SlotAgrees(l) /\ GatePassed(l) /\ RestartOwned(l) /\ StopTakesHold(l)

SlotInv == \A l \in Labels : SlotOK(l)

\* A task that failed for good has left nothing pending downstream of it.
FailureCascaded ==
    \A f \in book.commands :
        book.kind[f] = "task" /\ status[f] = "errored"
            => \A d \in Downstream(book, f) : status[d] # "pending"

IInv == TypeInv /\ SlotInv /\ FailureCascaded /\ NoReadyLeftWaiting

-----------------------------------------------------------------------------
(* Cascading and spawning. *)

\* What a cascade changes: pending commands downstream of a failed task, all of
\* them, to "errored".
LEMMA CascadeEffect ==
    ASSUME NEW F \in SUBSET Labels, NEW st \in [Labels -> Statuses],
           NEW res, res = Cascade(F, st)
    PROVE     /\ res \in [Labels -> Statuses]
              /\ \A d \in Labels :
                    \/ res[d] = st[d] 
                    \/ /\ st[d] = "pending" /\ res[d] = "errored"
                       /\ \E f \in F : book.kind[f] = "task" /\ d \in Downstream(book, f)
              /\ \A f \in F : book.kind[f] = "task" =>
                    \A d \in Downstream(book, f) : d \in Labels => res[d] # "pending"
BY DEF Cascade, Statuses

\* What spawning S leaves in each slot: in S, a process (or the promise of an
\* 'error' event) or a failure; outside S, what was there, unless it was
\* pending downstream of a task that failed to spawn.
SpawnResult(S, st, ch, it) ==
    /\ status' \in [Labels -> Statuses]
    /\ child' \in [Labels -> Children]
    /\ intent' \in [Labels -> Intents]
    /\ \A l \in S :
          \/ /\ status'[l] = "running" /\ intent'[l] = "none"
             /\ child'[l] \in {"alive", "unspawned"}
          \/ status'[l] = "errored" /\ child'[l] = ch[l] /\ intent'[l] = it[l]
    /\ \A l \in Labels \ S :
          /\ child'[l] = ch[l] /\ intent'[l] = it[l]
          /\ \/ status'[l] = st[l]
             \/ /\ st[l] = "pending" /\ status'[l] = "errored"
                /\ \E f \in S : /\ book.kind[f] = "task" /\ status'[f] = "errored"
                                /\ l \in Downstream(book, f)
    /\ \A f \in S : book.kind[f] = "task" /\ status'[f] = "errored" =>
          \A d \in Downstream(book, f) : status'[d] # "pending"

LEMMA SpawnEffect ==
    ASSUME NEW S \in SUBSET Labels, NEW st \in [Labels -> Statuses],
           NEW ch \in [Labels -> Children], NEW it \in [Labels -> Intents],
           book \in Books, Spawn(S, st, ch, it)
    PROVE  SpawnResult(S, st, ch, it)
<1>1. PICK out \in [S -> SpawnOutcomes] :
        LET thrown == {l \in S : out[l] = "throws"}
            up     == S \ thrown
        IN /\ status' = Cascade(thrown,
                            [l \in Labels |-> IF l \in thrown THEN "errored"
                                              ELSE IF l \in up THEN "running"
                                              ELSE st[l]])
           /\ child'  = [l \in Labels |-> IF l \in up THEN out[l] ELSE ch[l]]
           /\ intent' = [l \in Labels |-> IF l \in up THEN "none" ELSE it[l]]
  BY DEF Spawn
<1> DEFINE thrown == {l \in S : out[l] = "throws"}
           mid == [l \in Labels |-> IF l \in thrown THEN "errored"
                                    ELSE IF l \in S THEN "running" ELSE st[l]]
<1>2. status' = Cascade(thrown, mid)
  <2>1. mid = [l \in Labels |-> IF l \in thrown THEN "errored"
                                ELSE IF l \in S \ thrown THEN "running" ELSE st[l]]
    OBVIOUS
  <2>2. QED
    BY <1>1, <2>1
<1>3. mid \in [Labels -> Statuses]
  BY DEF Statuses
<1>4. thrown \in SUBSET Labels
  OBVIOUS
<1> HIDE DEF mid
<1>5. /\ status' \in [Labels -> Statuses]
      /\ \A d \in Labels :
            \/ status'[d] = mid[d]
            \/ /\ mid[d] = "pending" /\ status'[d] = "errored"
               /\ \E f \in thrown : book.kind[f] = "task" /\ d \in Downstream(book, f)
      /\ \A f \in thrown : book.kind[f] = "task" =>
            \A d \in Downstream(book, f) : d \in Labels => status'[d] # "pending"
  <2> HIDE DEF thrown
  <2>1. QED
    BY <1>2, <1>3, <1>4 DEF Cascade, Statuses
<1>6. \A l \in S : status'[l] = IF l \in thrown THEN "errored" ELSE "running"
  BY <1>5 DEF mid
<1>7. \A l \in S \ thrown : out[l] \in {"alive", "unspawned"}
  BY DEF SpawnOutcomes
<1>8. child' \in [Labels -> Children] /\ intent' \in [Labels -> Intents]
  BY <1>1, <1>7 DEF Children, Intents
<1>9. \A l \in Labels : /\ child'[l] = IF l \in S \ thrown THEN out[l] ELSE ch[l]
                        /\ intent'[l] = IF l \in S \ thrown THEN "none" ELSE it[l]
  BY <1>1
<1>10. \A l \in S :
          \/ /\ status'[l] = "running" /\ intent'[l] = "none"
             /\ child'[l] \in {"alive", "unspawned"}
          \/ status'[l] = "errored" /\ child'[l] = ch[l] /\ intent'[l] = it[l]
  BY <1>6, <1>7, <1>9
<1>11. ASSUME NEW l \in Labels \ S
       PROVE  /\ child'[l] = ch[l] /\ intent'[l] = it[l]
              /\ \/ status'[l] = st[l]
                 \/ /\ st[l] = "pending" /\ status'[l] = "errored"
                    /\ \E f \in S : /\ book.kind[f] = "task" /\ status'[f] = "errored"
                                    /\ l \in Downstream(book, f)
  <2>1. mid[l] = st[l]
    BY DEF mid
  <2>2. QED
    BY <1>5, <1>6, <1>9, <2>1
<1>12. ASSUME NEW f \in S, book.kind[f] = "task", status'[f] = "errored",
              NEW d \in Downstream(book, f)
       PROVE  status'[d] # "pending"
  <2>1. d \in Labels
    BY DownstreamIsCommands DEF Books
  <2>2. QED
    BY <1>5, <1>6, <1>12, <2>1
<1>13. QED
  BY <1>5, <1>8, <1>10, <1>11, <1>12 DEF SpawnResult

-----------------------------------------------------------------------------
(* Types. *)

LEMMA BookTyped ==
    ASSUME TypeOK
    PROVE  book \in Books /\ book.commands \subseteq Labels
BY PlaybooksAssumption DEF TypeOK, Books

\* The actions that spawn, in terms of what spawning does.
LEMMA SpawningSteps ==
    ASSUME TypeOK
    PROVE  /\ Start => SpawnResult(Ready(status, succeeded), status, child, intent)
           /\ \A l \in Labels :
                 /\ RestartSpawn(l) => SpawnResult({l}, status, child, intent)
                 /\ RestartResume(l) =>
                       IF Stopped \/ ~GateOpen(l, succeeded)
                       THEN UNCHANGED <<status, child, intent>>
                       ELSE SpawnResult({l}, status, child, intent)
                 /\ RestartTimer(l) =>
                       IF Stopped \/ child[l] # "none"
                       THEN UNCHANGED <<status, child, intent>>
                       ELSE SpawnResult({l}, status, child, intent)
                 /\ ExitOk(l) =>
                       SpawnResult(Ready(AfterOk(l), succeeded'), AfterOk(l),
                                   Vacate(l), Disown(l))
<1> USE BookTyped
<1>1. \A st, done : Ready(st, done) \in SUBSET Labels
  BY DEF Ready
<1>2. ASSUME Start PROVE SpawnResult(Ready(status, succeeded), status, child, intent)
  BY <1>1, <1>2, SpawnEffect DEF Start, TypeOK
<1>3. ASSUME NEW l \in Labels, Spawn({l}, status, child, intent)
      PROVE  SpawnResult({l}, status, child, intent)
  BY <1>3, SpawnEffect DEF TypeOK
<1>4. ASSUME NEW l \in Labels, ExitOk(l)
      PROVE  SpawnResult(Ready(AfterOk(l), succeeded'), AfterOk(l), Vacate(l), Disown(l))
  <2>1. /\ AfterOk(l) \in [Labels -> Statuses] /\ Vacate(l) \in [Labels -> Children]
        /\ Disown(l) \in [Labels -> Intents]
    BY DEF TypeOK, Statuses, Children, Intents, Vacate, Disown, AfterOk
  <2>2. Spawn(Ready(AfterOk(l), succeeded'), AfterOk(l), Vacate(l), Disown(l))
    BY <1>4 DEF ExitOk
  <2>3. QED
    BY <1>1, <2>1, <2>2, SpawnEffect
<1>5. QED
  BY <1>2, <1>3, <1>4 DEF RestartSpawn, RestartResume, RestartTimer

\* What a final failure does to the statuses.
LEMMA FailingStep ==
    ASSUME TypeOK, NEW l \in Labels, ExitFailed(l)
    PROVE  /\ status' \in [Labels -> Statuses]
           /\ status'[l] = "errored"
           /\ \A d \in Labels \ {l} :
                 \/ status'[d] = status[d]
                 \/ /\ status[d] = "pending" /\ status'[d] = "errored"
                    /\ book.kind[l] = "task" /\ d \in Downstream(book, l)
           /\ book.kind[l] = "task" =>
                 \A d \in Downstream(book, l) : status'[d] # "pending"
<1>1. \A d \in Downstream(book, l) : d \in Labels /\ d # l
  BY BookTyped, DownstreamIsCommands
<1>2. QED
  BY <1>1 DEF ExitFailed, Cascade, TypeOK, Statuses

LEMMA TypeInit == Init => TypeInv
BY DEF Init, TypeInv, TypeOK, OnlyCommandsRun, Statuses, Children, Intents

LEMMA TypeStep == TypeInv /\ [Next]_vars => TypeInv'
<1> SUFFICES ASSUME TypeOK, OnlyCommandsRun, [Next]_vars
             PROVE  TypeInv'
  BY DEF TypeInv
<1> USE DEF TypeInv, TypeOK, OnlyCommandsRun, constants
<1>1. ASSUME Start PROVE TypeInv'
  <2>1. SpawnResult(Ready(status, succeeded), status, child, intent)
    BY <1>1, SpawningSteps
  <2>2. QED
    BY <1>1, <2>1 DEF Start, SpawnResult, Ready
<1>2. ASSUME Stop PROVE TypeInv'
  BY <1>2 DEF Stop, Statuses, Intents
<1>3. ASSUME StopResume PROVE TypeInv'
  BY <1>3 DEF StopResume, Statuses
<1>4. ASSUME NEW l \in Labels, RestartKill(l) PROVE TypeInv'
  BY <1>4 DEF RestartKill, MayRestart, Statuses, Intents
<1>5. ASSUME NEW l \in Labels, RestartSpawn(l) PROVE TypeInv'
  <2>1. SpawnResult({l}, status, child, intent)
    BY <1>5, SpawningSteps
  <2>2. QED
    BY <1>5, <2>1 DEF RestartSpawn, MayRestart, SpawnResult
<1>6. ASSUME NEW l \in Labels, RestartRefused(l) PROVE TypeInv'
  BY <1>6 DEF RestartRefused
<1>7. ASSUME NEW l \in Labels, RestartResume(l) PROVE TypeInv'
  <2>1. l \in book.commands
    BY <1>7 DEF RestartResume
  <2>2. \/ UNCHANGED <<status, child, intent>>
        \/ SpawnResult({l}, status, child, intent)
    BY <1>7, SpawningSteps
  <2>3. QED
    BY <1>7, <2>1, <2>2 DEF RestartResume, SpawnResult
<1>8. ASSUME NEW l \in Labels, ProcExit(l) PROVE TypeInv'
  BY <1>8 DEF ProcExit, Children
<1>9. ASSUME NEW l \in Labels, ExitForRestart(l) PROVE TypeInv'
  BY <1>9 DEF ExitForRestart, Vacate, Disown, Statuses, Children, Intents
<1>10. ASSUME NEW l \in Labels, ExitForStop(l) PROVE TypeInv'
  BY <1>10 DEF ExitForStop, Vacate, Disown, Statuses, Children, Intents
<1>11. ASSUME NEW l \in Labels, ExitOk(l) PROVE TypeInv'
  <2>1. l \in book.commands
    BY <1>11 DEF ExitOk, OwnExit, Ended
  <2> DEFINE S == Ready(AfterOk(l), succeeded')
  <2>2. SpawnResult(S, AfterOk(l), Vacate(l), Disown(l))
    BY <1>11, SpawningSteps
  <2>3. S \subseteq book.commands
    BY DEF Ready
  <2>4. /\ UNCHANGED <<book, blocked, started, stop, settling, inFlight>>
        /\ succeeded' = succeeded \cup {l}
        /\ timer' \in {timer, timer \cup {l}}
    BY <1>11 DEF ExitOk
  <2> HIDE DEF S
  <2>5. TypeOK' /\ OnlyCommandsRun'
    BY <2>1, <2>2, <2>3, <2>4 DEF SpawnResult, Vacate
  <2>6. QED
    BY <2>5
<1>12. ASSUME NEW l \in Labels, ExitRetried(l) PROVE TypeInv'
  BY <1>12 DEF ExitRetried, OwnExit, Ended, Vacate, Disown, Statuses, Children, Intents
<1>13. ASSUME NEW l \in Labels, ExitFailed(l) PROVE TypeInv'
  BY <1>13, FailingStep DEF ExitFailed, Vacate, Disown, Children, Intents
<1>14. ASSUME NEW l \in Labels, RestartTimer(l) PROVE TypeInv'
  <2>1. l \in book.commands
    BY <1>14 DEF RestartTimer
  <2>2. \/ UNCHANGED <<status, child, intent>>
        \/ SpawnResult({l}, status, child, intent)
    BY <1>14, SpawningSteps
  <2>3. QED
    BY <1>14, <2>1, <2>2 DEF RestartTimer, SpawnResult
<1>15. CASE UNCHANGED vars
  BY <1>15 DEF vars
<1>16. QED
  BY <1>1, <1>2, <1>3, <1>4, <1>5, <1>6, <1>7, <1>8, <1>9, <1>10, <1>11, <1>12,
     <1>13, <1>14, <1>15 DEF Next

\* Every variable keeps its type, and only commands of the playbook ever have a
\* process.
THEOREM TypeCorrect == Spec => []TypeInv
BY TypeInit, TypeStep, PTL DEF Spec

\* The type invariant the model checker also checks on small playbooks.
THEOREM TypeOKHolds == Spec => []TypeOK
<1>1. TypeInv => TypeOK
  BY DEF TypeInv
<1>2. QED
  BY <1>1, TypeCorrect, PTL

-----------------------------------------------------------------------------
(* The slots. *)

LEMMA SlotInit == Init => SlotInv
BY DEF Init, SlotInv, SlotOK, PendingIsFresh, SlotAgrees, GatePassed, RestartOwned,
       StopTakesHold, Stopped

LEMMA SlotStep ==
    ASSUME TypeInv, TypeInv', SlotInv, Next
    PROVE  SlotInv'
<1> SUFFICES ASSUME NEW m \in Labels PROVE SlotOK(m)'
  BY DEF SlotInv
<1> SlotOK(m)
  BY DEF SlotInv
<1> USE DEF TypeInv, TypeOK, OnlyCommandsRun, SlotOK, PendingIsFresh, SlotAgrees,
            GatePassed, RestartOwned, StopTakesHold, Stopped, GateOpen, constants
<1>0. \A l \in Labels : child[l] # "none" \/ l \in timer => started
  BY DEF SlotInv
<1>1. ASSUME Start PROVE SlotOK(m)'
  BY <1>1, SpawningSteps DEF Start, SpawnResult, Ready
<1>2. ASSUME Stop PROVE SlotOK(m)'
  BY <1>2 DEF Stop, Statuses
<1>3. ASSUME StopResume PROVE SlotOK(m)'
  BY <1>3 DEF StopResume
<1>4. ASSUME NEW l \in Labels, RestartKill(l) PROVE SlotOK(m)'
  BY <1>4 DEF RestartKill, MayRestart
<1>5. ASSUME NEW l \in Labels, RestartSpawn(l) PROVE SlotOK(m)'
  <2>1. SpawnResult({l}, status, child, intent)
    BY <1>5, SpawningSteps
  <2>2. QED
    BY <1>5, <2>1 DEF RestartSpawn, MayRestart, SpawnResult
<1>6. ASSUME NEW l \in Labels, RestartRefused(l) PROVE SlotOK(m)'
  BY <1>6 DEF RestartRefused, MayRestart
<1>7. ASSUME NEW l \in Labels, RestartResume(l) PROVE SlotOK(m)'
  <2>1. SlotOK(l)
    BY DEF SlotInv
  <2>2. CASE Stopped
    BY <1>7, <2>2 DEF RestartResume
  <2>3. CASE ~Stopped
    <3>1. GateOpen(l, succeeded)
      BY <1>7, <2>1 DEF RestartResume
    <3>2. SpawnResult({l}, status, child, intent)
      BY <1>7, <2>3, <3>1, SpawningSteps
    <3>3. QED
      BY <1>7, <2>1, <2>3, <3>2 DEF RestartResume, SpawnResult
  <2>4. QED
    BY <2>2, <2>3
<1>8. ASSUME NEW l \in Labels, ProcExit(l) PROVE SlotOK(m)'
  BY <1>8 DEF ProcExit
<1>9. ASSUME NEW l \in Labels, ExitForRestart(l) PROVE SlotOK(m)'
  BY <1>9 DEF ExitForRestart, Vacate, Disown, Ended
<1>10. ASSUME NEW l \in Labels, ExitForStop(l) PROVE SlotOK(m)'
  BY <1>10 DEF ExitForStop, Vacate, Disown, Ended
<1>11. ASSUME NEW l \in Labels, ExitOk(l) PROVE SlotOK(m)'
  <2> DEFINE S == Ready(AfterOk(l), succeeded')
  <2>1. SpawnResult(S, AfterOk(l), Vacate(l), Disown(l))
    BY <1>11, SpawningSteps
  <2>2. \A d \in S : d \in book.commands /\ d # l /\ status[d] = "pending"
                   /\ GateOpen(d, succeeded')
    BY <1>11 DEF Ready, AfterOk
  <2>3. /\ UNCHANGED <<book, blocked, started, stop, settling, inFlight>>
        /\ succeeded' = succeeded \cup {l}
        /\ timer' = IF ShouldRestart(l) THEN timer \cup {l} ELSE timer
        /\ child[l] = "exit0" /\ intent[l] = "none" /\ ~Stopped
    BY <1>11 DEF ExitOk, OwnExit
  <2> HIDE DEF S
  <2>4. CASE m \in S
    <3>1. /\ m # l /\ status[m] = "pending" /\ GateOpen(m, succeeded')
          /\ Vacate(l)[m] = child[m] /\ Disown(l)[m] = intent[m]
      BY <2>2, <2>4 DEF Vacate, Disown
    <3>2. \/ /\ status'[m] = "running" /\ intent'[m] = "none"
             /\ child'[m] \in {"alive", "unspawned"}
          \/ status'[m] = "errored" /\ child'[m] = child[m] /\ intent'[m] = intent[m]
      BY <2>1, <2>4, <3>1 DEF SpawnResult
    <3>3. started
      BY <1>0, <2>3
    <3>4. QED
      BY <2>3, <3>1, <3>2, <3>3
  <2>5. CASE m = l
    <3>1. m \notin S
      BY <2>2, <2>5
    <3>2. /\ AfterOk(l)[l] = IF ShouldRestart(l) THEN "restarting" ELSE "exited"
          /\ Vacate(l)[l] = "none" /\ Disown(l)[l] = "none"
      BY DEF AfterOk, Vacate, Disown
    <3>3. status'[l] = AfterOk(l)[l] /\ child'[l] = "none" /\ intent'[l] = "none"
      BY <2>1, <2>5, <3>1, <3>2 DEF SpawnResult
    <3>4. QED
      BY <2>3, <2>5, <3>2, <3>3
  <2>6. CASE m \notin S /\ m # l
    <3>1. /\ AfterOk(l)[m] = status[m]
          /\ Vacate(l)[m] = child[m] /\ Disown(l)[m] = intent[m]
      BY <2>6 DEF AfterOk, Vacate, Disown
    <3>2. /\ child'[m] = child[m] /\ intent'[m] = intent[m]
          /\ \/ status'[m] = status[m]
             \/ status[m] = "pending" /\ status'[m] = "errored"
      BY <2>1, <2>6, <3>1 DEF SpawnResult
    <3>3. QED
      BY <1>0, <2>3, <2>6, <3>2
  <2>7. QED
    BY <2>4, <2>5, <2>6
<1>12. ASSUME NEW l \in Labels, ExitRetried(l) PROVE SlotOK(m)'
  BY <1>12 DEF ExitRetried, OwnExit, Ended, Vacate, Disown
<1>13. ASSUME NEW l \in Labels, ExitFailed(l) PROVE SlotOK(m)'
  BY <1>0, <1>13, FailingStep DEF ExitFailed, OwnExit, Ended, Vacate, Disown
<1>14. ASSUME NEW l \in Labels, RestartTimer(l) PROVE SlotOK(m)'
  <2>1. SlotOK(l)
    BY DEF SlotInv
  <2>2. ~Stopped /\ child[l] = "none" /\ status[l] = "restarting"
    BY <1>14, <2>1 DEF RestartTimer
  <2>3. SpawnResult({l}, status, child, intent)
    BY <1>14, <2>2, SpawningSteps
  <2>4. CASE m = l
    BY <1>14, <2>2, <2>3, <2>4 DEF RestartTimer, SpawnResult
  <2>5. CASE m # l
    <3>1. /\ child'[m] = child[m] /\ intent'[m] = intent[m]
          /\ \/ status'[m] = status[m]
             \/ status[m] = "pending" /\ status'[m] = "errored"
      BY <2>3, <2>5 DEF SpawnResult
    <3>2. QED
      BY <1>0, <1>14, <2>2, <2>5, <3>1 DEF RestartTimer
  <2>6. QED
    BY <2>4, <2>5
<1>15. QED
  BY <1>1, <1>2, <1>3, <1>4, <1>5, <1>6, <1>7, <1>8, <1>9, <1>10, <1>11, <1>12,
     <1>13, <1>14 DEF Next

-----------------------------------------------------------------------------
(* Cascades and gates. *)

LEMMA BookFixed == Next => UNCHANGED <<book, blocked>>
BY DEF Next, Start, Stop, StopResume, RestartKill, RestartSpawn, RestartRefused,
       RestartResume, ProcExit, ExitForRestart, ExitForStop, ExitOk, ExitRetried,
       ExitFailed, RestartTimer, constants

\* Nothing ever becomes pending again.
LEMMA PendingShrinks ==
    ASSUME TypeInv, Next
    PROVE  \A l \in Labels : status'[l] = "pending" => status[l] = "pending"
<1> SUFFICES ASSUME NEW m \in Labels, status'[m] = "pending"
             PROVE  status[m] = "pending"
  OBVIOUS
<1> USE DEF TypeInv, TypeOK
<1>1. ASSUME NEW S \in SUBSET Labels, NEW ch, NEW it, SpawnResult(S, status, ch, it)
      PROVE  status[m] = "pending"
  BY <1>1 DEF SpawnResult
<1>2. CASE Start
  BY <1>2, SpawningSteps DEF SpawnResult
<1>3. CASE Stop
  BY <1>3 DEF Stop
<1>4. CASE StopResume
  BY <1>4 DEF StopResume
<1>5. ASSUME NEW l \in Labels, RestartKill(l) \/ RestartRefused(l) \/ ProcExit(l)
      PROVE  status[m] = "pending"
  BY <1>5 DEF RestartKill, RestartRefused, ProcExit
<1>6. ASSUME NEW l \in Labels, ExitForRestart(l) \/ ExitForStop(l) \/ ExitRetried(l)
      PROVE  status[m] = "pending"
  BY <1>6 DEF ExitForRestart, ExitForStop, ExitRetried
<1>7. ASSUME NEW l \in Labels, RestartSpawn(l) \/ RestartResume(l) \/ RestartTimer(l)
      PROVE  status[m] = "pending"
  BY <1>1, <1>7, SpawningSteps
<1>8. ASSUME NEW l \in Labels, ExitOk(l) PROVE status[m] = "pending"
  <2>1. SpawnResult(Ready(AfterOk(l), succeeded'), AfterOk(l), Vacate(l), Disown(l))
    BY <1>8, SpawningSteps
  <2>2. AfterOk(l)[m] = "pending"
    BY <2>1 DEF SpawnResult
  <2>3. QED
    BY <2>2 DEF AfterOk
<1>9. ASSUME NEW l \in Labels, ExitFailed(l) PROVE status[m] = "pending"
  BY <1>9, FailingStep
<1>10. QED
  BY <1>2, <1>3, <1>4, <1>5, <1>6, <1>7, <1>8, <1>9 DEF Next

\* A step in which the commands in F fail, if any, and nothing else does but
\* what is downstream of a failed task of F keeps FailureCascaded.
LEMMA FailuresCascade ==
    ASSUME TypeInv, Next, FailureCascaded, NEW F,
           \A f \in F : f \in Labels /\ status'[f] = "errored",
           \A f \in F : book.kind[f] = "task" =>
                \A d \in Downstream(book, f) : status'[d] # "pending",
           \A l \in book.commands : status'[l] = "errored" =>
                \/ l \in F \/ status[l] = "errored"
                \/ \E f \in F : book.kind[f] = "task" /\ l \in Downstream(book, f)
    PROVE  FailureCascaded'
<1>1. SUFFICES ASSUME NEW l \in book.commands, book.kind[l] = "task",
                      status'[l] = "errored", NEW d \in Downstream(book, l)
               PROVE  status'[d] # "pending"
  BY BookFixed DEF FailureCascaded
<1>2. CASE l \in F
  BY <1>1, <1>2
<1>3. CASE status[l] = "errored"
  <2>1. d \in Labels
    BY BookTyped, DownstreamIsCommands DEF TypeInv
  <2>2. status[d] # "pending"
    BY <1>1, <1>3 DEF FailureCascaded
  <2>3. QED
    BY <2>1, <2>2, PendingShrinks
<1>4. ASSUME NEW f \in F, book.kind[f] = "task", l \in Downstream(book, f)
      PROVE  status'[d] # "pending"
  <2>1. CASE d = f
    BY <2>1
  <2>2. CASE d # f
    <3>1. d \in Downstream(book, f)
      BY <1>4, <2>2, BookTyped, DownstreamTransitive DEF TypeInv
    <3>2. QED
      BY <1>4, <3>1
  <2>3. QED
    BY <2>1, <2>2
<1>5. QED
  BY <1>1, <1>2, <1>3, <1>4

LEMMA SpawnCascades ==
    ASSUME TypeInv, Next, FailureCascaded, NEW S \in SUBSET Labels, NEW st, NEW ch, NEW it,
           SpawnResult(S, st, ch, it),
           \A l \in Labels : st[l] = "errored" => status[l] = "errored"
    PROVE  FailureCascaded'
<1> DEFINE F == {f \in S : status'[f] = "errored"}
<1>1. /\ \A f \in F : f \in Labels /\ status'[f] = "errored"
      /\ \A f \in F : book.kind[f] = "task" =>
            \A d \in Downstream(book, f) : status'[d] # "pending"
  BY DEF SpawnResult
<1>2. ASSUME NEW l \in book.commands, status'[l] = "errored", l \notin F,
             status[l] # "errored"
      PROVE  \E f \in F : book.kind[f] = "task" /\ l \in Downstream(book, f)
  <2>1. l \in Labels \ S
    BY <1>2, BookTyped DEF TypeInv
  <2>2. QED
    BY <1>2, <2>1 DEF SpawnResult
<1> HIDE DEF F
<1>3. QED
  BY <1>1, <1>2, FailuresCascade

LEMMA CascadeInit == Init => FailureCascaded
<1> SUFFICES ASSUME Init, NEW f \in book.commands PROVE status[f] # "errored"
  BY DEF FailureCascaded
<1>1. f \in Labels
  BY PlaybooksAssumption DEF Init, Books
<1>2. QED
  BY <1>1 DEF Init

LEMMA CascadeStep ==
    ASSUME TypeInv, SlotInv, FailureCascaded, Next
    PROVE  FailureCascaded'
<1> USE DEF TypeInv
<1>1. ASSUME \A l \in book.commands : status'[l] = "errored" => status[l] = "errored"
      PROVE  FailureCascaded'
  <2> DEFINE F == {}
  <2>1. /\ \A f \in F : f \in Labels /\ status'[f] = "errored"
        /\ \A f \in F : book.kind[f] = "task" =>
              \A d \in Downstream(book, f) : status'[d] # "pending"
    OBVIOUS
  <2> HIDE DEF F
  <2>2. QED
    BY <1>1, <2>1, FailuresCascade
<1>2. ASSUME NEW S \in SUBSET Labels, NEW ch, NEW it, SpawnResult(S, status, ch, it)
      PROVE  FailureCascaded'
  BY <1>2, SpawnCascades
<1>3. CASE Start
  <2>1. Ready(status, succeeded) \in SUBSET Labels
    BY BookTyped DEF Ready
  <2>2. QED
    BY <1>2, <1>3, <2>1, SpawningSteps
<1>4. CASE Stop \/ StopResume
  BY <1>1, <1>4, BookTyped DEF Stop, StopResume, TypeOK
<1>5. ASSUME NEW l \in Labels,
             \/ RestartKill(l) \/ RestartRefused(l) \/ ProcExit(l) \/ ExitForRestart(l)
             \/ ExitForStop(l) \/ ExitRetried(l)
      PROVE  FailureCascaded'
  BY <1>1, <1>5, BookTyped
  DEF RestartKill, RestartRefused, ProcExit, ExitForRestart, ExitForStop, ExitRetried, TypeOK
<1>6. ASSUME NEW l \in Labels, RestartSpawn(l) \/ RestartResume(l) \/ RestartTimer(l)
      PROVE  FailureCascaded'
  <2>1. CASE SpawnResult({l}, status, child, intent)
    BY <1>2, <2>1
  <2>2. CASE status' = status
    BY <1>1, <2>2
  <2>3. QED
    BY <1>6, <2>1, <2>2, SpawningSteps
<1>7. ASSUME NEW l \in Labels, ExitOk(l) PROVE FailureCascaded'
  <2>1. Ready(AfterOk(l), succeeded') \in SUBSET Labels
    BY BookTyped DEF Ready
  <2>2. \A m \in Labels : AfterOk(l)[m] = "errored" => status[m] = "errored"
    BY DEF AfterOk, TypeOK
  <2>3. SpawnResult(Ready(AfterOk(l), succeeded'), AfterOk(l), Vacate(l), Disown(l))
    BY <1>7, SpawningSteps
  <2>4. QED
    BY <2>1, <2>2, <2>3, SpawnCascades
<1>8. ASSUME NEW l \in Labels, ExitFailed(l) PROVE FailureCascaded'
  <2> DEFINE F == {l}
  <2>1. /\ \A f \in F : f \in Labels /\ status'[f] = "errored"
        /\ \A f \in F : book.kind[f] = "task" =>
              \A d \in Downstream(book, f) : status'[d] # "pending"
    BY <1>8, FailingStep
  <2>2. \A m \in book.commands : status'[m] = "errored" =>
            \/ m \in F \/ status[m] = "errored"
            \/ \E f \in F : book.kind[f] = "task" /\ m \in Downstream(book, f)
    BY <1>8, FailingStep, BookTyped
  <2> HIDE DEF F
  <2>3. QED
    BY <2>1, <2>2, FailuresCascade
<1>9. QED
  BY <1>3, <1>4, <1>5, <1>6, <1>7, <1>8 DEF Next

LEMMA ReadyInit == Init => NoReadyLeftWaiting
BY DEF Init, NoReadyLeftWaiting

\* No gate opens in a step that does not add to succeeded, and the two that
\* may find startable commands spawn all of them.
LEMMA ReadyStep ==
    ASSUME TypeInv, NoReadyLeftWaiting, Next
    PROVE  NoReadyLeftWaiting'
<1> USE DEF TypeInv
<1> SUFFICES ASSUME started', ~Stopped', NEW m \in book.commands \ blocked,
                    status'[m] = "pending", GateOpen(m, succeeded)'
             PROVE  FALSE
  BY BookFixed DEF NoReadyLeftWaiting, Ready
<1>1. m \in Labels /\ status[m] = "pending"
  BY BookTyped, PendingShrinks
<1>2. ASSUME started, ~Stopped, succeeded' = succeeded PROVE FALSE
  BY <1>1, <1>2, BookFixed DEF NoReadyLeftWaiting, Ready, GateOpen
<1>3. CASE Start
  <2> DEFINE S == Ready(status, succeeded)
  <2>1. m \in S
    BY <1>1, <1>3 DEF Start, Ready, GateOpen, constants
  <2>2. SpawnResult(S, status, child, intent)
    BY <1>3, SpawningSteps
  <2>3. QED
    BY <2>1, <2>2 DEF SpawnResult
<1>4. CASE Stop \/ StopResume
  BY <1>4 DEF Stop, StopResume, Stopped
<1>5. ASSUME NEW l \in Labels,
             \/ RestartKill(l) \/ RestartRefused(l) \/ RestartSpawn(l) \/ RestartResume(l)
             \/ ProcExit(l) \/ RestartTimer(l)
      PROVE  FALSE
  BY <1>2, <1>5 DEF RestartKill, RestartRefused, RestartSpawn, RestartResume, ProcExit,
                    RestartTimer, Stopped
<1>6. ASSUME NEW l \in Labels,
             ExitForRestart(l) \/ ExitForStop(l) \/ ExitRetried(l) \/ ExitFailed(l)
      PROVE  FALSE
  BY <1>2, <1>6 DEF ExitForRestart, ExitForStop, ExitRetried, ExitFailed, Stopped
<1>7. ASSUME NEW l \in Labels, ExitOk(l) PROVE FALSE
  <2> DEFINE S == Ready(AfterOk(l), succeeded')
  <2>1. SpawnResult(S, AfterOk(l), Vacate(l), Disown(l))
    BY <1>7, SpawningSteps
  <2>2. m \notin S
    BY <2>1 DEF SpawnResult
  <2>3. AfterOk(l)[m] = "pending"
    <3> HIDE DEF S
    <3>1. QED
      BY <1>1, <2>1, <2>2 DEF SpawnResult
  <2>4. GateOpen(m, succeeded')
    BY <1>7 DEF ExitOk, GateOpen, constants
  <2>5. QED
    BY <2>2, <2>3, <2>4 DEF Ready
<1>8. QED
  BY <1>3, <1>4, <1>5, <1>6, <1>7 DEF Next

-----------------------------------------------------------------------------
(* The theorems. *)

LEMMA InvInit == Init => IInv
BY TypeInit, SlotInit, CascadeInit, ReadyInit DEF IInv

LEMMA InvStep == IInv /\ [Next]_vars => IInv'
<1> SUFFICES ASSUME IInv, [Next]_vars PROVE IInv'
  OBVIOUS
<1>1. CASE Next
  BY <1>1, TypeStep, SlotStep, CascadeStep, ReadyStep DEF IInv
<1>2. CASE UNCHANGED vars
  <2>1. TypeInv'
    BY <1>2, TypeStep DEF IInv
  <2>2. SlotInv'
    BY <1>2 DEF IInv, SlotInv, SlotOK, PendingIsFresh, SlotAgrees, GatePassed,
                RestartOwned, StopTakesHold, GateOpen, Stopped, vars
  <2>3. FailureCascaded' /\ NoReadyLeftWaiting'
    BY <1>2 DEF IInv, FailureCascaded, NoReadyLeftWaiting, Ready, GateOpen, Stopped, vars
  <2>4. QED
    BY <2>1, <2>2, <2>3 DEF IInv
<1>3. QED
  BY <1>1, <1>2

\* In every state of a run its statuses, processes, intents and timers agree, and
\* each suspended restart owns the exit it waits for (Slot of supervisor.ts).
THEOREM Invariance == Spec => []IInv
BY InvInit, InvStep, PTL DEF Spec

\* A command that has a process, is due for one or ever succeeded had all of
\* its dependencies exit 0 first.
THEOREM GatesAreRespected == Spec => []GateRespected
<1>1. IInv => GateRespected
  BY BookTyped DEF IInv, TypeInv, SlotInv, SlotOK, GatePassed, GateRespected
<1>2. QED
  BY <1>1, Invariance, PTL

\* No turn of the event loop leaves a startable command pending.
THEOREM ReadyCommandsAreSpawned == Spec => []NoReadyLeftWaiting
<1>1. IInv => NoReadyLeftWaiting
  BY DEF IInv
<1>2. QED
  BY <1>1, Invariance, PTL

\* A restarting command has exactly one party about to respawn it, and a
\* scheduled respawn finds its slot empty.
THEOREM RestartsHaveOneOwner == Spec => []RestartHasOneOwner
<1>1. IInv => RestartHasOneOwner
  BY BookTyped DEF IInv, TypeInv, TypeOK, SlotInv, SlotOK, RestartOwned, RestartHasOneOwner
<1>2. QED
  BY <1>1, Invariance, PTL

\* A run that reports "failed" has nothing left to happen in it.
THEOREM FailedRunsAreFinal == Spec => []FailedIsFinal
<1>1. ASSUME IInv, RunStatus = "failed", NEW l \in Labels
      PROVE  l \notin timer \cup inFlight /\ child[l] = "none"
  <2> /\ TypeOK /\ OnlyCommandsRun
      /\ PendingIsFresh(l) /\ SlotAgrees(l) /\ RestartOwned(l)
    BY <1>1 DEF IInv, TypeInv, SlotInv, SlotOK
  <2>1. ~Stopped
    BY <1>1, Zenon DEF RunStatus
  <2>2. \A k \in book.commands : status[k] \notin {"running", "restarting"}
    BY <1>1 DEF RunStatus
  <2>3. l \in book.commands \/ (child[l] = "none" /\ l \notin timer \cup inFlight)
    BY <1>1 DEF OnlyCommandsRun, TypeOK
  <2>4. QED
    BY <1>1, <2>1, <2>2, <2>3 DEF SlotAgrees, RestartOwned
<1>2. IInv => FailedIsFinal
  BY <1>1, BookTyped DEF IInv, TypeInv, TypeOK, FailedIsFinal
<1>3. QED
  BY <1>2, Invariance, PTL

\* When stop() has resolved nothing of the run is left.
THEOREM StoppedRunsAreQuiet == Spec => []StoppedIsQuiet
<1>1. IInv => StoppedIsQuiet
  BY BookTyped
  DEF IInv, TypeInv, TypeOK, SlotInv, SlotOK, StopTakesHold, StoppedIsQuiet, Stopped
<1>2. QED
  BY <1>1, Invariance, PTL

\* An unblocked pending command always waits for a task that is running or
\* being restarted.  Otherwise the pending commands it waits for, with itself,
\* would form a set outside of which reachableLabels would have found nothing
\* more to add, so the command would be blocked.
LEMMA HopeFromInv == IInv => WaitingHasHope
<1> SUFFICES ASSUME IInv, started, ~Stopped, NEW l \in book.commands \ blocked,
                    status[l] = "pending",
                    \A t \in book.commands : l \in Downstream(book, t) =>
                        status[t] \notin {"running", "restarting"}
             PROVE  FALSE
  BY DEF WaitingHasHope
<1> DEFINE Waiting == {x \in book.commands \ blocked :
                          status[x] = "pending" /\ (x = l \/ l \in Downstream(book, x))}
           S == book.commands \ Waiting
<1>0. /\ book \in Books /\ book.commands \subseteq Labels
      /\ book.commands \ blocked = Reachable(book)
  BY BookTyped DEF IInv, TypeInv, TypeOK, Reachable
<1>1. ASSUME NEW x \in Waiting, Satisfiable(book, x, S)
      PROVE  FALSE
  <2>1. PICK d \in book.dependsOn[x] : d \notin succeeded
    BY DEF IInv, NoReadyLeftWaiting, Ready, GateOpen
  <2>2. d \in book.commands /\ book.kind[d] = "task" /\ d \in S
    BY <1>1 DEF Satisfiable
  <2>3. d \in book.commands \ blocked
    BY <1>0, ReachableFixpoint DEF Satisfiable
  <2>4. x \in DirectDependents(book, d) /\ x # d
    BY <2>2 DEF DirectDependents
  <2>5. x \in Downstream(book, d)
    BY <1>0, <2>4, DownstreamDirect
  <2>6. d # l
    BY <2>2
  <2>7. l \in Downstream(book, d)
    BY <1>0, <2>5, <2>6, DownstreamTransitive
  <2>8. status[d] \notin {"running", "restarting"}
    BY <2>2, <2>7
  <2>9. status[d] # "exited" /\ status[d] # "stopped" /\ status[d] \in Statuses
    BY <1>0, <2>1, <2>2 DEF IInv, SlotInv, SlotOK, SlotAgrees, TypeInv, TypeOK
  <2>10. status[d] # "errored"
    BY <2>2, <2>7 DEF IInv, FailureCascaded
  <2>11. status[d] = "pending"
    BY <2>8, <2>9, <2>10 DEF Statuses
  <2>12. d \in Waiting
    BY <2>3, <2>7, <2>11
  <2>13. QED
    BY <2>2, <2>12
<1>2. ReachClosed(book, S)
  BY <1>1 DEF ReachClosed
<1>3. Reachable(book) \subseteq S
  BY <1>0, <1>2, ReachableLeast
<1>4. QED
  BY <1>0, <1>3

\* A command is left pending only as long as something it waits for can still come
\* up: spawnReady and cascade leave nobody out.
THEOREM WaitingCommandsHaveHope == Spec => []WaitingHasHope
BY HopeFromInv, Invariance, PTL

-----------------------------------------------------------------------------
(* What a step may do. *)

\* Steps that do not spawn create no process.
LEMMA QuietSteps ==
    ASSUME TypeInv, NEW l \in Labels, NEW m \in Labels, Spawned(m),
           \/ RestartKill(l) \/ RestartRefused(l) \/ ProcExit(l) \/ ExitForRestart(l)
           \/ ExitForStop(l) \/ ExitRetried(l) \/ ExitFailed(l)
    PROVE  FALSE
BY DEF TypeInv, TypeOK, Spawned, RestartKill, RestartRefused, ProcExit, ExitForRestart,
       ExitForStop, ExitRetried, ExitFailed, Vacate

\* ExitOk spawns only what was pending.
LEMMA OkSpawnsPending ==
    ASSUME TypeInv, SlotInv, NEW l \in Labels, NEW m \in Labels, Spawned(m), ExitOk(l)
    PROVE  status[m] = "pending" /\ child[m] = "none"
<1> DEFINE S == Ready(AfterOk(l), succeeded')
<1>1. SpawnResult(S, AfterOk(l), Vacate(l), Disown(l))
  BY SpawningSteps DEF TypeInv
<1>2. \A d \in S : AfterOk(l)[d] = "pending"
  BY DEF Ready
<1> HIDE DEF S
<1>3. m \in S
  BY <1>1 DEF SpawnResult, Spawned, Vacate, TypeInv, TypeOK
<1>4. status[m] = "pending"
  BY <1>2, <1>3 DEF AfterOk, TypeInv, TypeOK
<1>5. QED
  BY <1>4 DEF SlotInv, SlotOK, PendingIsFresh

\* A spawn only fills an empty slot, and never in a stopping run: neither a
\* timer nor a restart suspended across stop() brings a process back.
THEOREM NothingSpawnsAfterStop == Spec => NoSpawnAfterStop
<1>1. ASSUME IInv, Next, NEW m \in Labels, Spawned(m)
      PROVE  child[m] = "none" /\ ~Stopped /\ ~Stopped'
  <2> TypeInv /\ TypeOK /\ SlotInv
    BY <1>1 DEF IInv, TypeInv
  <2>1. CASE Start
    <3>1. SpawnResult(Ready(status, succeeded), status, child, intent)
      BY <2>1, SpawningSteps
    <3>2. child[m] = "none"
      BY <1>1, <3>1 DEF SpawnResult, Ready, Spawned, SlotInv, SlotOK, PendingIsFresh
    <3>3. QED
      BY <2>1, <3>2 DEF Start, Stopped
  <2>2. CASE Stop \/ StopResume
    BY <1>1, <2>2 DEF Stop, StopResume, Spawned
  <2>3. ASSUME NEW l \in Labels, RestartSpawn(l) \/ RestartResume(l) \/ RestartTimer(l)
        PROVE  child[m] = "none" /\ ~Stopped /\ ~Stopped'
    <3>1. child[l] = "none"
      BY <2>3 DEF RestartSpawn, RestartResume, RestartTimer, SlotInv, SlotOK, RestartOwned,
                  StopTakesHold
    <3>2. CASE UNCHANGED child
      BY <1>1, <3>2 DEF Spawned
    <3>3. CASE child' # child
      <4>1. SpawnResult({l}, status, child, intent) /\ ~Stopped
        BY <2>3, <3>3, SpawningSteps DEF RestartSpawn, MayRestart
      <4>2. m = l
        BY <1>1, <4>1 DEF SpawnResult, Spawned
      <4>3. stop' = stop
        BY <2>3 DEF RestartSpawn, RestartResume, RestartTimer
      <4>4. QED
        BY <3>1, <4>1, <4>2, <4>3 DEF Stopped
    <3>4. QED
      BY <3>2, <3>3
  <2>4. ASSUME NEW l \in Labels, ExitOk(l)
        PROVE  child[m] = "none" /\ ~Stopped /\ ~Stopped'
    BY <1>1, <2>4, OkSpawnsPending DEF ExitOk, OwnExit, Stopped
  <2>5. QED
    BY <1>1, <2>1, <2>2, <2>3, <2>4, QuietSteps DEF Next
<1>2. IInv /\ [Next]_vars =>
        [\A l \in Labels : Spawned(l) => child[l] = "none" /\ ~Stopped /\ ~Stopped']_vars
  BY <1>1
<1>3. QED
  BY <1>2, Invariance, PTL DEF Spec, NoSpawnAfterStop

\* Only a restart policy arms a timer.
TimersFollowPolicy == \A l \in timer : book.policy[l] # "never"

LEMMA PolicyStep == TimersFollowPolicy /\ [Next]_vars => TimersFollowPolicy'
<1> SUFFICES ASSUME TimersFollowPolicy, [Next]_vars PROVE TimersFollowPolicy'
  OBVIOUS
<1> USE DEF TimersFollowPolicy
<1>1. CASE Start \/ Stop \/ StopResume
  BY <1>1 DEF Start, Stop, StopResume, constants
<1>2. ASSUME NEW l \in Labels, RestartKill(l) \/ RestartSpawn(l) \/ RestartRefused(l)
                               \/ RestartResume(l) \/ RestartTimer(l) \/ ProcExit(l)
      PROVE  TimersFollowPolicy'
  BY <1>2 DEF RestartKill, RestartSpawn, RestartRefused, RestartResume, RestartTimer,
              ProcExit, constants
<1>3. ASSUME NEW l \in Labels, ExitForRestart(l) \/ ExitForStop(l) \/ ExitFailed(l)
      PROVE  TimersFollowPolicy'
  BY <1>3 DEF ExitForRestart, ExitForStop, ExitFailed, constants
<1>4. ASSUME NEW l \in Labels, ExitOk(l) \/ ExitRetried(l) PROVE TimersFollowPolicy'
  <2>1. ShouldRestart(l) => book.policy[l] # "never"
    BY DEF ShouldRestart
  <2>2. timer' \in {timer, timer \cup {l}} /\ (timer' # timer => ShouldRestart(l))
        /\ book' = book
    BY <1>4 DEF ExitOk, ExitRetried, constants
  <2>3. QED
    BY <2>1, <2>2
<1>5. CASE UNCHANGED vars
  BY <1>5 DEF vars
<1>6. QED
  BY <1>1, <1>2, <1>3, <1>4, <1>5 DEF Next

\* "Nothing restarts by itself": without a restart policy, a command gets a
\* second process only from restartCommand.
THEOREM NothingRestartsAlone == Spec => NothingRestartsByItself
<1>1. Init => TimersFollowPolicy
  BY DEF Init, TimersFollowPolicy
<1>2. ASSUME IInv, TimersFollowPolicy, Next, NEW m \in Labels, Spawned(m),
             book.policy[m] = "never", status[m] # "pending"
      PROVE  m \in inFlight \/ status[m] \in {"exited", "errored"}
  <2> TypeInv /\ TypeOK /\ SlotInv
    BY <1>2 DEF IInv, TypeInv
  <2>1. ~Start
    <3>1. SUFFICES ASSUME Start PROVE FALSE
      OBVIOUS
    <3>2. SpawnResult(Ready(status, succeeded), status, child, intent)
      BY <3>1, SpawningSteps
    <3>3. QED
      BY <1>2, <3>2 DEF SpawnResult, Ready, Spawned
  <2>2. ~(Stop \/ StopResume)
    BY <1>2 DEF Stop, StopResume, Spawned
  <2>3. ASSUME NEW l \in Labels, RestartSpawn(l) \/ RestartResume(l) \/ RestartTimer(l)
        PROVE  m \in inFlight \/ status[m] \in {"exited", "errored"}
    <3>1. child' # child
      BY <1>2 DEF Spawned
    <3>2. SpawnResult({l}, status, child, intent)
      BY <2>3, <3>1, SpawningSteps
    <3>3. m = l
      BY <1>2, <3>2 DEF SpawnResult, Spawned
    <3>4. ~RestartTimer(l)
      BY <1>2, <3>3 DEF RestartTimer, TimersFollowPolicy
    <3>5. CASE RestartResume(l)
      BY <3>3, <3>5 DEF RestartResume
    <3>6. CASE RestartSpawn(l)
      <4>1. child[m] = "none" /\ ~Stopped /\ m \notin timer
        BY <1>2, <3>3, <3>6 DEF RestartSpawn, MayRestart, TimersFollowPolicy
      <4>2. SlotAgrees(m) /\ RestartOwned(m)
        BY <1>2 DEF SlotInv, SlotOK
      <4>3. status[m] \in Statuses
        BY DEF TypeOK
      <4>4. QED
        BY <1>2, <4>1, <4>2, <4>3 DEF SlotAgrees, RestartOwned, Statuses
    <3>7. QED
      BY <2>3, <3>4, <3>5, <3>6
  <2>4. ASSUME NEW l \in Labels, ExitOk(l) PROVE FALSE
    BY <1>2, <2>4, OkSpawnsPending
  <2>5. QED
    BY <1>2, <2>1, <2>2, <2>3, <2>4, QuietSteps DEF Next
<1>3. IInv /\ TimersFollowPolicy /\ [Next]_vars =>
        [\A l \in Labels : Spawned(l) /\ book.policy[l] = "never" /\ status[l] # "pending"
              => l \in inFlight \/ status[l] \in {"exited", "errored"}]_vars
  BY <1>2
<1>4. QED
  BY <1>1, <1>3, PolicyStep, Invariance, PTL DEF Spec, NothingRestartsByItself

-----------------------------------------------------------------------------
(* The run implements PlaybookRun. *)

\* Both speak of the same graph.
LEMMA SameDownstream == \A b, l : Run!Downstream(b, l) = Downstream(b, l)
BY DEF Run!Downstream, Downstream, Run!DependentsClosed, DependentsClosed,
       Run!DirectDependents, DirectDependents

LEMMA SuccessorsAre ==
    /\ Run!Successors("running") = {"restarting", "exited", "errored"}
    /\ Run!Successors("restarting") = {"running", "errored"}
    /\ Run!Successors("exited") = {"running", "errored"}
    /\ Run!Successors("errored") = {"running"}
BY DEF Run!Successors

\* What a spawn does to the others: those that lose hope leave "pending" because a
\* task of S fails in this very step.
LEMMA OthersUnblock ==
    ASSUME TypeInv, FailureCascaded, book' = book,
           NEW S \in SUBSET book.commands, NEW st, NEW ch, NEW it,
           SpawnResult(S, st, ch, it),
           NEW k \in Labels \ S, st[k] = status[k]
    PROVE  Run!Same(k) \/ (k \in book.commands /\ Run!Unblock(k))
<1>1. CASE status'[k] = status[k]
  BY <1>1 DEF Run!Same
<1>2. CASE status'[k] # status[k]
  <2>1. /\ status[k] = "pending" /\ status'[k] = "errored"
        /\ \E f \in S : book.kind[f] = "task" /\ status'[f] = "errored"
                        /\ k \in Downstream(book, f)
    BY <1>2 DEF SpawnResult
  <2>2. PICK f \in S : book.kind[f] = "task" /\ status'[f] = "errored"
                       /\ k \in Downstream(book, f)
    BY <2>1
  <2>3. k \in book.commands /\ f \in book.commands
    BY <2>2, BookTyped, DownstreamIsCommands DEF TypeInv
  <2>4. status[f] # "errored"
    BY <2>1, <2>2, <2>3 DEF FailureCascaded
  <2> QED
    BY <2>1, <2>2, <2>3, <2>4, SameDownstream DEF Run!Unblock, Run!FailsNow
<1> QED
  BY <1>1, <1>2

\* A step of a live run in which l is the one that moves.
LEMMA MoverWorks ==
    ASSUME TypeInv, started, ~Stopped, started' = started, stop' = stop, book' = book,
           NEW l \in book.commands,
           succeeded' = succeeded \/ (succeeded' = succeeded \cup {l} /\ status[l] = "running"),
           Run!Same(l) \/ Run!Advance(l) \/ Run!Unblock(l),
           \A k \in Labels \ {l} : Run!Same(k) \/ (k \in book.commands /\ Run!Unblock(k))
    PROVE  Run!Next
<1>1. life = "live" /\ life' = "live"
  BY DEF life, Stopped
<1> QED
  BY <1>1 DEF Run!Next, Run!Work


LEMMA RunInit == Init => Run!Init
BY DEF Init, Run!Init, life, Stopped

\* The steps that no status tells of.
LEMMA UnseenSteps ==
    ASSUME IInv, NEW l \in Labels, RestartRefused(l) \/ ProcExit(l)
    PROVE  UNCHANGED Run!runVars
BY DEF RestartRefused, ProcExit, constants, Run!runVars, life, Stopped

LEMMA StartBegins == IInv /\ Start => Run!Next
<1> SUFFICES ASSUME IInv, Start PROVE Run!Next
  OBVIOUS
<1> TypeInv /\ FailureCascaded
  BY DEF IInv
<1> DEFINE S == Ready(status, succeeded)
<1>1. SpawnResult(S, status, child, intent)
  BY SpawningSteps DEF TypeInv
<1>2. S \in SUBSET book.commands /\ S \subseteq Labels
  BY BookTyped DEF Ready, TypeInv
<1>3. /\ life = "new" /\ life' = "live" /\ UNCHANGED <<book, succeeded>>
  BY DEF Start, life, Stopped, constants
<1>4. ASSUME NEW l \in S PROVE Run!Unblock(l)
  <2>1. status[l] = "pending" /\ book.dependsOn[l] \subseteq succeeded
    BY DEF Ready, GateOpen
  <2>2. status'[l] \in {"running", "errored"}
    BY <1>1 DEF SpawnResult
  <2> QED
    BY <1>3, <2>1, <2>2 DEF Run!Unblock, Run!GateMet
<1> HIDE DEF S
<1>5. ASSUME NEW k \in Labels \ S
      PROVE  Run!Same(k) \/ (k \in book.commands /\ Run!Unblock(k))
  BY <1>1, <1>2, <1>3, OthersUnblock
<1> QED
  BY <1>2, <1>3, <1>4, <1>5 DEF Run!Next, Run!Begin

LEMMA StopHalts == IInv /\ Stop => Run!Next
<1> SUFFICES ASSUME IInv, Stop PROVE Run!Next
  OBVIOUS
<1>1. life = "live" /\ life' = "stopping" /\ UNCHANGED <<book, succeeded>>
  BY DEF Stop, life, Stopped, constants
<1>2. ASSUME NEW l \in Labels
      PROVE  Run!Same(l) \/ (status[l] \in {"pending", "running", "restarting"}
                                /\ status'[l] = "stopped")
  BY DEF Stop, Run!Same
<1> QED
  BY <1>1, <1>2 DEF Run!Next, Run!Halt, Run!WindDown

LEMMA ResumeHalts == IInv /\ StopResume => Run!Next
<1> SUFFICES ASSUME IInv, StopResume PROVE Run!Next
  OBVIOUS
<1>1. life = "stopping" /\ life' = "stopped" /\ UNCHANGED <<book, succeeded>>
  BY DEF StopResume, life, Stopped, constants
<1>2. ASSUME NEW l \in Labels
      PROVE  Run!Same(l) \/ (status[l] \in {"pending", "running", "restarting"}
                                /\ status'[l] = "stopped")
  BY DEF StopResume, Run!Same
<1>3. ASSUME NEW l \in Labels PROVE status'[l] \in {"exited", "errored", "stopped"}
  <2>1. StopTakesHold(l) /\ SlotAgrees(l) /\ TypeOK
    BY DEF IInv, SlotInv, SlotOK, TypeInv
  <2>2. l \in settling => child[l] = "none"
    BY DEF StopResume
  <2>3. status[l] \in {"exited", "errored", "stopped"}
    BY <2>1, <2>2 DEF StopTakesHold, SlotAgrees, Stopped, StopResume
  <2> QED
    BY <2>3 DEF StopResume
<1>4. book.commands \subseteq Labels
  BY BookTyped DEF IInv, TypeInv
<1> QED
  BY <1>1, <1>2, <1>3, <1>4 DEF Run!Next, Run!Halted, Run!WindDown

\* The exits that runStop waits for.
LEMMA StoppedExits == ASSUME IInv, NEW l \in Labels, ExitForStop(l) PROVE Run!Next
<1>1. TypeOK /\ StopTakesHold(l) /\ SlotAgrees(l)
  BY DEF IInv, TypeInv, SlotInv, SlotOK
<1>2. child[l] # "none" /\ stop = "awaiting"
  BY <1>1 DEF ExitForStop, Ended, StopTakesHold, SlotAgrees, Stopped
<1>3. life = "stopping" /\ life' = "stopping" /\ UNCHANGED <<book, succeeded>>
  BY <1>2 DEF ExitForStop, life, Stopped, constants
<1>4. ASSUME NEW k \in Labels
      PROVE  Run!Same(k) \/ (status[k] \in {"pending", "running", "restarting"}
                                /\ status'[k] = "stopped")
  BY <1>1, <1>2 DEF ExitForStop, SlotAgrees, TypeOK, Run!Same
<1> QED
  BY <1>3, <1>4 DEF Run!Next, Run!Halting, Run!WindDown

\* A manual restart, or the first step of it.
LEMMA KillWorks == ASSUME IInv, NEW l \in Labels, RestartKill(l) PROVE Run!Next
<1>1. TypeInv /\ TypeOK /\ SlotAgrees(l) /\ l \in book.commands
  BY DEF IInv, TypeInv, SlotInv, SlotOK, RestartKill, MayRestart
<1>2. /\ started /\ ~Stopped
      /\ UNCHANGED <<started, stop, book, succeeded>>
      /\ status' = [status EXCEPT ![l] = "restarting"]
  BY DEF RestartKill, MayRestart, constants
<1>3. Run!Same(l) \/ Run!Advance(l)
  BY <1>1, <1>2, SuccessorsAre DEF SlotAgrees, RestartKill, Run!Same, Run!Advance, TypeOK
<1>4. \A k \in Labels \ {l} : Run!Same(k)
  BY <1>1, <1>2 DEF Run!Same, TypeOK
<1> QED
  BY <1>1, <1>2, <1>3, <1>4, MoverWorks

\* A respawn: a manual one, the end of a manual one, or a scheduled one.
LEMMA RespawnWorks ==
    ASSUME IInv, NEW l \in Labels, RestartSpawn(l) \/ RestartResume(l) \/ RestartTimer(l)
    PROVE  Run!Next \/ UNCHANGED Run!runVars
<1>1. /\ TypeInv /\ TypeOK /\ FailureCascaded
      /\ SlotAgrees(l) /\ RestartOwned(l) /\ GatePassed(l) /\ StopTakesHold(l)
  BY DEF IInv, TypeInv, SlotInv, SlotOK
<1>2. UNCHANGED <<book, started, stop, succeeded>>
  BY DEF RestartSpawn, RestartResume, RestartTimer, constants
<1>3. CASE UNCHANGED status
  BY <1>2, <1>3 DEF Run!runVars, life, Stopped
<1>4. CASE status' # status
  <2>1. SpawnResult({l}, status, child, intent) /\ ~Stopped
    BY <1>1, <1>4, SpawningSteps DEF RestartSpawn, MayRestart
  <2>2. l \in book.commands /\ started /\ child[l] = "none"
    BY <1>1, <2>1 DEF RestartSpawn, MayRestart, RestartResume, RestartTimer, RestartOwned,
                SlotAgrees, TypeOK
  <2>3. Run!GateMet(l)
    BY <1>1, <1>2, <1>4 DEF RestartSpawn, RestartResume, RestartTimer, GatePassed, GateOpen,
                      Run!GateMet
  <2>4. status'[l] \in {"running", "errored"}
    BY <2>1 DEF SpawnResult
  <2>5. status[l] \in {"pending", "restarting", "exited", "errored"}
    BY <1>1, <2>1, <2>2 DEF SlotAgrees, TypeOK, Statuses
  <2>6. Run!Same(l) \/ Run!Advance(l) \/ Run!Unblock(l)
    BY <2>3, <2>4, <2>5, SuccessorsAre DEF Run!Same, Run!Advance, Run!Unblock
  <2>7. \A k \in Labels \ {l} : Run!Same(k) \/ (k \in book.commands /\ Run!Unblock(k))
    BY <1>1, <1>2, <2>1, <2>2, OthersUnblock
  <2> QED
    BY <1>1, <1>2, <2>1, <2>2, <2>6, <2>7, MoverWorks
<1> QED
  BY <1>3, <1>4

\* An exit of its own accord, or one that a restart has asked for.
LEMMA ExitWorks ==
    ASSUME IInv, NEW l \in Labels,
           ExitForRestart(l) \/ ExitOk(l) \/ ExitRetried(l) \/ ExitFailed(l)
    PROVE  Run!Next
<1>1. /\ TypeInv /\ TypeOK /\ FailureCascaded /\ OnlyCommandsRun
      /\ SlotAgrees(l) /\ RestartOwned(l)
  BY DEF IInv, TypeInv, SlotInv, SlotOK
<1>2. child[l] # "none" /\ ~Stopped /\ UNCHANGED <<book, started, stop>>
  BY <1>1 DEF ExitForRestart, ExitOk, ExitRetried, ExitFailed, OwnExit, Ended, SlotAgrees,
        constants
<1>3. l \in book.commands /\ started /\ status[l] \in {"running", "restarting"}
  BY <1>1, <1>2 DEF OnlyCommandsRun, SlotAgrees
<1>4. CASE ExitForRestart(l)
  <2>1. status' = [status EXCEPT ![l] = "restarting"] /\ UNCHANGED succeeded
    BY <1>4 DEF ExitForRestart
  <2>2. Run!Same(l) \/ Run!Advance(l)
    BY <1>1, <1>3, <2>1, SuccessorsAre DEF Run!Same, Run!Advance, TypeOK
  <2>3. \A k \in Labels \ {l} : Run!Same(k)
    BY <1>1, <2>1 DEF Run!Same, TypeOK
  <2> QED
    BY <1>1, <1>2, <1>3, <2>1, <2>2, <2>3, MoverWorks
<1>5. CASE ~ExitForRestart(l)
  <2>1. intent[l] = "none"
    BY <1>5 DEF ExitOk, ExitRetried, ExitFailed, OwnExit
  <2>2. status[l] = "running"
    BY <1>1, <1>2, <1>3, <2>1 DEF RestartOwned
  <2>3. CASE ExitRetried(l)
    <3>1. status' = [status EXCEPT ![l] = "restarting"] /\ UNCHANGED succeeded
      BY <2>3 DEF ExitRetried
    <3>2. Run!Advance(l) /\ \A k \in Labels \ {l} : Run!Same(k)
      BY <1>1, <2>2, <3>1, SuccessorsAre DEF Run!Same, Run!Advance, TypeOK
    <3> QED
      BY <1>1, <1>2, <1>3, <3>1, <3>2, MoverWorks
  <2>4. CASE ExitFailed(l)
    <3>1. status'[l] = "errored" /\ UNCHANGED succeeded
      BY <1>1, <2>4, FailingStep DEF ExitFailed
    <3>2. Run!Advance(l)
      BY <2>2, <3>1, SuccessorsAre DEF Run!Advance
    <3>3. ASSUME NEW k \in Labels \ {l}
          PROVE  Run!Same(k) \/ (k \in book.commands /\ Run!Unblock(k))
      <4>1. CASE status'[k] = status[k]
        BY <4>1 DEF Run!Same
      <4>2. CASE status'[k] # status[k]
        <5>1. /\ status[k] = "pending" /\ status'[k] = "errored"
              /\ book.kind[l] = "task" /\ k \in Downstream(book, l)
          BY <1>1, <2>4, <4>2, FailingStep
        <5>2. k \in book.commands
          BY <1>1, <5>1, BookTyped, DownstreamIsCommands
        <5> QED
          BY <1>3, <2>2, <3>1, <5>1, <5>2, SameDownstream DEF Run!Unblock, Run!FailsNow
      <4> QED
        BY <4>1, <4>2
    <3> QED
      BY <1>1, <1>2, <1>3, <3>1, <3>2, <3>3, MoverWorks
  <2>5. CASE ExitOk(l)
    <3> DEFINE S == Ready(AfterOk(l), succeeded')
    <3>1. SpawnResult(S, AfterOk(l), Vacate(l), Disown(l))
      BY <1>1, <2>5, SpawningSteps
    <3>2. S \in SUBSET book.commands /\ S \subseteq Labels /\ l \notin S
      BY <1>1, BookTyped DEF Ready, AfterOk, TypeOK
    <3>3. succeeded' = succeeded \cup {l}
      BY <2>5 DEF ExitOk
    <3>4. AfterOk(l)[l] \in {"restarting", "exited"}
          /\ \A k \in Labels \ {l} : AfterOk(l)[k] = status[k]
      BY <1>1 DEF AfterOk, TypeOK
    <3>5. \A k \in S : AfterOk(l)[k] = "pending" /\ book.dependsOn[k] \subseteq succeeded'
      BY DEF Ready, GateOpen
    <3> HIDE DEF S
    <3>6. status'[l] = AfterOk(l)[l]
      BY <3>1, <3>2, <3>4 DEF SpawnResult
    <3>7. Run!Advance(l)
      BY <2>2, <3>3, <3>4, <3>6, SuccessorsAre DEF Run!Advance
    <3>8. ASSUME NEW k \in Labels \ {l}, k \in S PROVE k \in book.commands /\ Run!Unblock(k)
      <4>1. status[k] = "pending" /\ Run!GateMet(k)
        BY <3>4, <3>5, <3>8 DEF Run!GateMet
      <4>2. status'[k] \in {"running", "errored"}
        BY <3>1, <3>8 DEF SpawnResult
      <4> QED
        BY <3>2, <3>8, <4>1, <4>2 DEF Run!Unblock
    <3>9. ASSUME NEW k \in Labels \ {l}, k \notin S
          PROVE  Run!Same(k) \/ (k \in book.commands /\ Run!Unblock(k))
      BY <1>1, <1>2, <3>1, <3>2, <3>4, <3>9, OthersUnblock
    <3> QED
      BY <1>1, <1>2, <1>3, <2>2, <3>3, <3>7, <3>8, <3>9, MoverWorks
  <2> QED
    BY <1>5, <2>3, <2>4, <2>5
<1> QED
  BY <1>4, <1>5

LEMMA RunStep == IInv /\ [Next]_vars => [Run!Next]_Run!runVars
<1>1. UNCHANGED vars => UNCHANGED Run!runVars
  BY DEF vars, Run!runVars, life, Stopped
<1> QED
  BY <1>1, UnseenSteps, StartBegins, StopHalts, ResumeHalts, StoppedExits, KillWorks,
     RespawnWorks, ExitWorks DEF Next

\* The statuses a client is shown are those of a run as PlaybookRun describes it,
\* whatever processes, timers and kills do (the status getters and emit).
THEOREM RunsImplementPlaybookRun == Spec => ImplementsPlaybookRun
BY RunInit, RunStep, Invariance, PTL DEF Spec, ImplementsPlaybookRun, Run!Spec

-----------------------------------------------------------------------------
(* Recursion over what is finite. *)

\* Induction, stated for a set of numbers.
LEMMA NatSetInduction ==
    ASSUME NEW T, 0 \in T, \A n \in Nat : n \in T => n + 1 \in T
    PROVE  Nat \subseteq T
<1> DEFINE R == {ss \in Nat \X Nat : ss[1] < ss[2]}
<1>1. SUFFICES ASSUME Nat \ T # {} PROVE FALSE
  OBVIOUS
<1>2. IsWellFoundedOn(R, Nat)
  BY NatLessThanWellFounded, Zenon DEF OpToRel
<1>3. \A x \in Nat, y \in Nat : y < x => <<y, x>> \in R
  OBVIOUS
<1> HIDE DEF R
<1>4. PICK x \in Nat \ T : \A y \in Nat \ T : <<y, x>> \notin R
  BY <1>1, <1>2, WFMin
<1>5. x - 1 \in Nat /\ x - 1 \notin T
  <2>1. x # 0 /\ x \in Nat
    BY <1>4
  <2>2. x - 1 \in T => (x - 1) + 1 \in T
    BY <2>1
  <2> QED
    BY <1>4, <2>1, <2>2
<1>6. <<x - 1, x>> \in R
  BY <1>3, <1>4, <1>5
<1> QED
  BY <1>4, <1>5, <1>6

\* A finite set of numbers has a greatest.
LEMMA MaxIsMax ==
    ASSUME NEW n \in Nat, NEW S \in SUBSET (1..n), S # {}
    PROVE  Max(S) \in S /\ \A y \in S : Max(S) >= y
<1> DEFINE T == {k \in Nat : \A U \in SUBSET (1..k) : U # {} => \E x \in U : \A y \in U : x >= y}
<1>1. 0 \in T
  <2>1. 1..0 = {}
    OBVIOUS
  <2> QED
    BY <2>1
<1>2. ASSUME NEW k \in Nat, k \in T PROVE k + 1 \in T
  <2>1. ASSUME NEW U \in SUBSET (1..(k + 1)), U # {} PROVE \E x \in U : \A y \in U : x >= y
    <3>1. CASE k + 1 \in U
      BY <3>1
    <3>2. CASE k + 1 \notin U
      <4>1. U \in SUBSET (1..k)
        BY <3>2
      <4> QED
        BY <2>1, <4>1, <1>2
    <3> QED
      BY <3>1, <3>2
  <2> QED
    BY <2>1
<1>3. n \in T
  BY <1>1, <1>2, NatSetInduction
<1> QED
  BY <1>3 DEF Max

\* The intervals from 1 lose their greatest one by one.
LEMMA Interval ==
    ASSUME NEW k \in Nat \ {0}
    PROVE  1..k # {} /\ Max(1..k) = k /\ (1..k) \ {k} = 1..(k - 1)
<1>1. k \in Nat /\ k \in 1..k
  OBVIOUS
<1>2. Max(1..k) \in 1..k /\ Max(1..k) >= k
  BY <1>1, MaxIsMax
<1> QED
  BY <1>1, <1>2

\* What body makes of a function rests on its values at points of less weight.
RestsOnLess(D, V, m, body) ==
    \A f \in [D -> V], h \in [D -> V], x \in D :
       (\A y \in D : m[y] < m[x] => f[y] = h[y]) => body[<<f, x>>] = body[<<h, x>>]

Defines(D, V, body) == \E f \in [D -> V] : \A x \in D : f[x] = body[<<f, x>>]

\* Then it may be used to define a function by recursion.
LEMMA RecursionExists ==
    ASSUME NEW D, NEW V, V # {}, NEW m \in [D -> Nat], NEW body \in [[D -> V] \X D -> V],
           RestsOnLess(D, V, m, body)
    PROVE  Defines(D, V, body)
<1> DEFINE Rec(f, k) == \A x \in D : m[x] < k => f[x] = body[<<f, x>>]
           T == {k \in Nat : \E f \in [D -> V] : Rec(f, k)}
<1>0. \A x \in D : m[x] \in Nat
  OBVIOUS
<1> USE DEF RestsOnLess
<1>1. 0 \in T
  <2>1. PICK v \in V : TRUE
    OBVIOUS
  <2> DEFINE f == [x \in D |-> v]
  <2>2. f \in [D -> V] /\ Rec(f, 0)
    OBVIOUS
  <2> HIDE DEF f, Rec
  <2> QED
    BY <2>2
<1>2. ASSUME NEW k \in Nat, k \in T PROVE k + 1 \in T
  <2>1. PICK f \in [D -> V] : Rec(f, k)
    BY <1>2
  <2> DEFINE g == [x \in D |-> IF m[x] < k THEN f[x] ELSE body[<<f, x>>]]
  <2>2. g \in [D -> V]
    OBVIOUS
  <2>3. ASSUME NEW x \in D, m[x] < k + 1 PROVE g[x] = body[<<g, x>>]
    <3>1. \A y \in D : m[y] < m[x] => f[y] = g[y]
      BY <2>3
    <3>2. g[x] = body[<<f, x>>]
      BY <2>1
    <3> HIDE DEF g
    <3> QED
      BY <2>2, <3>1, <3>2
  <2> HIDE DEF g
  <2> QED
    BY <2>2, <2>3
<1>3. \A k \in Nat : \E f \in [D -> V] : Rec(f, k)
  <2> HIDE DEF Rec
  <2> QED
    BY <1>1, <1>2, NatSetInduction
<1>4. ASSUME NEW k \in Nat, NEW f \in [D -> V], NEW h \in [D -> V], Rec(f, k), Rec(h, k),
             NEW y \in D, m[y] < k
      PROVE  f[y] = h[y]
  <2> DEFINE U == {j \in Nat : \A x \in D : m[x] < j /\ m[x] < k => f[x] = h[x]}
  <2>1. 0 \in U
    OBVIOUS
  <2>2. ASSUME NEW j \in Nat, j \in U PROVE j + 1 \in U
    <3>1. SUFFICES ASSUME NEW x \in D, m[x] < j + 1, m[x] < k PROVE f[x] = h[x]
      OBVIOUS
    <3>2. \A z \in D : m[z] < m[x] => f[z] = h[z]
      BY <2>2, <3>1
    <3>3. body[<<f, x>>] = body[<<h, x>>]
      BY <3>2
    <3> QED
      BY <1>4, <3>1, <3>3
  <2> HIDE DEF U
  <2>3. k \in U
    BY <2>1, <2>2, NatSetInduction
  <2> QED
    BY <1>4, <2>3 DEF U
<1> DEFINE at(k) == CHOOSE f \in [D -> V] : Rec(f, k)
           F == [x \in D |-> at(m[x] + 1)[x]]
<1>5. \A k \in Nat : at(k) \in [D -> V] /\ Rec(at(k), k)
  BY <1>3
<1> HIDE DEF at
<1>6. F \in [D -> V]
  BY <1>5
<1>7. ASSUME NEW x \in D PROVE F[x] = body[<<F, x>>]
  <2>1. PICK k \in Nat : k = m[x] + 1
    OBVIOUS
  <2>2. PICK f \in [D -> V] : f = at(k) /\ Rec(f, k)
    BY <1>5
  <2>3. ASSUME NEW y \in D, m[y] < m[x] PROVE f[y] = F[y]
    <3>1. PICK j \in Nat : j = m[y] + 1
      OBVIOUS
    <3>2. PICK h \in [D -> V] : h = at(j) /\ Rec(h, j)
      BY <1>5
    <3>3. Rec(f, j)
      <4>1. j <= k
        BY <1>0, <2>1, <2>3, <3>1
      <4>2. ASSUME NEW z \in D, m[z] < j PROVE f[z] = body[<<f, z>>]
        <5>1. m[z] < k
          BY <1>0, <4>1, <4>2
        <5> QED
          BY <2>2, <5>1
      <4> QED
        BY <4>2
    <3>4. m[y] < j
      BY <3>1
    <3>5. f[y] = h[y]
      <4> HIDE DEF Rec
      <4> QED
        BY <1>4, <3>2, <3>3, <3>4
    <3> QED
      BY <3>1, <3>2, <3>5
  <2>4. F[x] = f[x] /\ f[x] = body[<<f, x>>]
    <3>1. m[x] < k
      BY <1>0, <2>1
    <3> QED
      BY <2>1, <2>2, <3>1
  <2> HIDE DEF F
  <2> QED
    BY <1>6, <2>3, <2>4
<1> HIDE DEF F
<1> QED
  BY <1>6, <1>7 DEF Defines

\* The function that FoldLeft chooses exists: what is folded over a set of places.
Folds(n, V, base, step) ==
    \E f \in [SUBSET (1..n) -> V] :
       \A s \in SUBSET (1..n) :
          f[s] = IF s = {} THEN base ELSE step[<<Max(s), f[s \ {Max(s)}]>>]

LEMMA FoldExists ==
    ASSUME NEW n \in Nat, NEW V, NEW base \in V, NEW step \in [(1..n) \X V -> V]
    PROVE  Folds(n, V, base, step)
<1> DEFINE D == SUBSET (1..n)
           m == [s \in D |-> IF s = {} THEN 0 ELSE Max(s)]
           body == [fs \in [D -> V] \X D |->
                      IF fs[2] = {} THEN base
                      ELSE step[<<Max(fs[2]), fs[1][fs[2] \ {Max(fs[2])}]>>]]
<1>1. ASSUME NEW s \in D, s # {}
      PROVE  /\ Max(s) \in 1..n /\ s \ {Max(s)} \in D
             /\ s \ {Max(s)} # {} => Max(s \ {Max(s)}) < Max(s)
  <2>1. Max(s) \in s /\ \A y \in s : Max(s) >= y
    BY <1>1, MaxIsMax
  <2>2. PICK t \in D : t = s \ {Max(s)}
    OBVIOUS
  <2>3. ASSUME t # {} PROVE Max(t) < Max(s)
    <3>1. Max(t) \in t
      BY <2>3, MaxIsMax
    <3>2. Max(t) \in s /\ Max(t) # Max(s) /\ Max(s) >= Max(t)
      BY <2>1, <2>2, <3>1
    <3>3. Max(t) \in 1..n /\ Max(s) \in 1..n
      BY <2>1, <3>2
    <3> QED
      BY <3>2, <3>3
  <2> QED
    BY <2>1, <2>2, <2>3
<1>2. ASSUME NEW s \in D PROVE m[s] \in Nat
  <2>1. CASE s = {}
    BY <2>1
  <2>2. CASE s # {}
    <3>1. Max(s) \in 1..n /\ m[s] = Max(s)
      BY <1>1, <2>2
    <3> QED
      BY <3>1
  <2> QED
    BY <2>1, <2>2
<1>3. ASSUME NEW f \in [D -> V], NEW s \in D
      PROVE  /\ body[<<f, s>>] = IF s = {} THEN base ELSE step[<<Max(s), f[s \ {Max(s)}]>>]
             /\ body[<<f, s>>] \in V
  <2>1. body[<<f, s>>] = IF s = {} THEN base ELSE step[<<Max(s), f[s \ {Max(s)}]>>]
    OBVIOUS
  <2> HIDE DEF body
  <2>2. CASE s = {}
    BY <2>1, <2>2
  <2>3. CASE s # {}
    <3>1. Max(s) \in 1..n /\ f[s \ {Max(s)}] \in V
      BY <1>1, <2>3
    <3> QED
      BY <2>1, <2>3, <3>1
  <2> QED
    BY <2>1, <2>2, <2>3
<1>4. ASSUME NEW f \in [D -> V], NEW h \in [D -> V], NEW s \in D,
             \A y \in D : m[y] < m[s] => f[y] = h[y]
      PROVE  body[<<f, s>>] = body[<<h, s>>]
  <2>1. CASE s = {}
    BY <1>3, <2>1
  <2>2. CASE s # {}
    <3>1. PICK t \in D : t = s \ {Max(s)}
      BY <1>1, <2>2
    <3>2. m[t] < m[s]
      BY <1>1, <2>2, <3>1
    <3>3. f[t] = h[t]
      BY <1>4, <3>2
    <3> HIDE DEF body, m
    <3>4. body[<<f, s>>] = step[<<Max(s), f[t]>>] /\ body[<<h, s>>] = step[<<Max(s), h[t]>>]
      BY <1>3, <2>2, <3>1
    <3> QED
      BY <3>3, <3>4, Zenon
  <2> QED
    BY <2>1, <2>2
<1> HIDE DEF m, body
<1>5. PICK f \in [D -> V] : \A s \in D : f[s] = body[<<f, s>>]
  <2> HIDE DEF D
  <2>1. V # {} /\ m \in [D -> Nat] /\ body \in [[D -> V] \X D -> V]
    BY <1>2, <1>3 DEF m, body
  <2>2. RestsOnLess(D, V, m, body)
    BY <1>4 DEF RestsOnLess
  <2>3. Defines(D, V, body)
    BY <2>1, <2>2, RecursionExists
  <2> QED
    BY <2>3 DEF Defines
<1>6. \A s \in D : f[s] = IF s = {} THEN base ELSE step[<<Max(s), f[s \ {Max(s)}]>>]
  <2> HIDE DEF D
  <2> QED
    BY <1>3, <1>5, Zenon
<1> QED
  BY <1>6, Zenon DEF Folds

-----------------------------------------------------------------------------
(* Lists of labels. *)

BooksOK == playbook \in Books /\ listing \in SetToSeqs(Labels)

\* The listing names every label once, so there are finitely many.
LEMMA ListingIs ==
    ASSUME BooksOK
    PROVE  /\ listing \in Seq(Labels) /\ Len(listing) = Cardinality(Labels)
           /\ Cardinality(Labels) \in Nat
           /\ \A l \in Labels : \E k \in 1..Len(listing) : listing[k] = l
<1>1. IsFiniteSet(Labels)
  BY AlgorithmsAssumption
<1>2. PICK n \in Nat : n = Cardinality(Labels)
  BY <1>1, FS_CardinalityType
<1>3. listing \in [1..n -> Labels] /\ \A i, j \in 1..n : i # j => listing[i] # listing[j]
  BY <1>2 DEF BooksOK, SetToSeqs
<1>4. listing \in Injection(1..n, Labels)
  BY <1>3 DEF Injection, IsInjective
<1>5. Cardinality(1..n) = n
  BY FS_Interval
<1>6. listing \in Surjection(1..n, Labels)
  BY <1>1, <1>2, <1>4, <1>5, FS_Injection
<1>7. listing \in Seq(Labels) /\ Len(listing) = n
  BY <1>3
<1> QED
  BY <1>2, <1>6, <1>7 DEF Surjection

\* The states of one pass of the loop in reachableLabels, label by label.
LEMMA ReachPassIs ==
    ASSUME BooksOK, NEW R \in SUBSET Labels
    PROVE  \E g : /\ g[0] = R /\ g[Len(listing)] = ReachPass(R)
                  /\ \A k \in 1..Len(listing) : g[k] = Reached(g[k - 1], listing[k])
<1>1. PICK n \in Nat : n = Len(listing) /\ listing \in Seq(Labels)
  BY ListingIs
<1> DEFINE Rec(f) == f = [s \in SUBSET (1..n) |->
                            IF s = {} THEN R ELSE Reached(f[s \ {Max(s)}], listing[Max(s)])]
           step == [kv \in (1..n) \X SUBSET Labels |-> Reached(kv[2], listing[kv[1]])]
           iter == CHOOSE f : Rec(f)
<1>2. \A k \in 1..n : listing[k] \in Labels
  BY <1>1
<1>3. \A k \in 1..n, v \in SUBSET Labels :
         /\ step[<<k, v>>] = Reached(v, listing[k])
         /\ Reached(v, listing[k]) \in SUBSET Labels
  BY <1>2 DEF Reached
<1>4. step \in [(1..n) \X SUBSET Labels -> SUBSET Labels]
  BY <1>2 DEF Reached
<1> HIDE DEF step
<1>5. Folds(n, SUBSET Labels, R, step)
  BY <1>4, FoldExists
<1>6. \E f : Rec(f)
  <2>1. PICK f \in [SUBSET (1..n) -> SUBSET Labels] :
           \A s \in SUBSET (1..n) :
              f[s] = IF s = {} THEN R ELSE step[<<Max(s), f[s \ {Max(s)}]>>]
    BY <1>5 DEF Folds
  <2>2. ASSUME NEW s \in SUBSET (1..n)
        PROVE  f[s] = IF s = {} THEN R ELSE Reached(f[s \ {Max(s)}], listing[Max(s)])
    <3>1. CASE s = {}
      BY <2>1, <3>1
    <3>2. CASE s # {}
      <4>1. Max(s) \in 1..n
        BY <3>2, MaxIsMax
      <4>2. PICK t \in SUBSET (1..n) : t = s \ {Max(s)}
        OBVIOUS
      <4>3. f[t] \in SUBSET Labels
        BY <4>2
      <4> QED
        BY <1>3, <2>1, <3>2, <4>1, <4>2, <4>3, Zenon
    <3> QED
      BY <3>1, <3>2
  <2>3. f = [s \in SUBSET (1..n) |->
               IF s = {} THEN R ELSE Reached(f[s \ {Max(s)}], listing[Max(s)])]
    BY <2>2
  <2> QED
    BY <2>3
<1>7. Rec(iter)
  BY <1>6
<1>8. ReachPass(R) = iter[1..n]
  <2>1. DOMAIN listing = 1..n
    BY <1>1
  <2>2. ReachPass(R) =
        (CHOOSE f : f = [s \in SUBSET (DOMAIN listing) |->
                            IF s = {} THEN R ELSE Reached(f[s \ {Max(s)}], listing[Max(s)])])[DOMAIN listing]
    BY DEF ReachPass, FoldLeft, MapThenFoldSet
  <2> QED
    BY <2>1, <2>2
<1> HIDE DEF iter
<1> DEFINE g == [k \in 0..n |-> iter[1..k]]
<1>9. iter[1..0] = R
  <2>1. 1..0 = {} /\ {} \in SUBSET (1..n)
    OBVIOUS
  <2>2. iter[{}] = R
    BY <1>7, <2>1, Zenon
  <2> QED
    BY <2>1, <2>2, Zenon
<1>10. ASSUME NEW k \in 1..n PROVE iter[1..k] = Reached(iter[1..(k - 1)], listing[k])
  <2>1. 1..k \in SUBSET (1..n) /\ 1..k # {} /\ Max(1..k) = k /\ (1..k) \ {k} = 1..(k - 1)
    <3>1. k \in Nat \ {0} /\ 1..k \in SUBSET (1..n)
      OBVIOUS
    <3> QED
      BY <3>1, Interval
  <2>2. iter[1..k] = Reached(iter[(1..k) \ {Max(1..k)}], listing[Max(1..k)])
    BY <1>7, <2>1, Zenon
  <2> QED
    BY <2>1, <2>2, Zenon
<1>11. g[0] = R /\ g[n] = ReachPass(R)
  BY <1>8, <1>9
<1>12. \A k \in 1..n : g[k] = Reached(g[k - 1], listing[k])
  BY <1>10
<1> HIDE DEF g
<1> QED
  BY <1>1, <1>11, <1>12


\* l is one of the elements of s.
Occurs(l, s) == \E k \in 1..Len(s) : s[k] = l

LEMMA OccursAppend ==
    ASSUME NEW T, NEW s \in Seq(T), NEW e \in T
    PROVE  /\ Append(s, e) \in Seq(T) /\ Len(Append(s, e)) = Len(s) + 1
           /\ Occurs(e, Append(s, e))
           /\ \A l : Occurs(l, s) => Occurs(l, Append(s, e))
<1>1. Append(s, e) \in Seq(T) /\ Len(Append(s, e)) = Len(s) + 1 /\ Len(s) \in Nat
  OBVIOUS
<1>2. Append(s, e)[Len(s) + 1] = e /\ \A k \in 1..Len(s) : Append(s, e)[k] = s[k]
  OBVIOUS
<1>3. Len(s) + 1 \in 1..Len(Append(s, e)) /\ \A k \in 1..Len(s) : k \in 1..Len(Append(s, e))
  BY <1>1
<1> QED
  BY <1>1, <1>2, <1>3 DEF Occurs

\* The list of the labels of S, as it grows.
LEMMA ListedSteps ==
    ASSUME BooksOK, NEW S \in SUBSET Labels
    PROVE  \E g : /\ g[0] = <<>> /\ g[Len(listing)] = Listed(S)
                  /\ \A k \in 1..Len(listing) :
                        g[k] = IF listing[k] \in S THEN Append(g[k - 1], listing[k]) ELSE g[k - 1]
<1>1. PICK n \in Nat : n = Len(listing) /\ listing \in Seq(Labels)
  BY ListingIs
<1> DEFINE More(v, l) == IF l \in S THEN Append(v, l) ELSE v
           Rec(f) == f = [s \in SUBSET (1..n) |->
                            IF s = {} THEN <<>> ELSE More(f[s \ {Max(s)}], listing[Max(s)])]
           step == [kv \in (1..n) \X Seq(S) |-> More(kv[2], listing[kv[1]])]
           iter == CHOOSE f : Rec(f)
<1>2. \A k \in 1..n : listing[k] \in Labels
  BY <1>1
<1>3. \A k \in 1..n, v \in Seq(S) :
         /\ step[<<k, v>>] = More(v, listing[k])
         /\ More(v, listing[k]) \in Seq(S)
  BY <1>2
<1>4. step \in [(1..n) \X Seq(S) -> Seq(S)]
  BY <1>2
<1> HIDE DEF step
<1>5. Folds(n, Seq(S), <<>>, step)
  <2>1. <<>> \in Seq(S)
    OBVIOUS
  <2> QED
    BY <1>4, <2>1, FoldExists
<1>6. \E f : Rec(f)
  <2>1. PICK f \in [SUBSET (1..n) -> Seq(S)] :
           \A s \in SUBSET (1..n) :
              f[s] = IF s = {} THEN <<>> ELSE step[<<Max(s), f[s \ {Max(s)}]>>]
    BY <1>5 DEF Folds
  <2> HIDE DEF More
  <2>2. ASSUME NEW s \in SUBSET (1..n)
        PROVE  f[s] = IF s = {} THEN <<>> ELSE More(f[s \ {Max(s)}], listing[Max(s)])
    <3>1. CASE s = {}
      BY <2>1, <3>1
    <3>2. CASE s # {}
      <4>1. Max(s) \in 1..n
        BY <3>2, MaxIsMax
      <4>2. PICK t \in SUBSET (1..n) : t = s \ {Max(s)}
        OBVIOUS
      <4>3. f[t] \in Seq(S)
        BY <4>2
      <4> QED
        BY <1>3, <2>1, <3>2, <4>1, <4>2, <4>3, Zenon
    <3> QED
      BY <3>1, <3>2
  <2>3. f = [s \in SUBSET (1..n) |->
               IF s = {} THEN <<>> ELSE More(f[s \ {Max(s)}], listing[Max(s)])]
    BY <2>2
  <2> QED
    BY <2>3
<1>7. Rec(iter)
  BY <1>6
<1>8. Listed(S) = iter[1..n]
  <2>1. DOMAIN listing = 1..n
    BY <1>1
  <2>2. Listed(S) =
        (CHOOSE f : f = [s \in SUBSET (DOMAIN listing) |->
                            IF s = {} THEN <<>> ELSE More(f[s \ {Max(s)}], listing[Max(s)])])[DOMAIN listing]
    BY DEF Listed, FoldLeft, MapThenFoldSet
  <2> QED
    BY <2>1, <2>2
<1> HIDE DEF iter, More
<1> DEFINE g == [k \in 0..n |-> iter[1..k]]
<1>9. iter[1..0] = <<>>
  <2>1. 1..0 = {} /\ {} \in SUBSET (1..n)
    OBVIOUS
  <2>2. iter[{}] = <<>>
    BY <1>7, <2>1, Zenon
  <2> QED
    BY <2>1, <2>2, Zenon
<1>10. ASSUME NEW k \in 1..n PROVE iter[1..k] = More(iter[1..(k - 1)], listing[k])
  <2>1. 1..k \in SUBSET (1..n) /\ 1..k # {} /\ Max(1..k) = k /\ (1..k) \ {k} = 1..(k - 1)
    <3>1. k \in Nat \ {0} /\ 1..k \in SUBSET (1..n)
      OBVIOUS
    <3> QED
      BY <3>1, Interval
  <2>2. iter[1..k] = More(iter[(1..k) \ {Max(1..k)}], listing[Max(1..k)])
    BY <1>7, <2>1, Zenon
  <2> QED
    BY <2>1, <2>2, Zenon
<1>11. g[0] = <<>> /\ g[n] = Listed(S)
  BY <1>8, <1>9
<1>12. \A k \in 1..n : g[k] = More(g[k - 1], listing[k])
  BY <1>10
<1> HIDE DEF g
<1> QED
  BY <1>1, <1>11, <1>12 DEF More

\* It holds the labels of S and is no longer than the listing.
LEMMA ListedIs ==
    ASSUME BooksOK, NEW S \in SUBSET Labels
    PROVE  /\ Listed(S) \in Seq(S) /\ Len(Listed(S)) <= Cardinality(Labels)
           /\ \A l \in S : Occurs(l, Listed(S))
<1>1. PICK n \in Nat : n = Len(listing) /\ n = Cardinality(Labels) /\ listing \in Seq(Labels)
  BY ListingIs
<1>2. PICK g : /\ g[0] = <<>> /\ g[n] = Listed(S)
               /\ \A k \in 1..n :
                     g[k] = IF listing[k] \in S THEN Append(g[k - 1], listing[k]) ELSE g[k - 1]
  BY <1>1, ListedSteps
<1> DEFINE OK(k) == /\ g[k] \in Seq(S) /\ Len(g[k]) <= k
                    /\ \A j \in 1..k : listing[j] \in S => Occurs(listing[j], g[k])
           T == {k \in Nat : k <= n => OK(k)}
<1>3. 0 \in T
  <2>1. <<>> \in Seq(S) /\ Len(<<>>) = 0 /\ 1..0 = {}
    OBVIOUS
  <2>2. OK(0)
    BY <1>2, <2>1
  <2> HIDE DEF OK
  <2> QED
    BY <2>2
<1>4. ASSUME NEW k \in Nat, k \in T PROVE k + 1 \in T
  <2>1. SUFFICES ASSUME k + 1 <= n PROVE OK(k + 1)
    OBVIOUS
  <2>2. k + 1 \in 1..n /\ (k + 1) - 1 = k /\ k <= n
    BY <1>1, <2>1
  <2>3. OK(k)
    BY <1>4, <2>2
  <2>4. \A j \in 1..(k + 1) : j = k + 1 \/ j \in 1..k
    OBVIOUS
  <2>5. PICK s \in Seq(S) : s = g[k]
    BY <2>3
  <2>6. CASE listing[k + 1] \in S
    <3>1. PICK e \in S : e = listing[k + 1]
      BY <2>6
    <3>2. g[k + 1] = Append(s, e)
      BY <1>2, <2>2, <2>5, <2>6, <3>1
    <3>3. /\ Append(s, e) \in Seq(S) /\ Len(Append(s, e)) = Len(s) + 1
          /\ Occurs(e, Append(s, e))
          /\ \A l : Occurs(l, s) => Occurs(l, Append(s, e))
      BY OccursAppend, Zenon
    <3>4. Len(s) <= k /\ Len(s) \in Nat
      BY <2>3, <2>5
    <3>5. Len(g[k + 1]) <= k + 1
      BY <3>2, <3>3, <3>4
    <3> QED
      BY <2>3, <2>4, <2>5, <3>1, <3>2, <3>3, <3>5
  <2>7. CASE listing[k + 1] \notin S
    <3>1. g[k + 1] = s
      BY <1>2, <2>2, <2>5, <2>7
    <3>2. Len(s) <= k + 1
      BY <2>3, <2>5
    <3> QED
      BY <2>3, <2>4, <2>5, <2>7, <3>1, <3>2
  <2> QED
    BY <2>6, <2>7
<1>5. OK(n)
  <2> HIDE DEF OK
  <2>1. n \in T
    <3> HIDE DEF T
    <3> QED
      BY <1>3, <1>4, NatSetInduction
  <2> QED
    BY <2>1
<1>6. \A l \in S : \E j \in 1..n : listing[j] = l
  BY <1>1, ListingIs
<1> QED
  BY <1>1, <1>2, <1>5, <1>6

-----------------------------------------------------------------------------
(* reachableLabels. *)

\* A pass adds what the gates let through and nothing else; one that adds nothing
\* has found a closed set.
LEMMA ReachPassAdds ==
    ASSUME BooksOK, NEW R \in SUBSET Labels
    PROVE  /\ ReachPass(R) \in SUBSET Labels /\ R \subseteq ReachPass(R)
           /\ R \subseteq Reachable(playbook) => ReachPass(R) \subseteq Reachable(playbook)
           /\ ReachPass(R) = R => ReachClosed(playbook, R)
<1>1. PICK n \in Nat : n = Len(listing) /\ listing \in Seq(Labels)
  BY ListingIs
<1>2. PICK g : /\ g[0] = R /\ g[n] = ReachPass(R)
               /\ \A k \in 1..n : g[k] = Reached(g[k - 1], listing[k])
  BY <1>1, ReachPassIs
<1>3. playbook \in Books /\ playbook.commands \subseteq Labels
  BY DEF BooksOK, Books
<1> DEFINE OK(k) == /\ g[k] \in SUBSET Labels
                    /\ \A j \in 0..k : g[j] \subseteq g[k]
                    /\ R \subseteq Reachable(playbook) => g[k] \subseteq Reachable(playbook)
           T == {k \in Nat : k <= n => OK(k)}
<1>4. 0 \in T
  <2>1. OK(0)
    BY <1>2
  <2> HIDE DEF OK
  <2> QED
    BY <2>1
<1>5. ASSUME NEW k \in Nat, k \in T PROVE k + 1 \in T
  <2>1. SUFFICES ASSUME k + 1 <= n PROVE OK(k + 1)
    OBVIOUS
  <2>2. k + 1 \in 1..n /\ (k + 1) - 1 = k /\ k <= n
    BY <1>1, <2>1
  <2>3. OK(k)
    BY <1>5, <2>2
  <2>4. PICK c \in Labels : c = listing[k + 1]
    BY <1>1, <2>2
  <2>5. g[k + 1] = Reached(g[k], c)
    BY <1>2, <2>2, <2>4
  <2>6. g[k] \subseteq g[k + 1] /\ g[k + 1] \in SUBSET Labels
    BY <2>3, <2>5 DEF Reached
  <2>7. \A j \in 0..(k + 1) : j = k + 1 \/ j \in 0..k
    OBVIOUS
  <2>8. ASSUME R \subseteq Reachable(playbook)
        PROVE  g[k + 1] \subseteq Reachable(playbook)
    <3>1. g[k] \subseteq Reachable(playbook)
      BY <2>3, <2>8
    <3>2. ASSUME c \in playbook.commands, Satisfiable(playbook, c, g[k])
          PROVE  c \in Reachable(playbook)
      <4>1. Satisfiable(playbook, c, Reachable(playbook))
        BY <3>1, <3>2 DEF Satisfiable
      <4> QED
        BY <1>3, <3>2, <4>1, ReachableFixpoint
    <3> QED
      BY <2>5, <3>1, <3>2 DEF Reached
  <2> QED
    BY <2>3, <2>6, <2>7, <2>8
<1>6. \A k \in 0..n : OK(k)
  <2> HIDE DEF OK
  <2>1. Nat \subseteq T
    <3> HIDE DEF T
    <3> QED
      BY <1>4, <1>5, NatSetInduction
  <2> QED
    BY <2>1
<1>7. 0 \in 0..n /\ n \in 0..n
  OBVIOUS
<1>8. ASSUME ReachPass(R) = R, NEW c \in playbook.commands, Satisfiable(playbook, c, R)
      PROVE  c \in R
  <2>1. PICK k \in 1..n : listing[k] = c
    BY <1>1, <1>3, ListingIs
  <2>2. k \in 0..n /\ k - 1 \in 0..n /\ 0 \in 0..k /\ 0 \in 0..(k - 1)
    OBVIOUS
  <2>3. g[k - 1] = R
    <3>1. R \subseteq g[k - 1]
      BY <1>2, <1>6, <2>2
    <3>2. g[k - 1] \subseteq g[n]
      BY <1>6, <1>7, <2>2
    <3> QED
      BY <1>2, <1>8, <3>1, <3>2
  <2>4. g[k] = Reached(R, c)
    BY <1>2, <2>1, <2>3
  <2>5. c \in g[k]
    BY <1>8, <2>4 DEF Reached
  <2> QED
    BY <1>2, <1>6, <1>7, <1>8, <2>2, <2>5
<1>9. R \subseteq g[n] /\ g[n] \in SUBSET Labels /\ (R \subseteq Reachable(playbook) => g[n] \subseteq Reachable(playbook))
  BY <1>2, <1>6, <1>7
<1> QED
  BY <1>2, <1>8, <1>9 DEF ReachClosed

\* What is left of the labels shrinks as a set of them grows.
Left == [S \in SUBSET Labels |-> Cardinality(Labels \ S)]

LEMMA LeftShrinks ==
    ASSUME IsFiniteSet(Labels)
    PROVE  /\ Left \in [SUBSET Labels -> Nat]
           /\ \A S, T \in SUBSET Labels : S \subseteq T /\ S # T => Left[T] < Left[S]
<1>1. ASSUME NEW S \in SUBSET Labels PROVE Cardinality(Labels \ S) \in Nat
  <2>1. IsFiniteSet(Labels \ S)
    BY FS_Subset
  <2> QED
    BY <2>1, FS_CardinalityType
<1>2. ASSUME NEW S \in SUBSET Labels, NEW T \in SUBSET Labels, S \subseteq T, S # T
      PROVE  Cardinality(Labels \ T) < Cardinality(Labels \ S)
  <2>1. PICK A : A = Labels \ S
    OBVIOUS
  <2>2. PICK B : B = Labels \ T
    OBVIOUS
  <2>3. B \in SUBSET A /\ A # B /\ A \in SUBSET Labels
    BY <1>2, <2>1, <2>2
  <2>4. IsFiniteSet(A)
    BY <2>3, FS_Subset
  <2>5. Cardinality(B) <= Cardinality(A) /\ (Cardinality(B) = Cardinality(A) => A = B)
    BY <2>3, <2>4, FS_Subset
  <2>6. Cardinality(A) \in Nat /\ Cardinality(B) \in Nat
    BY <1>1, <2>1, <2>2
  <2> QED
    BY <2>1, <2>2, <2>3, <2>5, <2>6
<1> QED
  BY <1>1, <1>2 DEF Left

\* The loop ends, and from a reachable set it ends in all that is reachable.
LEMMA ReachableLoop ==
    ASSUME BooksOK
    PROVE  ReachableLoopIsExact
<1> DEFINE D == SUBSET Labels
           body == [fR \in [D -> D] \X D |->
                      IF ReachPass(fR[2]) = fR[2] THEN fR[2] ELSE fR[1][ReachPass(fR[2])]]
           Rec(f) == f = [R \in D |-> IF ReachPass(R) = R THEN R ELSE f[ReachPass(R)]]
           loop == CHOOSE f : Rec(f)
<1>1. /\ Left \in [D -> Nat]
      /\ \A S, T \in D : S \subseteq T /\ S # T => Left[T] < Left[S]
  BY AlgorithmsAssumption, LeftShrinks
<1>2. \A R \in D : /\ ReachPass(R) \in D /\ R \subseteq ReachPass(R)
                   /\ R \subseteq Reachable(playbook) => ReachPass(R) \subseteq Reachable(playbook)
                   /\ ReachPass(R) = R => ReachClosed(playbook, R)
  BY ReachPassAdds
<1>3. \A f \in [D -> D], R \in D :
         body[<<f, R>>] = IF ReachPass(R) = R THEN R ELSE f[ReachPass(R)]
  OBVIOUS
<1>4. body \in [[D -> D] \X D -> D]
  BY <1>2
<1> HIDE DEF D, body
<1>5. D # {}
  BY DEF D
<1>6. RestsOnLess(D, D, Left, body)
  <2>1. SUFFICES ASSUME NEW f \in [D -> D], NEW h \in [D -> D], NEW R \in D,
                        \A S \in D : Left[S] < Left[R] => f[S] = h[S]
                 PROVE  body[<<f, R>>] = body[<<h, R>>]
    BY DEF RestsOnLess
  <2>2. ReachPass(R) # R => f[ReachPass(R)] = h[ReachPass(R)]
    BY <1>1, <1>2, <2>1
  <2> QED
    BY <1>3, <2>2
<1>7. PICK f \in [D -> D] : \A R \in D : f[R] = body[<<f, R>>]
  <2>1. Defines(D, D, body)
    BY <1>1, <1>4, <1>5, <1>6, RecursionExists
  <2> QED
    BY <2>1 DEF Defines
<1>8. Rec(f)
  <2>1. \A R \in D : f[R] = IF ReachPass(R) = R THEN R ELSE f[ReachPass(R)]
    BY <1>3, <1>7
  <2> QED
    BY <2>1
<1>9. Rec(loop)
  BY <1>8
<1>10. ReachableLabels = loop[{}]
  BY DEF ReachableLabels, D
<1>11. \A R \in D : loop[R] = IF ReachPass(R) = R THEN R ELSE loop[ReachPass(R)]
  BY <1>9
<1> HIDE DEF loop
<1> DEFINE T == {k \in Nat : \A R \in D : Left[R] < k /\ R \subseteq Reachable(playbook) =>
                    /\ loop[R] \subseteq Reachable(playbook)
                    /\ ReachClosed(playbook, loop[R])}
<1>12. 0 \in T
  BY <1>1
<1>13. ASSUME NEW k \in Nat, k \in T PROVE k + 1 \in T
  <2>1. SUFFICES ASSUME NEW R \in D, Left[R] < k + 1, R \subseteq Reachable(playbook)
                 PROVE  /\ loop[R] \subseteq Reachable(playbook)
                        /\ ReachClosed(playbook, loop[R])
    OBVIOUS
  <2>2. CASE ReachPass(R) = R
    BY <1>2, <1>11, <2>1, <2>2
  <2>3. CASE ReachPass(R) # R
    <3>1. PICK S \in D : S = ReachPass(R)
      BY <1>2
    <3>2. Left[S] < Left[R] /\ S \subseteq Reachable(playbook)
      BY <1>1, <1>2, <2>1, <2>3, <3>1
    <3>3. Left[S] < k
      <4>1. Left[S] \in Nat /\ Left[R] \in Nat
        BY <1>1
      <4> QED
        BY <2>1, <3>2, <4>1
    <3>4. loop[R] = loop[S]
      BY <1>11, <2>3, <3>1
    <3> QED
      BY <1>13, <3>2, <3>3, <3>4
  <2> QED
    BY <2>2, <2>3
<1>14. loop[{}] \subseteq Reachable(playbook) /\ ReachClosed(playbook, loop[{}])
  <2>1. {} \in D
    BY DEF D
  <2>2. PICK k \in Nat : k = Left[{}] + 1
    BY <1>1, <2>1
  <2>3. Nat \subseteq T
    <3> HIDE DEF T
    <3> QED
      BY <1>12, <1>13, NatSetInduction
  <2>4. Left[{}] < k
    BY <1>1, <2>1, <2>2
  <2> QED
    BY <2>1, <2>3, <2>4
<1>15. Reachable(playbook) \subseteq playbook.commands
  BY DEF Reachable
<1>16. Reachable(playbook) \subseteq loop[{}]
  BY <1>14, <1>15, ReachableLeast DEF BooksOK
<1> QED
  BY <1>10, <1>14, <1>16 DEF ReachableLoopIsExact

LEMMA OccursCat ==
    ASSUME NEW T, NEW s \in Seq(T), NEW t \in Seq(T)
    PROVE  /\ s \o t \in Seq(T) /\ Len(s \o t) = Len(s) + Len(t)
           /\ \A x : Occurs(x, s) \/ Occurs(x, t) => Occurs(x, s \o t)
<1>1. s \o t \in Seq(T) /\ Len(s \o t) = Len(s) + Len(t) /\ Len(s) \in Nat /\ Len(t) \in Nat
  OBVIOUS
<1>2. \A k \in 1..Len(s) : (s \o t)[k] = s[k] /\ k \in 1..Len(s \o t)
  OBVIOUS
<1>3. ASSUME NEW k \in 1..Len(t)
      PROVE  (s \o t)[Len(s) + k] = t[k] /\ Len(s) + k \in 1..Len(s \o t)
  OBVIOUS
<1> QED
  BY <1>1, <1>2, <1>3 DEF Occurs

LEMMA OccursTail ==
    ASSUME NEW T, NEW s \in Seq(T), s # <<>>
    PROVE  /\ Head(s) \in T /\ Tail(s) \in Seq(T) /\ Len(Tail(s)) = Len(s) - 1
           /\ Len(s) \in Nat \ {0} /\ Occurs(Head(s), s)
           /\ \A x : Occurs(x, Tail(s)) => Occurs(x, s)
           /\ \A x : Occurs(x, s) => x = Head(s) \/ Occurs(x, Tail(s))
<1>1. Head(s) \in T /\ Tail(s) \in Seq(T) /\ Len(Tail(s)) = Len(s) - 1 /\ Len(s) \in Nat \ {0}
  OBVIOUS
<1>2. Head(s) = s[1] /\ 1 \in 1..Len(s)
  BY <1>1
<1>3. ASSUME NEW k \in 1..Len(Tail(s)) PROVE Tail(s)[k] = s[k + 1] /\ k + 1 \in 1..Len(s)
  BY <1>1
<1>4. ASSUME NEW k \in 1..Len(s), k # 1 PROVE s[k] = Tail(s)[k - 1] /\ k - 1 \in 1..Len(Tail(s))
  BY <1>1, <1>4
<1>5. \A x : Occurs(x, Tail(s)) => Occurs(x, s)
  BY <1>3 DEF Occurs
<1>6. \A x : Occurs(x, s) => x = Head(s) \/ Occurs(x, Tail(s))
  BY <1>2, <1>4 DEF Occurs
<1> QED
  BY <1>1, <1>2, <1>5, <1>6 DEF Occurs

\* The weight of a set of labels and a list: the set counts first.
LEMMA Weights ==
    ASSUME NEW n \in Nat, NEW i \in Nat, NEW j \in Nat, NEW p \in Nat, NEW q \in Nat,
           \/ i < j /\ p <= q + n
           \/ i = j /\ p < q
    PROVE  i * (n + 1) + p < j * (n + 1) + q
<1>1. CASE i < j /\ p <= q + n
  <2>1. PICK e \in Nat : j = i + 1 + e
    <3>1. j - i - 1 \in Nat /\ j = i + 1 + (j - i - 1)
      BY <1>1
    <3> QED
      BY <3>1
  <2>2. j * (n + 1) = i * (n + 1) + (n + 1) + e * (n + 1)
    BY <2>1
  <2>3. i * (n + 1) \in Nat /\ e * (n + 1) \in Nat
    OBVIOUS
  <2> QED
    BY <1>1, <2>2, <2>3
<1>2. CASE i = j /\ p < q
  <2>1. i * (n + 1) \in Nat
    OBVIOUS
  <2> QED
    BY <1>2, <2>1
<1> QED
  BY <1>1, <1>2

Weight(S, s) == Left[S] * (Cardinality(Labels) + 1) + Len(s)

LEMMA WeightDrops ==
    ASSUME BooksOK
    PROVE  /\ \A S \in SUBSET Labels, s \in Seq(Labels) : Weight(S, s) \in Nat
           /\ \A S, T \in SUBSET Labels, s, t \in Seq(Labels) :
                 \/ S \subseteq T /\ S # T /\ Len(t) <= Len(s) + Cardinality(Labels)
                 \/ S = T /\ Len(t) < Len(s)
                 => Weight(T, t) < Weight(S, s)
<1>1. /\ Left \in [SUBSET Labels -> Nat]
      /\ \A S, T \in SUBSET Labels : S \subseteq T /\ S # T => Left[T] < Left[S]
  BY AlgorithmsAssumption, LeftShrinks
<1>2. PICK n \in Nat : n = Cardinality(Labels)
  BY ListingIs
<1>3. ASSUME NEW S \in SUBSET Labels, NEW s \in Seq(Labels) PROVE Weight(S, s) \in Nat
  <2>1. Left[S] \in Nat /\ Len(s) \in Nat
    BY <1>1
  <2> QED
    BY <1>2, <2>1 DEF Weight
<1>4. ASSUME NEW S \in SUBSET Labels, NEW T \in SUBSET Labels, NEW s \in Seq(Labels), NEW t \in Seq(Labels),
             \/ S \subseteq T /\ S # T /\ Len(t) <= Len(s) + Cardinality(Labels)
             \/ S = T /\ Len(t) < Len(s)
      PROVE  Weight(T, t) < Weight(S, s)
  <2>1. PICK i \in Nat, j \in Nat, p \in Nat, q \in Nat :
           i = Left[T] /\ j = Left[S] /\ p = Len(t) /\ q = Len(s)
    <3>1. Left[T] \in Nat /\ Left[S] \in Nat /\ Len(t) \in Nat /\ Len(s) \in Nat
      BY <1>1
    <3> QED
      BY <3>1
  <2>2. \/ i < j /\ p <= q + n
        \/ i = j /\ p < q
    BY <1>1, <1>2, <1>4, <2>1
  <2>3. i * (n + 1) + p < j * (n + 1) + q
    BY <2>2, Weights, Zenon
  <2> QED
    BY <1>2, <2>1, <2>3, Zenon DEF Weight
<1> QED
  BY <1>3, <1>4

-----------------------------------------------------------------------------
(* cascade. *)

Turns == [queue : Seq(Labels), seen : SUBSET Labels]

\* What is queued was seen, what was seen depends on l or is l, and the
\* dependents of what was seen and is no longer queued were seen too.
CascadeOK(l, s) ==
    /\ s.queue \in Seq(s.seen)
    /\ l \in s.seen
    /\ s.seen \subseteq Downstream(playbook, l) \cup {l}
    /\ \A x \in s.seen : Occurs(x, s.queue) \/ DirectDependents(playbook, x) \subseteq s.seen

\* A turn of the queue lessens the weight and keeps CascadeOK.
LEMMA TurnIs ==
    ASSUME BooksOK, NEW s \in Turns, s.queue # <<>>
    PROVE  /\ Turn(s) \in Turns
           /\ Weight(Turn(s).seen, Turn(s).queue) < Weight(s.seen, s.queue)
           /\ \A l \in playbook.commands : CascadeOK(l, s) => CascadeOK(l, Turn(s))
<1>1. PICK n \in Nat : n = Cardinality(Labels)
  BY ListingIs
<1>2. playbook \in Books /\ playbook.commands \subseteq Labels
  BY DEF BooksOK, Books
<1>3. PICK q \in Seq(Labels), S \in SUBSET Labels : q = s.queue /\ S = s.seen
  BY DEF Turns
<1>4. /\ Head(q) \in Labels /\ Tail(q) \in Seq(Labels) /\ Len(Tail(q)) = Len(q) - 1
      /\ Len(q) \in Nat \ {0}
      /\ \A x : Occurs(x, q) => x = Head(q) \/ Occurs(x, Tail(q))
  BY <1>3, OccursTail, Zenon
<1>5. PICK h \in Labels, t \in Seq(Labels) : h = Head(q) /\ t = Tail(q)
  BY <1>4
<1>6. PICK new \in SUBSET Labels : new = DirectDependents(playbook, h) \ S
  BY <1>2 DEF DirectDependents
<1>7. Listed(new) \in Seq(new) /\ Len(Listed(new)) <= n /\ \A x \in new : Occurs(x, Listed(new))
  BY <1>1, ListedIs
<1>8. PICK u \in Seq(Labels) : u = Listed(new)
  BY <1>7
<1>9. /\ t \o u \in Seq(Labels) /\ Len(t \o u) = Len(t) + Len(u)
      /\ \A x : Occurs(x, t) \/ Occurs(x, u) => Occurs(x, t \o u)
  BY OccursCat, Zenon
<1>10. PICK z \in Turns : z = [queue |-> t \o u, seen |-> S \cup new]
  BY <1>9 DEF Turns
<1>11. Turn(s) = z /\ z.queue = t \o u /\ z.seen = S \cup new
  BY <1>3, <1>5, <1>6, <1>8, <1>10, Zenon DEF Turn
<1>12. Weight(S \cup new, t \o u) < Weight(S, q)
  <2>1. CASE new = {}
    <3>1. u \in Seq({}) /\ S = S \cup new
      BY <1>7, <1>8, <2>1
    <3>2. Len(u) = 0
      BY <3>1
    <3>3. Len(t \o u) < Len(q)
      BY <1>4, <1>5, <1>9, <3>2
    <3>4. S \in SUBSET Labels /\ S \cup new \in SUBSET Labels
      OBVIOUS
    <3> QED
      BY <1>9, <3>1, <3>3, <3>4, WeightDrops
  <2>2. CASE new # {}
    <3>1. S \subseteq S \cup new /\ S # S \cup new
      BY <1>6, <2>2
    <3>2. Len(t \o u) <= Len(q) + n
      BY <1>4, <1>5, <1>7, <1>8, <1>9
    <3>3. S \in SUBSET Labels /\ S \cup new \in SUBSET Labels
      OBVIOUS
    <3> QED
      BY <1>1, <1>9, <3>1, <3>2, <3>3, WeightDrops
  <2> QED
    BY <2>1, <2>2
<1>13. ASSUME NEW l \in playbook.commands, CascadeOK(l, s) PROVE CascadeOK(l, z)
  <2>1. /\ q \in Seq(S) /\ l \in S /\ S \subseteq Downstream(playbook, l) \cup {l}
        /\ \A x \in S : Occurs(x, q) \/ DirectDependents(playbook, x) \subseteq S
    BY <1>3, <1>13 DEF CascadeOK
  <2>2. h \in S /\ t \in Seq(S \cup new)
    <3>1. q # <<>>
      BY <1>3
    <3> QED
      BY <1>5, <2>1, <3>1
  <2>3. t \o u \in Seq(S \cup new)
    <3>1. u \in Seq(S \cup new)
      BY <1>7, <1>8
    <3> QED
      BY <2>2, <3>1
  <2>4. new \subseteq Downstream(playbook, l) \cup {l}
    <3>1. ASSUME NEW d \in new, d # l PROVE d \in Downstream(playbook, l)
      <4>1. d \in DirectDependents(playbook, h) /\ d \in playbook.commands
        BY <1>6 DEF DirectDependents
      <4>2. SUFFICES ASSUME NEW U \in SUBSET playbook.commands, l \in U, DependentsClosed(playbook, U)
                     PROVE  d \in U
        BY <3>1, <4>1 DEF Downstream
      <4>3. h \in U
        BY <2>1, <2>2, <4>2 DEF Downstream
      <4> QED
        BY <4>1, <4>2, <4>3 DEF DependentsClosed
    <3> QED
      BY <3>1
  <2>5. ASSUME NEW x \in S \cup new
        PROVE  Occurs(x, t \o u) \/ DirectDependents(playbook, x) \subseteq S \cup new
    <3>1. CASE x \in new
      BY <1>7, <1>8, <1>9, <3>1
    <3>2. CASE x = h
      BY <1>6, <3>2
    <3>3. CASE x \in S /\ x # h
      <4>1. Occurs(x, q) => Occurs(x, t \o u)
        BY <1>4, <1>5, <1>9, <3>3
      <4> QED
        BY <2>1, <3>3, <4>1
    <3> QED
      BY <3>1, <3>2, <3>3
  <2> QED
    BY <1>11, <2>1, <2>3, <2>4, <2>5 DEF CascadeOK
<1> QED
  BY <1>3, <1>11, <1>12, <1>13

\* The queue runs empty, and then all that is downstream was seen.
LEMMA CascadeLoop ==
    ASSUME BooksOK
    PROVE  CascadeIsExact
<1> DEFINE V == SUBSET Labels
           m == [s \in Turns |-> Weight(s.seen, s.queue)]
           body == [fs \in [Turns -> V] \X Turns |->
                      IF fs[2].queue = <<>> THEN fs[2].seen ELSE fs[1][Turn(fs[2])]]
           Rec(f) == f = [s \in [queue : Seq(Labels), seen : SUBSET Labels] |->
                            IF s.queue = <<>> THEN s.seen ELSE f[Turn(s)]]
           loop == CHOOSE f : Rec(f)
<1>1. \A s \in Turns : s.seen \in V /\ s.queue \in Seq(Labels) /\ m[s] = Weight(s.seen, s.queue)
  BY DEF Turns
<1>2. m \in [Turns -> Nat]
  BY <1>1, WeightDrops
<1> HIDE DEF m
<1>3. \A s \in Turns : s.queue # <<>> =>
         /\ Turn(s) \in Turns /\ m[Turn(s)] < m[s]
         /\ \A l \in playbook.commands : CascadeOK(l, s) => CascadeOK(l, Turn(s))
  BY <1>1, TurnIs
<1>4. \A f \in [Turns -> V], s \in Turns :
         body[<<f, s>>] = IF s.queue = <<>> THEN s.seen ELSE f[Turn(s)]
  OBVIOUS
<1>5. body \in [[Turns -> V] \X Turns -> V]
  BY <1>1, <1>3
<1> HIDE DEF body
<1>6. RestsOnLess(Turns, V, m, body)
  <2>1. SUFFICES ASSUME NEW f \in [Turns -> V], NEW h \in [Turns -> V], NEW s \in Turns,
                        \A z \in Turns : m[z] < m[s] => f[z] = h[z]
                 PROVE  body[<<f, s>>] = body[<<h, s>>]
    BY DEF RestsOnLess
  <2>2. s.queue # <<>> => f[Turn(s)] = h[Turn(s)]
    BY <1>3, <2>1
  <2> QED
    BY <1>4, <2>2
<1>7. PICK f \in [Turns -> V] : \A s \in Turns : f[s] = body[<<f, s>>]
  <2>1. V # {}
    OBVIOUS
  <2> HIDE DEF V
  <2>2. Defines(Turns, V, body)
    BY <1>2, <1>5, <1>6, <2>1, RecursionExists
  <2> QED
    BY <2>2 DEF Defines
<1>8. Rec(f)
  <2>1. \A s \in Turns : f[s] = IF s.queue = <<>> THEN s.seen ELSE f[Turn(s)]
    BY <1>4, <1>7
  <2> QED
    BY <2>1 DEF Turns
<1>9. Rec(loop)
  BY <1>8
<1>10. \A l : Cascaded(l) = loop[[queue |-> <<l>>, seen |-> {l}]] \ {l}
  BY DEF Cascaded
<1>11. \A s \in Turns : loop[s] = IF s.queue = <<>> THEN s.seen ELSE loop[Turn(s)]
  BY <1>9 DEF Turns
<1> HIDE DEF loop
<1>12. SUFFICES ASSUME NEW l \in playbook.commands
                PROVE  Cascaded(l) = Downstream(playbook, l)
  BY DEF CascadeIsExact
<1>13. playbook \in Books /\ playbook.commands \subseteq Labels /\ l \in Labels
  BY DEF BooksOK, Books
<1> DEFINE T == {k \in Nat : \A s \in Turns : m[s] < k /\ CascadeOK(l, s) =>
                    loop[s] = Downstream(playbook, l) \cup {l}}
<1>14. 0 \in T
  BY <1>2
<1>15. ASSUME NEW k \in Nat, k \in T PROVE k + 1 \in T
  <2>1. SUFFICES ASSUME NEW s \in Turns, m[s] < k + 1, CascadeOK(l, s)
                 PROVE  loop[s] = Downstream(playbook, l) \cup {l}
    OBVIOUS
  <2>2. CASE s.queue = <<>>
    <3>1. PICK S \in SUBSET Labels : S = s.seen
      BY <1>1
    <3>2. /\ l \in S /\ S \subseteq Downstream(playbook, l) \cup {l}
          /\ \A x \in S : DirectDependents(playbook, x) \subseteq S
      BY <2>1, <2>2, <3>1 DEF CascadeOK, Occurs
    <3>3. DependentsClosed(playbook, S) /\ S \subseteq playbook.commands
      BY <3>2 DEF DependentsClosed, Downstream
    <3>4. Downstream(playbook, l) \subseteq S
      BY <3>2, <3>3 DEF Downstream
    <3> QED
      BY <1>11, <2>2, <3>1, <3>2, <3>4
  <2>3. CASE s.queue # <<>>
    <3>1. PICK z \in Turns : z = Turn(s) /\ m[z] < m[s] /\ CascadeOK(l, z)
      BY <1>3, <2>1, <2>3
    <3>2. m[z] < k
      <4>1. m[z] \in Nat /\ m[s] \in Nat
        BY <1>2
      <4> QED
        BY <2>1, <3>1, <4>1
    <3>3. loop[s] = loop[z]
      BY <1>11, <2>3, <3>1
    <3> QED
      BY <1>15, <3>1, <3>2, <3>3
  <2> QED
    BY <2>2, <2>3
<1>16. PICK s \in Turns : s = [queue |-> <<l>>, seen |-> {l}]
  <2>1. <<l>> \in Seq(Labels) /\ {l} \in SUBSET Labels
    BY <1>13
  <2> QED
    BY <2>1 DEF Turns
<1>17. CascadeOK(l, s)
  <2>1. <<l>> \in Seq({l}) /\ Occurs(l, <<l>>)
    BY DEF Occurs
  <2> QED
    BY <1>16, <2>1 DEF CascadeOK
<1>18. loop[s] = Downstream(playbook, l) \cup {l}
  <2>1. PICK k \in Nat : k = m[s] + 1
    BY <1>2
  <2>2. Nat \subseteq T
    <3> HIDE DEF T
    <3> QED
      BY <1>14, <1>15, NatSetInduction
  <2>3. m[s] < k
    BY <1>2, <2>1
  <2> QED
    BY <1>17, <2>2, <2>3
<1>19. l \notin Downstream(playbook, l)
  BY DEF Downstream
<1> QED
  BY <1>10, <1>16, <1>18, <1>19

-----------------------------------------------------------------------------
(* hasDependencyCycle. *)

Answers == [cycle : BOOLEAN, done : SUBSET Labels]

\* The visit of the first label of w, and the walk from w, when f is the walk.
VisitBy(f, w) ==
    LET l == Head(w.todo)
        inner == f[[todo |-> Listed(DependsOn(l)), open |-> w.open \cup {l}, done |-> w.done]]
    IN IF l \in w.open THEN [cycle |-> TRUE, done |-> w.done]
       ELSE IF l \in w.done THEN [cycle |-> FALSE, done |-> w.done]
       ELSE IF inner.cycle THEN inner
       ELSE [cycle |-> FALSE, done |-> inner.done \cup {l}]

WalkBy(f, w) ==
    IF w.todo = <<>> THEN [cycle |-> FALSE, done |-> w.done]
    ELSE IF VisitBy(f, w).cycle THEN VisitBy(f, w)
    ELSE f[[todo |-> Tail(w.todo), open |-> w.open, done |-> VisitBy(f, w).done]]

\* No ring passes through what is done.
Sound(done) ==
    \A S \in SUBSET playbook.commands :
       S # {} /\ (\A c \in S : playbook.dependsOn[c] \cap S # {}) => S \cap done = {}

\* The open labels lead from each to the next, and the last to what is to be visited.
OnPath(t, open) == \A x \in open : x \in playbook.commands /\ DependsOn(x) \cap (open \cup {t}) # {}

WalkOK(w) == Sound(w.done) /\ \A t : Occurs(t, w.todo) => OnPath(t, w.open)

\* What the walk answers is right.
AnswerOK(w, r) ==
    IF r.cycle THEN HasDependencyCycle(playbook)
    ELSE Sound(r.done) /\ w.done \subseteq r.done /\ \A t : Occurs(t, w.todo) => t \in r.done

\* The two walks a walk rests on: that of the dependencies of its first label, and
\* that of its other labels.
LEMMA WalkSteps ==
    ASSUME BooksOK, NEW w \in Walks, w.todo # <<>>,
           NEW l, l = Head(w.todo)
    PROVE  /\ l \in Labels /\ w.open \in SUBSET Labels /\ w.done \in SUBSET Labels
           /\ [todo |-> Listed(DependsOn(l)), open |-> w.open \cup {l}, done |-> w.done] \in Walks
           /\ \A d \in SUBSET Labels :
                 /\ [todo |-> Tail(w.todo), open |-> w.open, done |-> d] \in Walks
                 /\ Weight(w.open, Tail(w.todo)) < Weight(w.open, w.todo)
           /\ l \notin w.open =>
                 Weight(w.open \cup {l}, Listed(DependsOn(l))) < Weight(w.open, w.todo)
           /\ \A t \in DependsOn(l) : Occurs(t, Listed(DependsOn(l)))
           /\ \A t : Occurs(t, Listed(DependsOn(l))) => t \in DependsOn(l)
           /\ Occurs(l, w.todo)
           /\ \A t : Occurs(t, Tail(w.todo)) => Occurs(t, w.todo)
           /\ \A t : Occurs(t, w.todo) => t = l \/ Occurs(t, Tail(w.todo))
<1>1. PICK q \in Seq(Labels), S \in SUBSET Labels, D \in SUBSET Labels :
         q = w.todo /\ S = w.open /\ D = w.done
  BY DEF Walks
<1>2. /\ Head(q) \in Labels /\ Tail(q) \in Seq(Labels) /\ Len(Tail(q)) = Len(q) - 1
      /\ Len(q) \in Nat \ {0} /\ Occurs(Head(q), q)
      /\ \A x : Occurs(x, Tail(q)) => Occurs(x, q)
      /\ \A x : Occurs(x, q) => x = Head(q) \/ Occurs(x, Tail(q))
  BY <1>1, OccursTail, Zenon
<1>3. l \in Labels /\ l = Head(q)
  BY <1>1, <1>2
<1>4. PICK N \in SUBSET Labels : N = DependsOn(l)
  <2>1. DependsOn(l) \subseteq Labels
    BY <1>3 DEF DependsOn, BooksOK, Books
  <2> QED
    BY <2>1
<1>5. PICK u \in Seq(N) : u = Listed(N) /\ Len(u) <= Cardinality(Labels) /\ \A t \in N : Occurs(t, u)
  BY ListedIs
<1>6. u \in Seq(Labels) /\ \A t : Occurs(t, u) => t \in N
  <2>1. \A k \in 1..Len(u) : u[k] \in N
    OBVIOUS
  <2> QED
    BY <2>1 DEF Occurs
<1>7. [todo |-> u, open |-> S \cup {l}, done |-> D] \in Walks
  BY <1>3, <1>6 DEF Walks
<1>8. \A d \in SUBSET Labels : [todo |-> Tail(q), open |-> S, done |-> d] \in Walks
  BY <1>2 DEF Walks
<1>9. Weight(S, Tail(q)) < Weight(S, q)
  <2>1. PICK t \in Seq(Labels) : t = Tail(q) /\ Len(t) < Len(q)
    <3>1. Tail(q) \in Seq(Labels)
      BY <1>2
    <3>2. Len(Tail(q)) < Len(q)
      BY <1>2
    <3> QED
      BY <3>1, <3>2
  <2>2. Weight(S, t) < Weight(S, q)
    BY <2>1, WeightDrops
  <2> QED
    BY <2>1, <2>2
<1>10. l \notin S => Weight(S \cup {l}, u) < Weight(S, q)
  <2>1. SUFFICES ASSUME l \notin S PROVE Weight(S \cup {l}, u) < Weight(S, q)
    OBVIOUS
  <2>2. S \cup {l} \in SUBSET Labels /\ S \subseteq S \cup {l} /\ S # S \cup {l}
    BY <1>3, <2>1
  <2>3. Len(u) <= Len(q) + Cardinality(Labels)
    <3>1. PICK n \in Nat : n = Cardinality(Labels)
      BY ListingIs
    <3> QED
      BY <1>2, <1>5, <3>1
  <2> QED
    BY <1>6, <2>2, <2>3, WeightDrops
<1> QED
  BY <1>1, <1>2, <1>3, <1>4, <1>5, <1>6, <1>7, <1>8, <1>9, <1>10

\* A walk gives an answer, and rests on walks of less weight.
LEMMA WalkByIs ==
    ASSUME BooksOK, NEW f \in [Walks -> Answers], NEW w \in Walks
    PROVE  /\ WalkBy(f, w) \in Answers
           /\ w.todo # <<>> => VisitBy(f, w) \in Answers
<1>1. w.open \in SUBSET Labels /\ w.done \in SUBSET Labels
  BY DEF Walks
<1>2. \A b \in BOOLEAN, d \in SUBSET Labels : [cycle |-> b, done |-> d] \in Answers
  BY DEF Answers
<1>3. ASSUME w.todo # <<>> PROVE VisitBy(f, w) \in Answers
  <2>1. PICK l : l = Head(w.todo)
    OBVIOUS
  <2>2. l \in Labels /\ [todo |-> Listed(DependsOn(l)), open |-> w.open \cup {l}, done |-> w.done] \in Walks
    BY <1>3, <2>1, WalkSteps
  <2>3. PICK inner \in Answers :
           inner = f[[todo |-> Listed(DependsOn(l)), open |-> w.open \cup {l}, done |-> w.done]]
    BY <2>2
  <2>4. VisitBy(f, w) = IF l \in w.open THEN [cycle |-> TRUE, done |-> w.done]
                        ELSE IF l \in w.done THEN [cycle |-> FALSE, done |-> w.done]
                        ELSE IF inner.cycle THEN inner
                        ELSE [cycle |-> FALSE, done |-> inner.done \cup {l}]
    BY <2>1, <2>3, Zenon DEF VisitBy
  <2>5. inner.done \cup {l} \in SUBSET Labels
    BY <2>2, <2>3 DEF Answers
  <2> QED
    BY <1>1, <1>2, <2>4, <2>5
<1>4. CASE w.todo = <<>>
  BY <1>1, <1>2, <1>4 DEF WalkBy
<1>5. CASE w.todo # <<>>
  <2>1. PICK v \in Answers : v = VisitBy(f, w)
    BY <1>3, <1>5
  <2>2. v.done \in SUBSET Labels
    BY DEF Answers
  <2>3. [todo |-> Tail(w.todo), open |-> w.open, done |-> v.done] \in Walks
    BY <1>5, <2>2, WalkSteps
  <2>4. WalkBy(f, w) = IF v.cycle THEN v ELSE f[[todo |-> Tail(w.todo), open |-> w.open, done |-> v.done]]
    BY <1>5, <2>1 DEF WalkBy
  <2> QED
    BY <1>5, <2>1, <2>3, <2>4
<1> QED
  BY <1>3, <1>4, <1>5

WalkWeight == [w \in Walks |-> Weight(w.open, w.todo)]

LEMMA WalkRestsOnLess ==
    ASSUME BooksOK, NEW f \in [Walks -> Answers], NEW h, NEW w \in Walks,
           \A y \in Walks : WalkWeight[y] < WalkWeight[w] => f[y] = h[y]
    PROVE  WalkBy(f, w) = WalkBy(h, w)
<1>1. SUFFICES ASSUME w.todo # <<>> PROVE WalkBy(f, w) = WalkBy(h, w)
  BY DEF WalkBy
<1>2. PICK l : l = Head(w.todo)
  OBVIOUS
<1>3. PICK i \in Walks :
         i = [todo |-> Listed(DependsOn(l)), open |-> w.open \cup {l}, done |-> w.done]
  BY <1>1, <1>2, WalkSteps
<1>4. VisitBy(f, w) = VisitBy(h, w)
  <2>1. CASE l \in w.open
    BY <1>2, <2>1 DEF VisitBy
  <2>2. CASE l \notin w.open
    <3>1. Weight(w.open \cup {l}, Listed(DependsOn(l))) < Weight(w.open, w.todo)
      BY <1>1, <1>2, <2>2, WalkSteps
    <3>2. i.open = w.open \cup {l} /\ i.todo = Listed(DependsOn(l))
      BY <1>3
    <3>3. WalkWeight[i] < WalkWeight[w]
      BY <3>1, <3>2 DEF WalkWeight
    <3>4. f[i] = h[i]
      BY <3>3
    <3> QED
      BY <1>2, <1>3, <3>4 DEF VisitBy
  <2> QED
    BY <2>1, <2>2
<1>5. PICK v \in Answers : v = VisitBy(f, w)
  BY <1>1, WalkByIs
<1>6. v.done \in SUBSET Labels
  BY DEF Answers
<1>7. PICK z \in Walks : z = [todo |-> Tail(w.todo), open |-> w.open, done |-> v.done]
  BY <1>1, <1>2, <1>6, WalkSteps
<1>8. WalkWeight[z] < WalkWeight[w]
  <2>1. Weight(w.open, Tail(w.todo)) < Weight(w.open, w.todo)
    BY <1>1, <1>2, <1>6, WalkSteps
  <2>2. z.open = w.open /\ z.todo = Tail(w.todo)
    BY <1>7
  <2> QED
    BY <2>1, <2>2 DEF WalkWeight
<1>9. f[z] = h[z]
  BY <1>8
<1> QED
  BY <1>1, <1>4, <1>5, <1>7, <1>9, Zenon DEF WalkBy

\* The walk answers rightly at w when it does at the walks of less weight.
LEMMA WalkIsRight ==
    ASSUME BooksOK, NEW f \in [Walks -> Answers], NEW w \in Walks, WalkOK(w),
           \A y \in Walks : WalkWeight[y] < WalkWeight[w] /\ WalkOK(y) => AnswerOK(y, f[y])
    PROVE  AnswerOK(w, WalkBy(f, w))
<1>1. CASE w.todo = <<>>
  <2>1. PICK r : r = WalkBy(f, w)
    OBVIOUS
  <2>2. r = [cycle |-> FALSE, done |-> w.done]
    BY <1>1, <2>1 DEF WalkBy
  <2>3. \A t : ~Occurs(t, w.todo)
    BY <1>1 DEF Occurs
  <2> QED
    BY <2>1, <2>2, <2>3 DEF AnswerOK, WalkOK
<1>2. CASE w.todo # <<>>
  <2>1. PICK l : l = Head(w.todo)
    OBVIOUS
  <2>2. /\ l \in Labels /\ w.open \in SUBSET Labels /\ w.done \in SUBSET Labels
        /\ l \notin w.open =>
              Weight(w.open \cup {l}, Listed(DependsOn(l))) < Weight(w.open, w.todo)
        /\ \A t \in DependsOn(l) : Occurs(t, Listed(DependsOn(l)))
        /\ \A t : Occurs(t, Listed(DependsOn(l))) => t \in DependsOn(l)
        /\ Occurs(l, w.todo)
        /\ \A t : Occurs(t, Tail(w.todo)) => Occurs(t, w.todo)
        /\ \A t : Occurs(t, w.todo) => t = l \/ Occurs(t, Tail(w.todo))
    BY <1>2, <2>1, WalkSteps
  <2>3. PICK i \in Walks :
           i = [todo |-> Listed(DependsOn(l)), open |-> w.open \cup {l}, done |-> w.done]
    BY <1>2, <2>1, WalkSteps
  <2>4. PICK inner \in Answers : inner = f[i]
    OBVIOUS
  <2>5. PICK v \in Answers : v = VisitBy(f, w)
    BY <1>2, WalkByIs
  <2>6. v = IF l \in w.open THEN [cycle |-> TRUE, done |-> w.done]
            ELSE IF l \in w.done THEN [cycle |-> FALSE, done |-> w.done]
            ELSE IF inner.cycle THEN inner
            ELSE [cycle |-> FALSE, done |-> inner.done \cup {l}]
    BY <2>1, <2>3, <2>4, <2>5, Zenon DEF VisitBy
  <2>7. Sound(w.done) /\ OnPath(l, w.open)
    BY <2>2 DEF WalkOK
  <2>8. l \notin w.open => AnswerOK(i, inner)
    <3>1. SUFFICES ASSUME l \notin w.open PROVE AnswerOK(i, inner)
      OBVIOUS
    <3>2. i.open = w.open \cup {l} /\ i.todo = Listed(DependsOn(l)) /\ i.done = w.done
      BY <2>3
    <3>3. WalkWeight[i] < WalkWeight[w]
      BY <2>2, <3>1, <3>2 DEF WalkWeight
    <3>4. ASSUME NEW t \in DependsOn(l) PROVE OnPath(t, w.open \cup {l})
      <4>1. l \in playbook.commands
        BY <3>4 DEF DependsOn
      <4> QED
        BY <2>7, <3>4, <4>1 DEF OnPath
    <3>5. WalkOK(i)
      BY <2>2, <2>7, <3>2, <3>4 DEF WalkOK
    <3> QED
      BY <2>4, <3>3, <3>5
  <2>9. IF v.cycle THEN HasDependencyCycle(playbook)
        ELSE Sound(v.done) /\ w.done \subseteq v.done /\ l \in v.done
    <3>1. CASE l \in w.open
      <4>1. v.cycle = TRUE
        BY <2>6, <3>1
      <4>2. w.open \subseteq playbook.commands /\ \A c \in w.open : DependsOn(c) \cap w.open # {}
        BY <2>7, <3>1 DEF OnPath
      <4>3. \A c \in w.open : playbook.dependsOn[c] \cap w.open # {}
        BY <4>2 DEF DependsOn
      <4>4. HasDependencyCycle(playbook)
        BY <3>1, <4>2, <4>3 DEF HasDependencyCycle
      <4> QED
        BY <4>1, <4>4
    <3>2. CASE l \notin w.open /\ l \in w.done
      <4>1. v.cycle = FALSE /\ v.done = w.done
        BY <2>6, <3>2
      <4> QED
        BY <2>7, <3>2, <4>1
    <3>3. CASE l \notin w.open /\ l \notin w.done /\ inner.cycle
      <4>1. v = inner
        BY <2>6, <3>3
      <4> QED
        BY <2>8, <3>3, <4>1 DEF AnswerOK
    <3>4. CASE l \notin w.open /\ l \notin w.done /\ ~inner.cycle
      <4>1. v.cycle = FALSE /\ v.done = inner.done \cup {l}
        BY <2>6, <3>4
      <4>2. i.todo = Listed(DependsOn(l)) /\ i.done = w.done
        BY <2>3
      <4>3. Sound(inner.done) /\ w.done \subseteq inner.done /\ DependsOn(l) \subseteq inner.done
        BY <2>2, <2>8, <3>4, <4>2 DEF AnswerOK
      <4>4. Sound(inner.done \cup {l})
        <5>1. SUFFICES ASSUME NEW S \in SUBSET playbook.commands, S # {},
                              \A c \in S : playbook.dependsOn[c] \cap S # {}
                       PROVE  S \cap (inner.done \cup {l}) = {}
          BY DEF Sound
        <5>2. S \cap inner.done = {}
          BY <4>3, <5>1 DEF Sound
        <5>3. l \notin S
          BY <4>3, <5>1, <5>2 DEF DependsOn
        <5> QED
          BY <5>2, <5>3
      <4> QED
        BY <4>1, <4>3, <4>4
    <3> QED
      BY <3>1, <3>2, <3>3, <3>4
  <2>10. CASE v.cycle
    <3>1. WalkBy(f, w) = v
      BY <1>2, <2>5, <2>10 DEF WalkBy
    <3> QED
      BY <2>9, <2>10, <3>1 DEF AnswerOK
  <2>11. CASE ~v.cycle
    <3>1. v.done \in SUBSET Labels
      BY DEF Answers
    <3>2. PICK z \in Walks : z = [todo |-> Tail(w.todo), open |-> w.open, done |-> v.done]
      BY <1>2, <2>1, <3>1, WalkSteps
    <3>3. z.open = w.open /\ z.todo = Tail(w.todo) /\ z.done = v.done
      BY <3>2
    <3>4. Weight(w.open, Tail(w.todo)) < Weight(w.open, w.todo)
      BY <1>2, <2>1, <3>1, WalkSteps
    <3>5. WalkWeight[z] < WalkWeight[w]
      BY <3>3, <3>4 DEF WalkWeight
    <3>6. WalkOK(z)
      BY <2>2, <2>9, <2>11, <3>3 DEF WalkOK
    <3>7. AnswerOK(z, f[z])
      BY <3>5, <3>6
    <3>8. WalkBy(f, w) = f[z]
      BY <1>2, <2>5, <2>11, <3>2, Zenon DEF WalkBy
    <3> QED
      BY <2>2, <2>9, <2>11, <3>3, <3>7, <3>8 DEF AnswerOK
  <2> QED
    BY <2>10, <2>11
<1> QED
  BY <1>1, <1>2

\* So the search ends, and its answer is right.
LEMMA CycleSearch ==
    ASSUME BooksOK
    PROVE  CycleSearchIsExact
<1> DEFINE body == [fw \in [Walks -> Answers] \X Walks |-> WalkBy(fw[1], fw[2])]
           Rec(f) == f = [w \in Walks |-> WalkBy(f, w)]
           walk == CHOOSE f : Rec(f)
<1>1. WalkWeight \in [Walks -> Nat]
  <2>1. \A w \in Walks : Weight(w.open, w.todo) \in Nat
    BY WeightDrops DEF Walks
  <2> QED
    BY <2>1 DEF WalkWeight
<1>2. \A f \in [Walks -> Answers], w \in Walks : body[<<f, w>>] = WalkBy(f, w)
  OBVIOUS
<1>3. body \in [[Walks -> Answers] \X Walks -> Answers]
  BY WalkByIs
<1> HIDE DEF body
<1>4. RestsOnLess(Walks, Answers, WalkWeight, body)
  BY <1>2, WalkRestsOnLess DEF RestsOnLess
<1>5. Answers # {}
  <2>1. [cycle |-> FALSE, done |-> {}] \in Answers
    BY DEF Answers
  <2> QED
    BY <2>1
<1>6. PICK f \in [Walks -> Answers] : \A w \in Walks : f[w] = body[<<f, w>>]
  <2>1. Defines(Walks, Answers, body)
    BY <1>1, <1>3, <1>4, <1>5, RecursionExists
  <2> QED
    BY <2>1 DEF Defines
<1>7. \A w \in Walks : f[w] = WalkBy(f, w)
  BY <1>2, <1>6
<1>8. Rec(f)
  BY <1>6, <1>7
<1>9. Rec(walk)
  BY <1>8
<1>10. Walked(Listed(playbook.commands)) =
       walk[[todo |-> Listed(playbook.commands), open |-> {}, done |-> {}]]
  BY DEF Walked, WalkBy, VisitBy
<1>11. \A w \in Walks : walk[w] = WalkBy(walk, w)
  BY <1>9
<1> HIDE DEF walk
<1>12. \A w \in Walks : walk[w] = f[w]
  <2> DEFINE T == {k \in Nat : \A w \in Walks : WalkWeight[w] < k => walk[w] = f[w]}
  <2>1. 0 \in T
    BY <1>1
  <2>2. ASSUME NEW k \in Nat, k \in T PROVE k + 1 \in T
    <3>1. SUFFICES ASSUME NEW w \in Walks, WalkWeight[w] < k + 1 PROVE walk[w] = f[w]
      OBVIOUS
    <3>2. ASSUME NEW y \in Walks, WalkWeight[y] < WalkWeight[w] PROVE f[y] = walk[y]
      <4>1. WalkWeight[y] < k
        <5>1. WalkWeight[y] \in Nat /\ WalkWeight[w] \in Nat
          BY <1>1
        <5> QED
          BY <3>1, <3>2, <5>1
      <4> QED
        BY <2>2, <4>1
    <3>3. WalkBy(f, w) = WalkBy(walk, w)
      BY <3>2, WalkRestsOnLess
    <3> QED
      BY <1>7, <1>11, <3>3
  <2>3. Nat \subseteq T
    <3> HIDE DEF T
    <3> QED
      BY <2>1, <2>2, NatSetInduction
  <2>4. SUFFICES ASSUME NEW w \in Walks PROVE walk[w] = f[w]
    OBVIOUS
  <2>5. PICK k \in Nat : k = WalkWeight[w] + 1
    BY <1>1
  <2>6. WalkWeight[w] < k
    BY <1>1, <2>5
  <2> QED
    BY <2>3, <2>6
<1>13. \A w \in Walks : WalkOK(w) => AnswerOK(w, f[w])
  <2> DEFINE T == {k \in Nat : \A w \in Walks : WalkWeight[w] < k /\ WalkOK(w) => AnswerOK(w, f[w])}
  <2>1. 0 \in T
    BY <1>1
  <2>2. ASSUME NEW k \in Nat, k \in T PROVE k + 1 \in T
    <3>1. SUFFICES ASSUME NEW w \in Walks, WalkWeight[w] < k + 1, WalkOK(w) PROVE AnswerOK(w, f[w])
      OBVIOUS
    <3>2. ASSUME NEW y \in Walks, WalkWeight[y] < WalkWeight[w], WalkOK(y) PROVE AnswerOK(y, f[y])
      <4>1. WalkWeight[y] < k
        <5>1. WalkWeight[y] \in Nat /\ WalkWeight[w] \in Nat
          BY <1>1
        <5> QED
          BY <3>1, <3>2, <5>1
      <4> QED
        BY <2>2, <3>2, <4>1
    <3>3. AnswerOK(w, WalkBy(f, w))
      BY <3>1, <3>2, WalkIsRight
    <3> QED
      BY <1>7, <3>3
  <2>3. Nat \subseteq T
    <3> HIDE DEF T
    <3> QED
      BY <2>1, <2>2, NatSetInduction
  <2>4. SUFFICES ASSUME NEW w \in Walks, WalkOK(w) PROVE AnswerOK(w, f[w])
    OBVIOUS
  <2>5. PICK k \in Nat : k = WalkWeight[w] + 1
    BY <1>1
  <2>6. WalkWeight[w] < k
    BY <1>1, <2>5
  <2> QED
    BY <2>3, <2>4, <2>6
<1>14. PICK C \in SUBSET Labels : C = playbook.commands
  BY DEF BooksOK, Books
<1>15. Listed(C) \in Seq(C) /\ \A c \in C : Occurs(c, Listed(C))
  BY ListedIs
<1>16. PICK w \in Walks : w = [todo |-> Listed(C), open |-> {}, done |-> {}]
  <2>1. Listed(C) \in Seq(Labels)
    BY <1>15
  <2> QED
    BY <2>1 DEF Walks
<1>17. WalkOK(w)
  BY <1>16 DEF WalkOK, Sound, OnPath
<1>18. PICK r \in Answers : r = f[w]
  OBVIOUS
<1>19. AnswerOK(w, r)
  BY <1>13, <1>17, <1>18
<1>20. CycleFound = r.cycle
  BY <1>10, <1>12, <1>14, <1>16, <1>18, Zenon DEF CycleFound
<1>21. r.cycle \in BOOLEAN
  BY DEF Answers
<1>22. CASE r.cycle
  BY <1>19, <1>20, <1>21, <1>22 DEF AnswerOK, CycleSearchIsExact
<1>23. CASE ~r.cycle
  <2>1. Sound(r.done) /\ C \subseteq r.done
    BY <1>15, <1>16, <1>19, <1>23 DEF AnswerOK
  <2>2. ~HasDependencyCycle(playbook)
    BY <1>14, <2>1 DEF Sound, HasDependencyCycle
  <2> QED
    BY <1>20, <1>21, <1>23, <2>2 DEF CycleSearchIsExact
<1> QED
  BY <1>22, <1>23

-----------------------------------------------------------------------------
(* The theorems about the loops. *)

LEMMA BooksStay == BooksSpec => []BooksOK
<1>1. BooksInit => BooksOK
  BY AlgorithmsAssumption DEF BooksInit, BooksOK
<1>2. BooksOK /\ [BooksNext]_<<playbook, listing>> => BooksOK'
  BY DEF BooksNext, BooksOK
<1> QED
  BY <1>1, <1>2, PTL DEF BooksSpec

\* reachableLabels returns the labels whose gate can ever open, whatever the
\* playbook and the order it lists them in.
THEOREM ReachableLoopFindsAll == BooksSpec => []ReachableLoopIsExact
BY BooksStay, ReachableLoop, PTL

\* cascade visits exactly the commands that depend on the one that failed, directly
\* or not, also when the dependencies form a ring.
THEOREM CascadeReachesAll == BooksSpec => []CascadeIsExact
BY BooksStay, CascadeLoop, PTL

\* hasDependencyCycle answers yes exactly for the playbooks with a ring.
THEOREM CycleSearchFindsAll == BooksSpec => []CycleSearchIsExact
BY BooksStay, CycleSearch, PTL

\* playbookProblems accepts what the supervisor can bring up entirely, and nothing
\* else.
THEOREM ValidationAgrees == BooksSpec => []ValidMeansReachable
<1>1. BooksOK => ValidMeansReachable
  BY ValidPlaybooksComeUp DEF BooksOK, ValidMeansReachable
<1> QED
  BY <1>1, BooksStay, PTL

=============================================================================
