----------------------------- MODULE Supervisor -----------------------------
(***************************************************************************)
(* One run of one playbook: src/supervisor/supervisor.ts.                   *)
(*                                                                          *)
(* The daemon is single-threaded, so one action is one uninterrupted turn   *)
(* of its event loop: an RPC handler up to its first await, the code after  *)
(* an await, a timer callback, an event of a child process.  What a turn    *)
(* reads before an await and uses after it can have been changed by every   *)
(* other action in between.  ProcExit belongs to the operating system.      *)
(***************************************************************************)
EXTENDS Playbook

CONSTANT Playbooks      (* the playbooks a run may be started with          *)

ASSUME PlaybooksAssumption == Playbooks \subseteq Books

VARIABLES
    book,       \* the playbook, fixed by the constructor
    blocked,    \* commands whose gate can never open, fixed by the constructor
    started,    \* start() has run
    stop,       \* runStop: "no", "awaiting" the kills and exits, or "done"
    settling,   \* commands whose `settled` promise runStop awaits
    status,     \* slot.state.status
    child,      \* slot.child and what became of the process
    intent,     \* slot.intent: why we are killing it, if we are
    timer,      \* commands with a respawn scheduled (slot.cancelRestart)
    succeeded,  \* commands that have exited 0 at least once
    inFlight    \* commands with a runRestart suspended (restartsInFlight)

constants == <<book, blocked>>
vars == <<book, blocked, started, stop, settling, status, child, intent,
          timer, succeeded, inFlight>>

Statuses == {"pending", "running", "restarting", "exited", "errored", "stopped"}

\* "unspawned": spawn returned a child that has no process, its 'error' event
\* is due.  "exit0", "exitN": the process has exited, with code 0 or otherwise
\* (a nonzero code or a signal), and its pipes are still being flushed.
Children == {"none", "unspawned", "alive", "exit0", "exitN"}

\* Mistake: nothing listens to 'error', so a child without a process never ends.
EndedWithProcess == {"exit0", "exitN"}

\* Children for which `finish` is due.
Ended == {"unspawned", "exit0", "exitN"}

Intents == {"none", "stop", "restart"}

\* What calling spawn() can do; "throws" is the synchronous failure.
SpawnOutcomes == {"alive", "unspawned", "throws"}

Stopped == stop # "no"

-----------------------------------------------------------------------------

Init ==
    /\ book \in Playbooks
    /\ blocked = book.commands \ Reachable(book)
    /\ started = FALSE
    /\ stop = "no"
    /\ settling = {}
    /\ status = [l \in Labels |-> "pending"]
    /\ child = [l \in Labels |-> "none"]
    /\ intent = [l \in Labels |-> "none"]
    /\ timer = {}
    /\ succeeded = {}
    /\ inFlight = {}

-----------------------------------------------------------------------------
(* Gates, spawning and cascading. *)

\* Every dependency is a command that has exited 0; `done` is a subset of the
\* commands, so a label the playbook does not declare never opens a gate.
GateOpen(l, done) == book.dependsOn[l] \subseteq done

\* The commands spawnReady spawns.
Ready(st, done) ==
    {l \in book.commands \ blocked : st[l] = "pending" /\ GateOpen(l, done)}

\* Mistake: only direct dependents are skipped.
CascadeOnce(F, st) ==
    [d \in Labels |->
        IF /\ st[d] = "pending"
           /\ \E f \in F : book.kind[f] = "task" /\ d \in DirectDependents(book, f)
        THEN "errored" ELSE st[d]]

\* Mistake: a failed service takes its dependents along as well.
CascadeFromAny(F, st) ==
    [d \in Labels |->
        IF st[d] = "pending" /\ \E f \in F : d \in Downstream(book, f)
        THEN "errored" ELSE st[d]]

\* Statuses after the commands in F failed: a failed task takes every pending
\* command downstream of it along, a failed service takes nothing.
Cascade(F, st) ==
    [d \in Labels |->
        IF /\ st[d] = "pending"
           /\ \E f \in F : book.kind[f] = "task" /\ d \in Downstream(book, f)
        THEN "errored" ELSE st[d]]

\* spawnSlot on each command of S, from statuses st, children ch and intents
\* it.  The source does this one command after another; no order is visible,
\* for what a throwing spawn cascades to has a closed gate and is not in S.
Spawn(S, st, ch, it) ==
    \E out \in [S -> SpawnOutcomes] :
        LET thrown == {l \in S : out[l] = "throws"}
            up     == S \ thrown
        IN /\ status' = Cascade(thrown,
                            [l \in Labels |-> IF l \in thrown THEN "errored"
                                              ELSE IF l \in up THEN "running"
                                              ELSE st[l]])
           /\ child'  = [l \in Labels |-> IF l \in up THEN out[l] ELSE ch[l]]
           /\ intent' = [l \in Labels |-> IF l \in up THEN "none" ELSE it[l]]

-----------------------------------------------------------------------------
(* Starting, restarting one command, stopping. *)

Start ==
    /\ ~started /\ ~Stopped
    /\ started' = TRUE
    /\ Spawn(Ready(status, succeeded), status, child, intent)
    /\ UNCHANGED <<constants, stop, settling, timer, succeeded, inFlight>>

\* Mistake: a second call does not join the attempt in flight.
MayRestartAgain(l) == started /\ ~Stopped /\ l \in book.commands

\* restartCommand runs; it joins an attempt that is still in flight, and is
\* refused once the run is stopped.
MayRestart(l) ==
    started /\ ~Stopped /\ l \in book.commands /\ l \notin inFlight

\* There is a child: mark it and wait for its tree to be killed.
RestartKill(l) ==
    /\ MayRestart(l)
    /\ child[l] # "none"
    /\ timer' = timer \ {l}
    /\ intent' = [intent EXCEPT ![l] = "restart"]
    /\ status' = [status EXCEPT ![l] = "restarting"]
    /\ inFlight' = inFlight \cup {l}
    /\ UNCHANGED <<constants, started, stop, settling, child, succeeded>>

\* Mistake: a manual restart does not look at the gate.
RestartSpawnUngated(l) ==
    /\ MayRestart(l)
    /\ child[l] = "none"
    /\ timer' = timer \ {l}
    /\ Spawn({l}, status, child, intent)
    /\ UNCHANGED <<constants, started, stop, settling, succeeded, inFlight>>

\* Nothing to kill: drop a scheduled respawn and spawn now.
RestartSpawn(l) ==
    /\ MayRestart(l)
    /\ child[l] = "none"
    /\ GateOpen(l, succeeded)
    /\ timer' = timer \ {l}
    /\ Spawn({l}, status, child, intent)
    /\ UNCHANGED <<constants, started, stop, settling, succeeded, inFlight>>

\* Nothing to kill and the gate is closed: only the scheduled respawn is dropped.
RestartRefused(l) ==
    /\ MayRestart(l)
    /\ child[l] = "none"
    /\ ~GateOpen(l, succeeded)
    /\ timer' = timer \ {l}
    /\ UNCHANGED <<constants, started, stop, settling, status, child, intent,
                   succeeded, inFlight>>

\* Mistake: `stopped` is not looked at again after the awaits.
RestartResumeUnchecked(l) ==
    /\ l \in inFlight
    /\ child[l] = "none"
    /\ inFlight' = inFlight \ {l}
    /\ Spawn({l}, status, child, intent)
    /\ UNCHANGED <<constants, started, stop, settling, timer, succeeded>>

\* runRestart after its awaits: the old child is accounted for.
RestartResume(l) ==
    /\ l \in inFlight
    /\ child[l] = "none"
    /\ inFlight' = inFlight \ {l}
    /\ IF Stopped \/ ~GateOpen(l, succeeded)
       THEN UNCHANGED <<status, child, intent>>
       ELSE Spawn({l}, status, child, intent)
    /\ UNCHANGED <<constants, started, stop, settling, timer, succeeded>>

\* runStop up to its first await.
Stop ==
    /\ started /\ ~Stopped
    /\ stop' = "awaiting"
    /\ timer' = {}
    /\ settling' = {l \in book.commands : child[l] # "none"}
    /\ intent' = [l \in Labels |-> IF child[l] # "none" THEN "stop" ELSE intent[l]]
    /\ status' = [l \in Labels |->
                     IF child[l] = "none" /\ status[l] \in {"pending", "restarting"}
                     THEN "stopped" ELSE status[l]]
    /\ UNCHANGED <<constants, started, child, succeeded, inFlight>>

\* Mistake: only the kill is awaited, which gives up on what will not die.
StopResumeEarly ==
    /\ stop = "awaiting"
    /\ stop' = "done"
    /\ settling' = {}
    /\ status' = [l \in Labels |-> IF status[l] \in {"running", "restarting"}
                                   THEN "stopped" ELSE status[l]]
    /\ UNCHANGED <<constants, started, child, intent, timer, succeeded, inFlight>>

\* runStop after its awaits.  killTrees gives up after two grace periods, so
\* what remains to wait for is the `settled` promise of each child.
StopResume ==
    /\ stop = "awaiting"
    /\ \A l \in settling : child[l] = "none"
    /\ stop' = "done"
    /\ settling' = {}
    /\ status' = [l \in Labels |-> IF status[l] \in {"running", "restarting"}
                                   THEN "stopped" ELSE status[l]]
    /\ UNCHANGED <<constants, started, child, intent, timer, succeeded, inFlight>>

-----------------------------------------------------------------------------
(* What becomes of a child. *)

\* The process exits, by itself or because it was signalled.
ProcExit(l) ==
    /\ child[l] = "alive"
    /\ \E code \in {"exit0", "exitN"} : child' = [child EXCEPT ![l] = code]
    /\ UNCHANGED <<constants, started, stop, settling, status, intent, timer,
                   succeeded, inFlight>>

\* Mistake: restarting failed commands is the default.
ShouldRestartByDefault(l) == book.policy[l] = "always" \/ child[l] # "exit0"

ShouldRestart(l) ==
    \/ book.policy[l] = "always"
    \/ book.policy[l] = "on-failure" /\ child[l] # "exit0"

\* handleExit begins by emptying the slot: pipes closed, flush grace over, or
\* the 'error' event of a child that never had a process.
Vacate(l) == [child EXCEPT ![l] = "none"]
Disown(l) == [intent EXCEPT ![l] = "none"]

\* An exit runRestart asked for: whatever the code, it says nothing.
ExitForRestart(l) ==
    /\ child[l] \in Ended /\ intent[l] = "restart"
    /\ child' = Vacate(l)
    /\ intent' = Disown(l)
    /\ status' = [status EXCEPT ![l] = "restarting"]
    /\ UNCHANGED <<constants, started, stop, settling, timer, succeeded, inFlight>>

\* An exit runStop asked for.
ExitForStop(l) ==
    /\ child[l] \in Ended /\ intent[l] # "restart"
    /\ intent[l] = "stop" \/ Stopped
    /\ child' = Vacate(l)
    /\ intent' = Disown(l)
    /\ status' = [status EXCEPT ![l] = "stopped"]
    /\ UNCHANGED <<constants, started, stop, settling, timer, succeeded, inFlight>>

OwnExit(l) == child[l] \in Ended /\ intent[l] = "none" /\ ~Stopped

AfterOk(l) ==
    [status EXCEPT ![l] = IF ShouldRestart(l) THEN "restarting" ELSE "exited"]

\* Mistake: a task about to run again does not open its gate.
ExitOkSilent(l) ==
    /\ OwnExit(l) /\ child[l] = "exit0"
    /\ succeeded' = succeeded \cup {l}
    /\ timer' = IF ShouldRestart(l) THEN timer \cup {l} ELSE timer
    /\ Spawn(IF ShouldRestart(l) THEN {} ELSE Ready(AfterOk(l), succeeded'),
             AfterOk(l), Vacate(l), Disown(l))
    /\ UNCHANGED <<constants, started, stop, settling, inFlight>>

\* Exit 0 opens gates at once, also when the command is about to run again.
ExitOk(l) ==
    /\ OwnExit(l) /\ child[l] = "exit0"
    /\ succeeded' = succeeded \cup {l}
    /\ timer' = IF ShouldRestart(l) THEN timer \cup {l} ELSE timer
    /\ Spawn(Ready(AfterOk(l), succeeded'), AfterOk(l), Vacate(l), Disown(l))
    /\ UNCHANGED <<constants, started, stop, settling, inFlight>>

\* Mistake: a command waiting out its backoff is reported as failed.
ExitRetriedAsFailed(l) ==
    /\ OwnExit(l) /\ child[l] # "exit0" /\ ShouldRestart(l)
    /\ child' = Vacate(l)
    /\ intent' = Disown(l)
    /\ status' = [status EXCEPT ![l] = "errored"]
    /\ timer' = timer \cup {l}
    /\ UNCHANGED <<constants, started, stop, settling, succeeded, inFlight>>

ExitRetried(l) ==
    /\ OwnExit(l) /\ child[l] # "exit0" /\ ShouldRestart(l)
    /\ child' = Vacate(l)
    /\ intent' = Disown(l)
    /\ status' = [status EXCEPT ![l] = "restarting"]
    /\ timer' = timer \cup {l}
    /\ UNCHANGED <<constants, started, stop, settling, succeeded, inFlight>>

ExitFailed(l) ==
    /\ OwnExit(l) /\ child[l] # "exit0" /\ ~ShouldRestart(l)
    /\ child' = Vacate(l)
    /\ intent' = Disown(l)
    /\ status' = Cascade({l}, [status EXCEPT ![l] = "errored"])
    /\ UNCHANGED <<constants, started, stop, settling, timer, succeeded, inFlight>>

\* The scheduled respawn.
RestartTimer(l) ==
    /\ l \in timer
    /\ timer' = timer \ {l}
    /\ IF Stopped \/ child[l] # "none"
       THEN UNCHANGED <<status, child, intent>>
       ELSE Spawn({l}, status, child, intent)
    /\ UNCHANGED <<constants, started, stop, settling, succeeded, inFlight>>

-----------------------------------------------------------------------------

HandleExit(l) ==
    \/ ExitForRestart(l) \/ ExitForStop(l)
    \/ ExitOk(l) \/ ExitRetried(l) \/ ExitFailed(l)

Next ==
    \/ Start \/ Stop \/ StopResume
    \/ \E l \in Labels :
          \/ RestartKill(l) \/ RestartSpawn(l) \/ RestartRefused(l)
          \/ RestartResume(l)
          \/ ProcExit(l)
          \/ ExitForRestart(l) \/ ExitForStop(l)
          \/ ExitOk(l) \/ ExitRetried(l) \/ ExitFailed(l)
          \/ RestartTimer(l)

Spec == Init /\ [][Next]_vars

-----------------------------------------------------------------------------
(* Fairness.  The event loop runs what is due: suspended code whose await     *)
(* has resolved, timers, and the end of a flush (close, or the flush timer).  *)
(* Users do nothing they have to, and no process has to exit by itself.       *)

LoopFairness ==
    /\ WF_vars(Start)
    /\ WF_vars(StopResume)
    /\ \A l \in Labels : /\ WF_vars(RestartResume(l))
                         /\ WF_vars(HandleExit(l))
                         /\ WF_vars(RestartTimer(l))

\* A process we are killing dies: SIGKILL or taskkill /F worked.
KillsWork == \A l \in Labels : WF_vars(ProcExit(l) /\ intent[l] # "none")

FairSpec == Spec /\ LoopFairness

KillableSpec == FairSpec /\ KillsWork

-----------------------------------------------------------------------------
(* The health of a run, as the status getter reports it. *)

RunStatus ==
    LET broken == {l \in book.commands : \/ status[l] \in {"errored", "stopped"}
                                         \/ l \in blocked /\ status[l] = "pending"}
        restarting == {l \in book.commands : status[l] = "restarting"}
        running == {l \in book.commands : status[l] = "running"}
        waiting == {l \in book.commands \ blocked : status[l] = "pending"}
    IN CASE Stopped -> "stopped"
         [] ~Stopped /\ ~started -> "starting"
         [] ~Stopped /\ started /\ broken \cup restarting = {} ->
               IF waiting # {} THEN "starting" ELSE "running"
         [] ~Stopped /\ started /\ broken \cup restarting # {} ->
               IF running \cup restarting \cup waiting # {} THEN "degraded" ELSE "failed"

-----------------------------------------------------------------------------
(* Properties. *)

TypeOK ==
    /\ book \in Playbooks
    /\ blocked = book.commands \ Reachable(book)
    /\ started \in BOOLEAN
    /\ stop \in {"no", "awaiting", "done"}
    /\ settling \subseteq book.commands
    /\ status \in [Labels -> Statuses]
    /\ child \in [Labels -> Children]
    /\ intent \in [Labels -> Intents]
    /\ timer \subseteq book.commands
    /\ succeeded \subseteq book.commands
    /\ inFlight \subseteq book.commands

\* Whatever has a process, is going to get one or has ever succeeded had all of
\* its dependencies exit 0 before (gateOpen guards the first spawn and a manual
\* restart; the backoff timer respawns without asking again).
GateRespected ==
    \A l \in book.commands :
        (child[l] # "none" \/ l \in timer \cup inFlight \cup succeeded)
            => GateOpen(l, succeeded)

\* No turn of the event loop ends with a startable command left pending: every
\* path on which a gate may open calls spawnReady.
NoReadyLeftWaiting ==
    started /\ ~Stopped => Ready(status, succeeded) = {}

\* A command that could start is pending only while some task it depends on,
\* directly or not, is still running or being restarted: a run never waits for
\* something that will not happen, because every final failure cascades.
WaitingHasHope ==
    started /\ ~Stopped =>
        \A l \in book.commands \ blocked :
            status[l] = "pending" =>
                \E t \in book.commands :
                    /\ l \in Downstream(book, t)
                    /\ status[t] \in {"running", "restarting"}

\* In a run that is not stopped, "restarting" means exactly one party is going
\* to respawn the command, a scheduled timer or a suspended restartCommand, and
\* a timer never finds a process in its slot (which it would overwrite).
RestartHasOneOwner ==
    ~Stopped =>
        /\ \A l \in Labels : status[l] = "restarting" <=> l \in timer \cup inFlight
        /\ timer \cap inFlight = {}
        /\ \A l \in timer : child[l] = "none"

\* Once stop() has resolved no child, no timer and no unfinished status is left,
\* so the registry may start the next run of the target.
StoppedIsQuiet ==
    stop = "done" =>
        /\ timer = {}
        /\ \A l \in book.commands :
              child[l] = "none" /\ status[l] \in {"exited", "errored", "stopped"}

\* The commands this step spawns a process (or tries to) for.
Spawned(l) == child'[l] \in {"alive", "unspawned"} /\ child[l] \notin {"alive", "unspawned"}

\* A spawn only ever fills an empty slot, and never once the run is stopping,
\* whatever was suspended or scheduled when stop() was called.
NoSpawnAfterStop ==
    [][\A l \in Labels : Spawned(l) => child[l] = "none" /\ ~Stopped /\ ~Stopped']_vars

\* "Nothing restarts by itself": a command without a restart policy gets a
\* second process only because a user asked for it, through a restartCommand
\* that was waiting for the first to end or that found the command at rest.
NothingRestartsByItself ==
    [][\A l \in Labels :
          Spawned(l) /\ book.policy[l] = "never" /\ status[l] # "pending"
              => l \in inFlight \/ status[l] \in {"exited", "errored"}]_vars

\* A run that reports "failed" has nothing left to happen in it: no process, no
\* exit to account for, no respawn scheduled or suspended.
FailedIsFinal ==
    RunStatus = "failed" =>
        /\ timer \cup inFlight = {}
        /\ \A l \in book.commands : child[l] = "none"

\* The statuses reported are a run as PlaybookRun describes it.
life == CASE Stopped -> IF stop = "done" THEN "stopped" ELSE "stopping"
          [] ~Stopped -> IF started THEN "live" ELSE "new"

Run == INSTANCE PlaybookRun WITH phase <- status, won <- succeeded

ImplementsPlaybookRun == Run!Spec

\* stop() resolves: the daemon can shut down and the target can start again.
StopTerminates == (stop = "awaiting") ~> (stop = "done")

\* A command does not stay "restarting": it is spawned, fails to, or the run
\* is stopped.
RestartSettles ==
    \A l \in Labels : (status[l] = "restarting") ~> (status[l] # "restarting")

\* The environment's side of a playbook: a process started for a task exits.
TasksEnd == \A l \in Labels : WF_vars(ProcExit(l) /\ book.kind[l] = "task")

\* When tasks end, a command that can start does not stay pending: it starts,
\* is skipped or stopped, or a task it depends on has to run once more.
NobodyWaitsForever ==
    TasksEnd =>
        \A l \in Labels :
            (started /\ l \in book.commands \ blocked /\ status[l] = "pending")
                ~> \/ status[l] # "pending"
                   \/ \E t \in book.commands :
                         l \in Downstream(book, t) /\ status[t] = "restarting"

=============================================================================
