------------------------------ MODULE Autospawn ------------------------------
(***************************************************************************)
(* Clients that start the daemon when none answers: src/ipc/spawn.ts, and   *)
(* the restart verb of src/cli/commands/daemon.ts, over the daemons of      *)
(* DaemonBoot.                                                              *)
(*                                                                          *)
(* A client is a process; a step is what it does between two points where   *)
(* another process may touch the lock file or the socket.                   *)
(***************************************************************************)
EXTENDS DaemonBoot

CONSTANTS
    Clients,
    LockAttempts    (* LOCK_ATTEMPTS                                         *)

\* Two strings name the owner of no lock and of one left behind.
ASSUME AutospawnAssumption ==
    /\ LockAttempts \in Nat \ {0}
    /\ "nobody" \notin Clients /\ "past" \notin Clients

NoLock == [owner |-> "nobody", pid |-> FALSE, aged |-> FALSE]

VARIABLES
    at,         \* where each client is, see the actions
    lock,       \* the lock file: who made it, whether the pid is in it yet,
                \* whether an empty one is older than the grace
    tries,      \* attempts left in this acquireLock
    calm        \* history: nobody was killed, late, asked to stop or failed to
                \* spawn, and no lock was left behind before

clientVars == <<at, lock, tries, calm>>

vars == <<daemonVars, crashes, clientVars>>

Moves(c, p) == at' = [at EXCEPT ![c] = p]

\* The process whose pid is in the lock has ended: "past" owned one before.
Dead(owner) == owner = "past" \/ (owner \in Clients /\ at[owner] = "killed")

\* inspectLock.
Stale == lock # NoLock /\ IF lock.pid THEN Dead(lock.owner) ELSE lock.aged
Held == lock # NoLock /\ ~Stale

-----------------------------------------------------------------------------
(* ensureDaemon *)

TryConnect(c) ==
    /\ at[c] = "start"
    /\ Moves(c, IF Up THEN "connected" ELSE "acquire")
    /\ UNCHANGED <<daemonVars, crashes, lock, tries, calm>>

\* open(path, 'wx')
OpenLock(c) ==
    /\ at[c] = "acquire"
    /\ IF lock = NoLock
       THEN /\ Moves(c, "write")
            /\ lock' = [owner |-> c, pid |-> FALSE, aged |-> FALSE]
            /\ tries' = [tries EXCEPT ![c] = LockAttempts]
       ELSE Moves(c, "inspect") /\ UNCHANGED <<lock, tries>>
    /\ UNCHANGED <<daemonVars, crashes, calm>>

\* The pid goes into the file that was opened, be it removed by now.
WritePid(c) ==
    /\ at[c] = "write"
    /\ Moves(c, "recheck")
    /\ lock' = IF lock.owner = c THEN [lock EXCEPT !.pid = TRUE] ELSE lock
    /\ UNCHANGED <<daemonVars, crashes, tries, calm>>

\* EEXIST: a lock that is not stale ends the attempts.
InspectLock(c) ==
    /\ at[c] = "inspect"
    /\ Moves(c, IF Stale THEN "remove" ELSE "wait")
    /\ tries' = [tries EXCEPT ![c] = IF Stale THEN @ ELSE LockAttempts]
    /\ UNCHANGED <<daemonVars, crashes, lock, calm>>

\* releaseLock removes whatever lock is there by now.
RemoveStale(c) ==
    /\ at[c] = "remove"
    /\ lock' = NoLock
    /\ tries' = [tries EXCEPT ![c] = IF @ = 1 THEN LockAttempts ELSE @ - 1]
    /\ Moves(c, IF tries[c] = 1 THEN "wait" ELSE "acquire")
    /\ UNCHANGED <<daemonVars, crashes, calm>>

\* Mistake: the holder of the lock spawns without looking again.
RecheckNothing == FALSE

\* The holder looks again before it spawns a daemon.
Recheck == Up

RecheckFindsDaemon(c) ==
    /\ at[c] = "recheck" /\ Recheck
    /\ Moves(c, "releaseConnected")
    /\ UNCHANGED <<daemonVars, crashes, lock, tries, calm>>

SpawnDaemon(c) ==
    /\ at[c] = "recheck" /\ ~Recheck
    /\ \E d \in Daemons : Spawned(d)
    /\ Moves(c, "poll")
    /\ UNCHANGED <<windows, file, kid, records, doomed, spared, stops, crashes, lock,
                   tries, calm>>

\* The child process emits 'error'.
SpawnFails(c) ==
    /\ at[c] = "recheck" /\ ~Recheck
    /\ Moves(c, "pollFailed")
    /\ calm' = FALSE
    /\ UNCHANGED <<daemonVars, crashes, lock, tries>>

\* pollConnect of the holder, which keeps going unless the spawn failed.
PollHolder(c) ==
    /\ at[c] \in {"poll", "pollFailed"} /\ (Up \/ at[c] = "pollFailed")
    /\ Moves(c, IF Up THEN "releaseConnected" ELSE "releaseFailed")
    /\ UNCHANGED <<daemonVars, crashes, lock, tries, calm>>

HolderLate(c) ==
    /\ at[c] = "poll" /\ ~Up
    /\ Moves(c, "releaseFailed")
    /\ calm' = FALSE
    /\ UNCHANGED <<daemonVars, crashes, lock, tries>>

\* The finally block, whatever lock is there by now.
Release(c) ==
    /\ at[c] \in {"releaseConnected", "releaseFailed"}
    /\ lock' = NoLock
    /\ Moves(c, IF at[c] = "releaseConnected" THEN "connected" ELSE "failed")
    /\ UNCHANGED <<daemonVars, crashes, tries, calm>>

\* pollConnect of a waiter: the socket first, then the deadline and the lock.
PollWaiter(c) ==
    /\ at[c] = "wait"
    /\ Moves(c, IF Up THEN "connected" ELSE "waitLock")
    /\ UNCHANGED <<daemonVars, crashes, lock, tries, calm>>

\* Mistake: a waiter waits as long as there is a lock, whoever made it.
WorthWaitingLocked == lock # NoLock

\* The waiter's keepGoing.
WorthWaiting == Held

\* In time, a waiter goes on waiting or tries to get the lock itself.
CheckLock(c) ==
    /\ at[c] = "waitLock"
    /\ Moves(c, IF WorthWaiting THEN "wait" ELSE "acquire")
    /\ UNCHANGED <<daemonVars, crashes, lock, tries, calm>>

WaiterLate(c) ==
    /\ at[c] = "waitLock"
    /\ Moves(c, "failed")
    /\ calm' = FALSE
    /\ UNCHANGED <<daemonVars, crashes, lock, tries>>

\* `rmux daemon restart`: ask the daemon to stop, wait until nobody answers or
\* the time is over, and begin again.
AskStop(c) ==
    /\ at[c] = "connected" /\ Up /\ AskedToStop(file)
    /\ Moves(c, "awaitExit")
    /\ calm' = FALSE
    /\ UNCHANGED <<windows, file, kid, records, doomed, spared, overlap, crashes, lock,
                   tries>>

AwaitExit(c) ==
    /\ at[c] = "awaitExit"
    /\ Moves(c, "start")
    /\ UNCHANGED <<daemonVars, crashes, lock, tries, calm>>

ClientStep(c) ==
    \/ TryConnect(c) \/ OpenLock(c) \/ WritePid(c) \/ InspectLock(c) \/ RemoveStale(c)
    \/ RecheckFindsDaemon(c) \/ SpawnDaemon(c) \/ SpawnFails(c) \/ PollHolder(c)
    \/ Release(c) \/ PollWaiter(c) \/ CheckLock(c) \/ AwaitExit(c)

-----------------------------------------------------------------------------
(* Time and failures. *)

\* Between the creation of its lock and the removal of it.
Holding == {"write", "recheck", "poll", "pollFailed", "releaseConnected", "releaseFailed"}

\* The grace for an empty lock file is over: its owner, if alive, needs less.
LockAges ==
    /\ lock # NoLock /\ ~lock.pid /\ ~lock.aged /\ Dead(lock.owner)
    /\ lock' = [lock EXCEPT !.aged = TRUE]
    /\ UNCHANGED <<daemonVars, crashes, at, tries, calm>>

\* The death of a client that holds no lock is its own affair.
ClientKilled(c) ==
    /\ at[c] \in Holding /\ crashes < MaxCrashes
    /\ crashes' = crashes + 1 /\ calm' = FALSE
    /\ Moves(c, "killed")
    /\ UNCHANGED <<daemonVars, lock, tries>>

Crash(d) ==
    /\ crashes < MaxCrashes /\ DaemonKilled(d)
    /\ crashes' = crashes + 1 /\ calm' = FALSE
    /\ UNCHANGED <<at, lock, tries>>

Init ==
    /\ DaemonInit
    /\ at = [c \in Clients |-> "start"]
    /\ lock \in {NoLock} \cup [owner : {"past"}, pid : BOOLEAN, aged : {FALSE}]
    /\ tries = [c \in Clients |-> LockAttempts]
    /\ calm = (lock = NoLock)

Next ==
    \/ \E c \in Clients : ClientStep(c) \/ HolderLate(c) \/ WaiterLate(c) \/ AskStop(c)
          \/ ClientKilled(c)
    \/ \E d \in Daemons :
          /\ \/ DaemonStep(d) \/ StartChild(d) \/ ChildEnds(d)
          /\ UNCHANGED <<crashes, clientVars>>
    \/ \E d \in Daemons : Crash(d)
    \/ LockAges

\* Processes that were not killed go on, and time passes for
\* the age of a file and the holder's deadline (nobody else's has to).
Fairness ==
    /\ \A c \in Clients : WF_vars(ClientStep(c))
    /\ \A d \in Daemons : WF_vars(DaemonStep(d) /\ UNCHANGED <<crashes, clientVars>>)
    /\ WF_vars(LockAges)
    /\ \A c \in Clients : WF_vars(HolderLate(c))

Spec == Init /\ [][Next]_vars /\ Fairness

-----------------------------------------------------------------------------

\* "Ten shells running rmux up at once still produce exactly one daemon": as
\* long as nothing is killed, late or left over, one is spawned and none has to
\* give way, whatever the others saw of the lock and the socket in between.
OneDaemonWhenCalm ==
    calm => Cardinality(Running) <= 1 /\ \A d \in Daemons : phase[d] = "dead" => d = 1

\* A client that is not killed and whose time has not run out does not wait for
\* ever: neither a lock left behind, with or without a pid in it, nor a daemon
\* that dies, nor a holder that gives up keeps it from a daemon or the lock.
WaiterGetsOn ==
    \A c \in Clients :
        at[c] \in {"acquire", "inspect", "remove", "wait", "waitLock"}
            ~> (at[c] \in {"connected", "failed", "killed"} \cup Holding)

=============================================================================
