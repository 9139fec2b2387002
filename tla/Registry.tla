------------------------------ MODULE Registry ------------------------------
(***************************************************************************)
(* The runs of one daemon: src/daemon/registry.ts, the handlers of          *)
(* src/daemon/methods.ts that start and stop runs, and the autostart and    *)
(* shutdown of src/daemon/daemon.ts.                                        *)
(*                                                                          *)
(* A run is a number and stands for a Supervisor (module Supervisor), of    *)
(* which only its promises are kept: before stop() its processes may come   *)
(* and go, after stop() none is spawned, and stop() resolves when the last  *)
(* one has ended (StoppedIsQuiet and NoSpawnAfterStop there).               *)
(***************************************************************************)
EXTENDS Naturals, Sequences, SequencesExt

CONSTANTS
    Slugs,      \* the targets that can be known to the daemon
    MaxRuns,    \* bound: how many runs a target may have
    MaxQueue    \* bound: how many operations of a target may be waiting

ASSUME BoundsAssumption == MaxRuns \in Nat /\ MaxQueue \in Nat

VARIABLES
    phase,      \* "serving", "stopping", "closing", "exited"
    targets,    \* the targets on record
    restoring,  \* the targets restoreAutostart has still to start
    queue,      \* the operations of each target, the head being at work
    entry,      \* the run registered for each target, or NoRun
    stopping,   \* the run whose teardown is under way, or NoRun
    runs,       \* how many runs each target has had
    alive,      \* the runs of each target that have processes
    lastAsk,    \* history: the last operation queued for each target
    seen        \* history: the entries stopAll found, or NoRun

vars == <<phase, targets, restoring, queue, entry, stopping, runs, alive, lastAsk, seen>>

NoRun == 0

Runs == 1 .. MaxRuns

\* What may wait in a queue.  "shutdown" is a stop by stopAll, "remove" the stop
\* of target.remove, "restart" the restart of one command of the run.
Stops == {"stop", "remove", "shutdown"}

Teardowns == Stops \cup {"start"}

Ops == Teardowns \cup {"restart"}

Nothing == [s \in Slugs |-> NoRun]

-----------------------------------------------------------------------------

Init ==
    /\ phase = "serving"
    /\ targets \in SUBSET Slugs
    /\ restoring \in SUBSET targets
    /\ queue = [s \in Slugs |-> <<>>]
    /\ entry = Nothing
    /\ stopping = Nothing
    /\ runs = [s \in Slugs |-> 0]
    /\ alive = [s \in Slugs |-> {}]
    /\ lastAsk = [s \in Slugs |-> "none"]
    /\ seen = Nothing

\* Registry.serialise
Enqueue(s, op) ==
    /\ Len(queue[s]) < MaxQueue
    /\ queue' = [queue EXCEPT ![s] = Append(@, op)]
    /\ lastAsk' = [lastAsk EXCEPT ![s] = op]

\* The operation at work on a target has ended.
Pop(s) == queue' = [queue EXCEPT ![s] = Tail(@)]

AtWork(s, ops) == queue[s] # <<>> /\ Head(queue[s]) \in ops

\* The operation at work waits for nothing: it goes on before the event loop
\* turns to the next message, timer or exit.
Due(s) ==
    IF entry[s] = NoRun
    THEN queue[s] # <<>> /\ stopping[s] = NoRun
    ELSE AtWork(s, Teardowns)

\* Mistake: stopAll waits until no queue holds anything.
AllQueuesEmpty == \A s \in Slugs : queue[s] = <<>>

\* stopAll has resolved: none of its operations is left.
AllStopped == \A s \in Slugs : "shutdown" \notin ToSet(queue[s])

\* The event loop may turn to something new.
Idle ==
    /\ phase # "exited"
    /\ restoring = {}
    /\ ~(phase = "stopping" /\ AllStopped)
    /\ \A s \in Slugs : ~Due(s)

-----------------------------------------------------------------------------
(* Requests: what a handler does before its first await. *)

\* The socket answers until close() has begun.
Serving == phase \in {"serving", "stopping"} /\ Idle

TargetAdd(s) ==
    /\ Serving /\ s \notin targets
    /\ targets' = targets \cup {s}
    /\ UNCHANGED <<phase, restoring, queue, entry, stopping, runs, alive, lastAsk, seen>>

Request(s, op) ==
    /\ Serving /\ s \in targets
    /\ Enqueue(s, op)
    /\ UNCHANGED <<phase, targets, restoring, entry, stopping, runs, alive, seen>>

\* run.start, and run.restart without a command; the checkout and the playbook
\* it needs are there.
RunStart(s) == Request(s, "start")

\* Mistake: a target that does not run is taken for stopped.
RunStopIfRunning(s) ==
    IF entry[s] # NoRun
    THEN Request(s, "stop")
    ELSE /\ Serving /\ s \in targets
         /\ lastAsk' = [lastAsk EXCEPT ![s] = "stop"]
         /\ UNCHANGED <<phase, targets, restoring, queue, entry, stopping, runs, alive, seen>>

\* run.stop
RunStop(s) == Request(s, "stop")

\* target.remove
TargetRemove(s) == Request(s, "remove")

\* run.restart of one command
RunRestart(s) == entry[s] # NoRun /\ Request(s, "restart")

-----------------------------------------------------------------------------
(* The operations of a queue. *)

\* Registry.teardown up to the supervisor's stop().
BeginTeardown(s) ==
    /\ phase # "exited"
    /\ AtWork(s, Teardowns)
    /\ entry[s] # NoRun
    /\ entry' = [entry EXCEPT ![s] = NoRun]
    /\ stopping' = [stopping EXCEPT ![s] = entry[s]]
    /\ UNCHANGED <<phase, targets, restoring, queue, runs, alive, lastAsk, seen>>

\* Mistake: the teardown does not wait for the processes of the run.
TornDownUnwaited(s) == entry[s] = NoRun

\* There was nothing to tear down, or the supervisor's stop() has resolved.
TornDown(s) == entry[s] = NoRun /\ stopping[s] \notin alive[s]

\* The end of a stop.  target.remove then drops the record; its handler is
\* resumed before the next operation of the queue.
StopOver(s) ==
    /\ phase # "exited"
    /\ AtWork(s, Stops) /\ TornDown(s)
    /\ Pop(s)
    /\ stopping' = [stopping EXCEPT ![s] = NoRun]
    /\ targets' = IF Head(queue[s]) = "remove" THEN targets \ {s} ELSE targets
    /\ UNCHANGED <<phase, restoring, entry, runs, alive, lastAsk, seen>>

\* The end of a start: Registry.spawn.  The run may have processes at once, or
\* none yet that lived; creating its log or its supervisor may throw.
StartOver(s) ==
    /\ phase # "exited"
    /\ AtWork(s, {"start"}) /\ TornDown(s)
    /\ Pop(s)
    /\ stopping' = [stopping EXCEPT ![s] = NoRun]
    /\ \/ /\ runs[s] < MaxRuns
          /\ runs' = [runs EXCEPT ![s] = @ + 1]
          /\ entry' = [entry EXCEPT ![s] = runs'[s]]
          /\ alive' \in {alive, [alive EXCEPT ![s] = @ \cup {runs'[s]}]}
       \/ UNCHANGED <<entry, runs, alive>>
    /\ UNCHANGED <<phase, targets, restoring, lastAsk, seen>>

\* The end of restartCommand: it did nothing if the run was gone by its turn,
\* and else the supervisor replaced a process, see Revive and Die.
RestartOver(s) ==
    /\ phase # "exited"
    /\ AtWork(s, {"restart"})
    /\ Pop(s)
    /\ UNCHANGED <<phase, targets, restoring, entry, stopping, runs, alive, lastAsk, seen>>

-----------------------------------------------------------------------------
(* The processes of a run, as its supervisor lets them be. *)

\* A gate opens, a backoff ends or a command is restarted: only before stop().
Revive(s) ==
    /\ Idle
    /\ entry[s] # NoRun /\ entry[s] \notin alive[s]
    /\ alive' = [alive EXCEPT ![s] = @ \cup {entry[s]}]
    /\ UNCHANGED <<phase, targets, restoring, queue, entry, stopping, runs, lastAsk, seen>>

Die(s, r) ==
    /\ r \in alive[s]
    /\ alive' = [alive EXCEPT ![s] = @ \ {r}]
    /\ UNCHANGED <<phase, targets, restoring, queue, entry, stopping, runs, lastAsk, seen>>

-----------------------------------------------------------------------------
(* Autostart and shutdown. *)

\* restoreAutostart starts one target after the other, as soon as the socket is
\* open; one that cannot be started is reported and the next is tried.  Nothing
\* runs yet, so each start is over before the loop turns to anything else.
RestoreNext(s) ==
    /\ s \in restoring
    /\ \A t \in Slugs : queue[t] = <<>>
    /\ restoring' = restoring \ {s}
    /\ Enqueue(s, "start") \/ UNCHANGED <<queue, lastAsk>>
    /\ UNCHANGED <<phase, targets, entry, stopping, runs, alive, seen>>

\* daemon.stop, on request or on a signal, up to its first await: stopAll takes
\* the entries of this moment, and nothing else stops later.
Stop ==
    /\ phase = "serving" /\ Idle
    /\ phase' = "stopping"
    /\ seen' = entry
    /\ queue' = [s \in Slugs |->
                    IF entry[s] # NoRun THEN Append(queue[s], "shutdown") ELSE queue[s]]
    /\ lastAsk' = [s \in Slugs |-> IF entry[s] # NoRun THEN "shutdown" ELSE lastAsk[s]]
    /\ UNCHANGED <<targets, restoring, entry, stopping, runs, alive>>

\* Mistake: the socket is closed while stopAll is under way.
CloseServerAtOnce ==
    /\ phase = "stopping"
    /\ phase' = "closing"
    /\ UNCHANGED <<targets, restoring, queue, entry, stopping, runs, alive, lastAsk, seen>>

\* The server closes.
CloseServer ==
    /\ phase = "stopping"
    /\ AllStopped
    /\ phase' = "closing"
    /\ UNCHANGED <<targets, restoring, queue, entry, stopping, runs, alive, lastAsk, seen>>

\* onShutdown: process.exit.  What is queued is lost; processes live on.
ExitProcess ==
    /\ phase = "closing" /\ Idle
    /\ phase' = "exited"
    /\ UNCHANGED <<targets, restoring, queue, entry, stopping, runs, alive, lastAsk, seen>>

Next ==
    \/ \E s \in Slugs :
          \/ TargetAdd(s) \/ RunStart(s) \/ RunStop(s) \/ TargetRemove(s) \/ RunRestart(s)
          \/ BeginTeardown(s) \/ StopOver(s) \/ StartOver(s) \/ RestartOver(s)
          \/ Revive(s) \/ RestoreNext(s)
          \/ \E r \in Runs : Die(s, r)
    \/ Stop \/ CloseServer \/ ExitProcess

Spec == Init /\ [][Next]_vars

\* The loop runs what is due, and the processes of a run being stopped end.
FairSpec ==
    /\ Spec
    /\ \A s \in Slugs :
          /\ WF_vars(BeginTeardown(s)) /\ WF_vars(StopOver(s))
          /\ WF_vars(StartOver(s)) /\ WF_vars(RestartOver(s))
          /\ WF_vars(Die(s, stopping[s]))
    /\ WF_vars(\E s \in Slugs : RestoreNext(s))
    /\ WF_vars(CloseServer) /\ WF_vars(ExitProcess)

-----------------------------------------------------------------------------
(* Properties. *)

TypeOK ==
    /\ phase \in {"serving", "stopping", "closing", "exited"}
    /\ targets \in SUBSET Slugs
    /\ restoring \in SUBSET targets
    /\ queue \in [Slugs -> Seq(Ops)]
    /\ entry \in [Slugs -> Runs \cup {NoRun}]
    /\ stopping \in [Slugs -> Runs \cup {NoRun}]
    /\ runs \in [Slugs -> 0 .. MaxRuns]
    /\ alive \in [Slugs -> SUBSET Runs]
    /\ lastAsk \in [Slugs -> Ops \cup {"none"}]
    /\ seen \in [Slugs -> Runs \cup {NoRun}]

\* "A start can never overlap the stop it follows": while a run of a target has
\* processes, no other run of it is started, however the requests were mixed.
StartsFollowStops ==
    [][\A s \in Slugs : runs'[s] # runs[s] => alive[s] = {}]_vars

\* Every process of a target belongs to the run that is registered or to the
\* one a waiting operation is tearing down: nothing runs that no stop can reach.
NoUnreachableRun ==
    \A s \in Slugs : \A r \in alive[s] :
        r = entry[s] \/ (r = stopping[s] /\ AtWork(s, Teardowns))

\* A stop is not overtaken: once a target's operations are done and the last
\* one asked for was a stop, the target does not run.
LastStopWins ==
    \A s \in Slugs : queue[s] = <<>> /\ lastAsk[s] \in Stops =>
        entry[s] = NoRun /\ alive[s] = {}

\* What was running when the shutdown began has ended when the daemon exits.
ShutdownKillsKnown ==
    phase = "exited" => \A s \in Slugs : seen[s] \notin alive[s]

\* The daemon exits once it is told to, however many requests still come in.
ShutdownCompletes == (phase = "stopping") ~> (phase = "exited")

\* "A clean shutdown kills them": no process of any run outlives the daemon.
CleanShutdownKills == phase = "exited" => \A s \in Slugs : alive[s] = {}

=============================================================================
