------------------------------ MODULE KillTree ------------------------------
(***************************************************************************)
(* One call of killTrees: src/supervisor/kill.ts.                           *)
(*                                                                          *)
(* Each child is a shell that leads a process group, plus the rest of its   *)
(* group, kept as one process that may come and go: the worker.  A soft     *)
(* request, a grace period, a force request, another grace period; time is  *)
(* abstract, so a race with a timer may end at any moment.                  *)
(***************************************************************************)

CONSTANT Kids       (* the children killTrees is called with                *)

VARIABLES
    platform,   \* "posix" or "windows"
    shell,      \* the child itself: "none", "up", "doomed", "zombie", "gone"
    worker,     \* what the shell started and has not ended: "none", "up", "doomed"
    stage,      \* "idle", "soft", "force", "done"
    live,       \* the children that were live when killTrees was called
    asked,      \* taskkill runs whose exit we have not seen: "soft", "force"
    softFailed, \* the soft taskkill reported that it failed
    refused,    \* the force taskkill ran and could not kill
    gaveUp      \* the second grace period ended before the trees did

vars == <<platform, shell, worker, stage, live, asked, softFailed, refused, gaveUp>>

\* "none": never had a process.  "doomed": it will die of a signal already sent.
\* "zombie": dead, but Node has not emitted 'exit'.  "gone": 'exit' was emitted.

-----------------------------------------------------------------------------
(* What kill.ts can see. *)

\* isLive: it has a pid, and Node knows of no exit.
IsLive(c) == shell[c] \in {"up", "doomed", "zombie"}

\* A group exists while a member does; a zombie leader counts until reaped.
\* On Windows the question is not asked.
GroupsEmpty ==
    platform = "posix" => \A c \in live : ~IsLive(c) /\ worker[c] = "none"

ChildrenExited == \A c \in live : ~IsLive(c)

\* Mistake: the exit of the shell is taken for the end of the tree.
IsGoneByExit == ChildrenExited

IsGone == ChildrenExited /\ GroupsEmpty

-----------------------------------------------------------------------------
(* Signals. *)

\* The processes of S that are up will die: S is a set of shells, T of workers.
Doom(S, T) ==
    /\ shell' = [c \in Kids |-> IF c \in S /\ shell[c] = "up" THEN "doomed" ELSE shell[c]]
    /\ worker' = [c \in Kids |-> IF c \in T /\ worker[c] = "up" THEN "doomed" ELSE worker[c]]

\* A request a process may ignore, sent to the trees of C.
AskPolitely(C) == \E S, T \in SUBSET C : Doom(S, T)

\* taskkill /T finds a tree through its root, so only where the shell exists.
Rooted == {c \in live : shell[c] \in {"up", "doomed"}}

\* requestTerminate
RequestTerminate ==
    \/ platform = "posix" /\ AskPolitely(live') /\ UNCHANGED asked
    \/ platform = "windows" /\ asked' = {"soft"} /\ UNCHANGED <<shell, worker>>

\* Mistake: the group of a shell that has exited is not signalled again.
ForceTerminateLive ==
    \/ /\ platform = "posix"
       /\ LET still == {c \in live : IsLive(c)} IN Doom(still, still)
       /\ UNCHANGED asked
    \/ platform = "windows" /\ asked' = asked \cup {"force"} /\ UNCHANGED <<shell, worker>>

\* forceTerminate
ForceTerminate ==
    \/ platform = "posix" /\ Doom(live, live) /\ UNCHANGED asked
    \/ platform = "windows" /\ asked' = asked \cup {"force"} /\ UNCHANGED <<shell, worker>>

-----------------------------------------------------------------------------

Init ==
    /\ platform \in {"posix", "windows"}
    /\ shell \in [Kids -> {"none", "up"}]
    /\ worker = [c \in Kids |-> "none"]
    /\ stage = "idle"
    /\ live = {}
    /\ asked = {}
    /\ softFailed = FALSE
    /\ refused = FALSE
    /\ gaveUp = FALSE

\* killTrees up to its first await: children without a process, or whose exit
\* is already known, are left out.
Call ==
    /\ stage = "idle"
    /\ live' = {c \in Kids : IsLive(c)}
    /\ IF live' = {}
       THEN stage' = "done" /\ UNCHANGED <<shell, worker, asked>>
       ELSE stage' = "soft" /\ RequestTerminate
    /\ UNCHANGED <<platform, softFailed, refused, gaveUp>>

\* The first race is over: the trees are gone, the grace period has passed, or
\* the soft request has failed; in the last two cases, use force.
SoftEnds ==
    /\ stage = "soft"
    /\ IF IsGone
       THEN stage' = "done" /\ UNCHANGED <<shell, worker, asked>>
       ELSE stage' = "force" /\ ForceTerminate
    /\ UNCHANGED <<platform, live, softFailed, refused, gaveUp>>

\* The second race is over: the trees are gone, or killTrees stops waiting.
ForceEnds ==
    /\ stage = "force"
    /\ stage' = "done"
    /\ gaveUp' = ~IsGone
    /\ UNCHANGED <<platform, shell, worker, live, asked, softFailed, refused>>

\* taskkill /T ends, successfully or not; it may take longer than we wait.
SoftAnswer ==
    /\ "soft" \in asked
    /\ asked' = asked \ {"soft"}
    /\ AskPolitely(Rooted)
    /\ softFailed' \in BOOLEAN
    /\ UNCHANGED <<platform, stage, live, refused, gaveUp>>

\* Mistake: nothing is done about a taskkill that cannot be run.
ForceAnswerNoFallback ==
    /\ "force" \in asked
    /\ asked' = asked \ {"force"}
    /\ \/ Doom(Rooted, Rooted) /\ refused' = refused
       \/ Doom({}, {}) /\ refused' = refused
       \/ AskPolitely(Rooted) /\ refused' = TRUE
    /\ UNCHANGED <<platform, stage, live, softFailed, gaveUp>>

\* taskkill /T /F ends: it killed the trees, could not be run (then we kill the
\* shells ourselves), or ran and reported a failure, which nobody looks at.
ForceAnswer ==
    /\ "force" \in asked
    /\ asked' = asked \ {"force"}
    /\ \/ Doom(Rooted, Rooted) /\ refused' = refused
       \/ Doom(live, {}) /\ refused' = refused
       \/ AskPolitely(Rooted) /\ refused' = TRUE
    /\ UNCHANGED <<platform, stage, live, softFailed, gaveUp>>

-----------------------------------------------------------------------------
(* The processes. *)

Processes(c, s, w) ==
    /\ shell' = [shell EXCEPT ![c] = s]
    /\ worker' = [worker EXCEPT ![c] = w]
    /\ UNCHANGED <<platform, stage, live, asked, softFailed, refused, gaveUp>>

Fork(c) == shell[c] = "up" /\ worker[c] = "none" /\ Processes(c, "up", "up")

ShellDies(c) == shell[c] \in {"up", "doomed"} /\ Processes(c, "zombie", worker[c])

\* Node reaps the shell and emits 'exit'.
Report(c) == shell[c] = "zombie" /\ Processes(c, "gone", worker[c])

WorkerDies(c) == worker[c] \in {"up", "doomed"} /\ Processes(c, shell[c], "none")

Next ==
    \/ Call \/ SoftEnds \/ ForceEnds \/ SoftAnswer \/ ForceAnswer
    \/ \E c \in Kids : Fork(c) \/ ShellDies(c) \/ Report(c) \/ WorkerDies(c)

Spec == Init /\ [][Next]_vars

\* Timers fire, taskkill ends, Node reaps, and the kernel delivers what it
\* accepted; nothing dies that was not told to.
FairSpec ==
    /\ Spec
    /\ WF_vars(SoftEnds) /\ WF_vars(ForceEnds)
    /\ WF_vars(SoftAnswer) /\ WF_vars(ForceAnswer)
    /\ \A c \in Kids :
          /\ WF_vars(Report(c))
          /\ WF_vars(shell[c] = "doomed" /\ ShellDies(c))
          /\ WF_vars(worker[c] = "doomed" /\ WorkerDies(c))

-----------------------------------------------------------------------------
(* Properties. *)

\* killTrees that resolves without giving up leaves no shell it was asked to
\* kill, and on POSIX nobody in their groups: a restart finds the ports free.
ResolvedMeansGone ==
    stage = "done" /\ ~gaveUp =>
        \A c \in live : shell[c] = "gone" /\ (platform = "posix" => worker[c] = "none")

\* Also when it gives up, nobody in those groups got away without a SIGKILL,
\* not even a worker that outlived its shell or was forked during the wait.
NothingLeftUp ==
    stage = "done" /\ platform = "posix" =>
        \A c \in live : shell[c] # "up" /\ worker[c] # "up"

\* The shells end, on both platforms, unless taskkill itself is refused: what
\* the supervisor relies on when it waits for the exit of a child it killed.
KilledShellsExit ==
    (stage # "idle") ~> (refused \/ \A c \in live : shell[c] = "gone")

\* "Kills one child and everything it spawned. Resolves once they are gone."
EverythingSpawnedIsGone ==
    stage = "done" /\ ~gaveUp /\ platform = "posix" =>
        \A c \in Kids : ~IsLive(c) /\ worker[c] = "none"

=============================================================================
