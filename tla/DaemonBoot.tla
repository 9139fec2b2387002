----------------------------- MODULE DaemonBoot -----------------------------
(***************************************************************************)
(* Daemons that start, serve, crash and stop over one socket path and one   *)
(* list of child records: src/daemon/daemon.ts, index.ts, reap.ts, and      *)
(* listen and close of src/ipc/server.ts.                                   *)
(*                                                                          *)
(* A step is what one process does between two points where another may act *)
(* on the socket file, the records or the children.  Every daemon has one   *)
(* child, named after it, started (by autostart or by a client) once it     *)
(* serves.                                                                  *)
(***************************************************************************)
EXTENDS Naturals, FiniteSets

CONSTANTS
    Daemons,        (* daemon processes, spawned in the order 1, 2, ...      *)
    MaxCrashes,     (* bound: processes killed from outside                  *)
    MaxStops        (* bound: daemons asked to stop                          *)

ASSUME DaemonBootAssumption ==
    /\ IsFiniteSet(Daemons) /\ Daemons # {} /\ Daemons = 1..Cardinality(Daemons)
    /\ MaxCrashes \in Nat /\ MaxStops \in Nat

NoFile == 0

VARIABLES
    windows,    \* a named pipe, which ends with its process, or a socket file
    phase,      \* where each daemon is, see Phases
    file,       \* the daemon that bound the socket file, or NoFile
    kid,        \* each daemon's child: "none", "up", "gone"
    records,    \* the daemons whose child has a ChildRecord in the state file
    doomed,     \* the children a reaper has decided to kill
    spared,     \* history: children a reaper could not kill or identify, or
                \* that had no record yet when their daemon was killed
    overlap,    \* history: two daemons have run at once
    crashes,    \* how many processes were killed
    stops       \* how many daemons were asked to stop

daemonVars == <<windows, phase, file, kid, records, doomed, spared, overlap, stops>>

Booting == {"reap", "kill", "clear", "listen", "unlink", "bind"}
Serving == {"up", "stopping"}
Phases == {"unborn", "closing", "dead"} \cup Booting \cup Serving

Running == {d \in Daemons : phase[d] \notin {"unborn", "dead"}}
Unborn == {d \in Daemons : phase[d] = "unborn"}

\* Somebody answers at the socket path.
Up == file # NoFile /\ phase[file] \in Serving

-----------------------------------------------------------------------------
(* The start: reap, then listen. *)

Goes(d, p) == phase' = [phase EXCEPT ![d] = p]

\* A new daemon process begins runDaemon.
Spawned(d) ==
    /\ d \in Unborn /\ \A e \in Unborn : d <= e
    /\ Goes(d, "reap")
    /\ overlap' = (overlap \/ Running # {})

\* creationTimes: the system (CIM, /proc, ps) answers for some of the processes.
Told(pids) == SUBSET pids

\* reapOrphans up to the kills.  A record whose process is gone, or whose pid
\* was reused (its creation time is another), is skipped, and so is one whose
\* creation time the system does not tell.
FindOrphans(d) ==
    /\ phase[d] = "reap"
    /\ LET alive == {k \in records : kid[k] = "up"} IN
       \E told \in Told(alive) :
          /\ doomed' = [doomed EXCEPT ![d] = told]
          /\ spared' = spared \cup (alive \ told)
    /\ Goes(d, IF records = {} THEN "listen" ELSE "kill")
    /\ UNCHANGED <<windows, file, kid, records, overlap, stops>>

\* killPidTree for each of them, and waitForDeath, which gives up in time.  (A
\* pid that is another process's by now is killed too: not a state here.)
KillOrphans(d) ==
    /\ phase[d] = "kill"
    /\ \E survivors \in SUBSET {k \in doomed[d] : kid[k] = "up"} :
          /\ kid' = [k \in Daemons |->
                        IF k \in doomed[d] \ survivors THEN "gone" ELSE kid[k]]
          /\ spared' = (spared \ doomed[d]) \cup survivors
    /\ Goes(d, "clear")
    /\ UNCHANGED <<windows, file, records, doomed, overlap, stops>>

\* clearChildren: all of the records, not only those that were looked at.
ClearChildren(d) ==
    /\ phase[d] = "clear"
    /\ records' = {}
    /\ doomed' = [doomed EXCEPT ![d] = {}]
    /\ Goes(d, "listen")
    /\ UNCHANGED <<windows, file, kid, spared, overlap, stops>>

\* Mistake: the records are cleared when they have been read.
FindOrphansAndClear(d) ==
    /\ phase[d] = "reap"
    /\ doomed' = [doomed EXCEPT ![d] = {k \in records : kid[k] = "up"}]
    /\ records' = {}
    /\ Goes(d, IF records = {} THEN "listen" ELSE "kill")
    /\ UNCHANGED <<windows, file, kid, spared, overlap, stops>>

\* Mistake: see FindOrphansAndClear.
ReapClearingFirst(d) == FindOrphansAndClear(d) \/ KillOrphans(d) \/ ClearChildren(d)

\* reapOrphans, before the server listens.
Reap(d) == FindOrphans(d) \/ KillOrphans(d) \/ ClearChildren(d)

\* clearStaleSocket up to the answer of its probe.  startDaemon fails, and the
\* process exits with 70, when somebody answers.
Probe(d) ==
    /\ phase[d] = "listen"
    /\ Goes(d, IF windows \/ file = NoFile THEN "bind" ELSE IF Up THEN "dead" ELSE "unlink")
    /\ UNCHANGED <<windows, file, kid, records, doomed, spared, overlap, stops>>

\* unlinkSync: whoever's file it is by now; a file that has vanished is an error.
Unlink(d) ==
    /\ phase[d] = "unlink"
    /\ Goes(d, IF file = NoFile THEN "dead" ELSE "bind")
    /\ file' = NoFile
    /\ UNCHANGED <<windows, kid, records, doomed, spared, overlap, stops>>

\* server.listen: EADDRINUSE when the path is taken.
Bind(d) ==
    /\ phase[d] = "bind"
    /\ IF file = NoFile
       THEN Goes(d, "up") /\ file' = d
       ELSE Goes(d, "dead") /\ UNCHANGED file
    /\ UNCHANGED <<windows, kid, records, doomed, spared, overlap, stops>>

-----------------------------------------------------------------------------
(* Serving, and the end. *)

\* spawn and onChildSpawn, in one turn: the process and its record.
StartChild(d) ==
    /\ phase[d] = "up" /\ kid[d] = "none"
    /\ kid' = [kid EXCEPT ![d] = "up"]
    /\ records' = records \cup {d}
    /\ UNCHANGED <<windows, phase, file, doomed, spared, overlap, stops>>

\* A child ends; onChildExit, if its daemon lives, removes the record.
ChildEnds(d) ==
    /\ kid[d] = "up"
    /\ kid' = [kid EXCEPT ![d] = "gone"]
    /\ records' = IF phase[d] = "dead" THEN records ELSE records \ {d}
    /\ spared' = spared \ {d}
    /\ UNCHANGED <<windows, phase, file, doomed, overlap, stops>>

\* daemon.stop is requested, by a client or a signal.
AskedToStop(d) ==
    /\ phase[d] = "up" /\ stops < MaxStops
    /\ Goes(d, "stopping")
    /\ stops' = stops + 1

\* What a process gives back when it closes its server or dies: libuv unlinks
\* the path of a socket it closes, whoever bound it last.
Released(d) == IF windows /\ file # d THEN file ELSE NoFile

\* stopAll has stopped the child; server.close.
CloseServer(d) ==
    /\ phase[d] = "stopping"
    /\ kid' = [kid EXCEPT ![d] = IF kid[d] = "up" THEN "gone" ELSE kid[d]]
    /\ records' = records \ {d}
    /\ file' = Released(d)
    /\ Goes(d, "closing")
    /\ UNCHANGED <<windows, doomed, spared, overlap, stops>>

\* The server has closed: a file that is there (again) is removed, and
\* onShutdown exits the process.
Exit(d) ==
    /\ phase[d] = "closing"
    /\ file' = IF windows THEN file ELSE NoFile
    /\ Goes(d, "dead")
    /\ UNCHANGED <<windows, kid, records, doomed, spared, overlap, stops>>

\* A daemon is killed: its socket file, its child and its records stay.  It may
\* have been about to record a child it had just spawned.
DaemonKilled(d) ==
    /\ d \in Running
    /\ Goes(d, "dead")
    /\ file' = IF windows THEN Released(d) ELSE file
    /\ doomed' = [doomed EXCEPT ![d] = {}]
    /\ \/ UNCHANGED <<kid, spared>>
       \/ /\ phase[d] = "up" /\ kid[d] = "none"
          /\ kid' = [kid EXCEPT ![d] = "up"]
          /\ spared' = spared \cup {d}
    /\ UNCHANGED <<windows, records, overlap, stops>>

\* What a daemon does by itself; it does not depend on anybody to go on.
DaemonStep(d) == Reap(d) \/ Probe(d) \/ Unlink(d) \/ Bind(d) \/ CloseServer(d) \/ Exit(d)

\* Daemon 1 ran before: it has left nothing, or it was killed.
DaemonInit ==
    /\ windows \in BOOLEAN
    /\ phase = [d \in Daemons |-> IF d = 1 THEN "dead" ELSE "unborn"]
    /\ \E left \in BOOLEAN :
          /\ kid = [d \in Daemons |-> IF d = 1 /\ left THEN "up" ELSE "none"]
          /\ file = IF left /\ ~windows THEN 1 ELSE NoFile
          /\ records = IF left THEN {1} ELSE {}
    /\ doomed = [d \in Daemons |-> {}]
    /\ spared = {}
    /\ overlap = FALSE
    /\ crashes = 0
    /\ stops = 0

-----------------------------------------------------------------------------

\* As long as daemons run one after the other, a child that outlived its daemon
\* is on record until it is gone: killed in the middle of its reap, the next
\* daemon reaps again.  Only a child that cannot be identified or killed, or that
\* was not on record yet, is lost.
OrphansStayOnRecord ==
    ~overlap =>
        \A d \in Daemons :
            phase[d] = "dead" /\ kid[d] = "up" => d \in records \cup spared

=============================================================================
